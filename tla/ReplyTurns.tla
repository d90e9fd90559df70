----------------------------- MODULE ReplyTurns -----------------------------
(***************************************************************************)
(* The replies of one chat under the policy single_pass in execute mode:   *)
(* callbacks bring messages, jobs (or direct calls) open a turn for a      *)
(* batch, generate once, save the business effects, deliver segment by     *)
(* segment, settle and acknowledge; the recovery scan closes what a job    *)
(* left behind.  Jobs hold the chat's Redis lock but never check it again: *)
(* only the turn's owner and generation_until protect the database.        *)
(***************************************************************************)
EXTENDS ReplyTurn, Sequences, FiniteSets

CONSTANTS
  Recoverers,     \* concurrent recovery scans
  None,           \* nobody holds the chat lock
  Dispatch,       \* how messages are dispatched: subset of {"merged", "direct"}
  Kinds,          \* what generation may decide: subset of {"reply", "receipt", "silent"}
  Segments,       \* segments of a reply
  MaxArrivals,    \* bound: deliveries of the callback of one message
  MaxFaults       \* bound: crashes, failed calls and lost locks in a behaviour

ASSUME ReplyAssumption ==
  /\ Workers \cap Recoverers = {} /\ None \notin Workers \cup Recoverers
  /\ Dispatch \subseteq {"merged", "direct"}
  /\ Kinds \subseteq {"reply", "receipt", "silent"}
  /\ Segments \in Nat \ {0} /\ MaxArrivals \in Nat /\ MaxFaults \in Nat

VARIABLES
  pending,    \* the chat's pending list in Redis
  marked,     \* messages with a deduplication mark
  arrivals,   \* how often the callback of a message was delivered
  turns,      \* agent_reply_turns in order of creation, with agent_reply_inputs
  lock,       \* holder of the chat's processing lease
  work,       \* the call each worker and recovery scan is in
  gens,       \* history: how often the model and its tools ran for a message
  sends,      \* history: per turn, segments that reached the provider's acceptance
  repaired,   \* history: turns whose business effects were handled
  noticed,    \* history: turns reported for manual review
  faults

vars == <<pending, marked, arrivals, turns, lock, work, gens, sends, repaired, noticed, faults>>

inbox == <<pending, marked, arrivals>>
history == <<gens, sends, repaired, noticed>>

Actors == Workers \cup Recoverers

Points == {"idle", "open", "generate", "save", "resave", "start", "check", "wire", "finish",
           "refinish", "giveup", "project", "close", "repair", "remove", "mark", "ack",
           "lease", "resume", "defer"}

\* last: no further attempt to settle follows if the acknowledgement fails.
Idle == [pc |-> "idle", turn |-> 0, batch |-> {}, direct |-> FALSE, kind |-> "silent",
         copy |-> "none", res |-> "none", k |-> 0, last |-> TRUE]

TypeOK ==
  /\ pending \subseteq Messages /\ marked \subseteq Messages
  /\ arrivals \in [Messages -> Nat]
  /\ turns \in Seq(Turns)
  /\ lock \in Actors \cup {None}
  /\ work \in [Actors -> [pc: Points, turn: Nat, batch: SUBSET Messages, direct: BOOLEAN,
                          kind: {"reply", "receipt", "silent"}, copy: Projections,
                          res: Outcomes, k: Nat, last: BOOLEAN]]
  /\ \A w \in Actors : work[w].pc \notin {"idle", "open"} => work[w].turn \in DOMAIN turns
  /\ gens \in [Messages -> Nat]
  /\ sends \in Seq(Nat) /\ Len(sends) = Len(turns)
  /\ repaired \subseteq DOMAIN turns /\ noticed \subseteq DOMAIN turns
  /\ faults \in Nat

Init ==
  /\ pending = {} /\ marked = {} /\ arrivals = [m \in Messages |-> 0]
  /\ turns = <<>> /\ lock = None
  /\ work = [w \in Actors |-> Idle]
  /\ gens = [m \in Messages |-> 0]
  /\ sends = <<>> /\ repaired = {} /\ noticed = {}
  /\ faults = 0

-----------------------------------------------------------------------------
(* Helpers. *)

Turn(w) == turns[work[w].turn]

Store(w, r) == turns' = [turns EXCEPT ![work[w].turn] = r]

Goto(w, p) == work' = [work EXCEPT ![w].pc = p]

Release(w) == lock' = IF lock = w THEN None ELSE lock

\* A job or scan ends.
Done(w) == work' = [work EXCEPT ![w] = Idle] /\ Release(w) /\ UNCHANGED pending

\* It ends with a ReplyDeferredError: a job leaves its messages in the pending list, a direct
\* call puts its message there.
Defers(w) ==
  /\ work' = [work EXCEPT ![w] = Idle]
  /\ Release(w)
  /\ pending' = IF work[w].direct THEN pending \cup work[w].batch ELSE pending

Stays(w, p) == Goto(w, p) /\ UNCHANGED <<pending, lock>>

\* The step after the delivery of a reply or receipt that did not complete: for a receipt the
\* failure is only logged and its result forgotten.
AfterFailure(w) ==
  /\ work' = [work EXCEPT ![w].pc = IF work[w].kind = "receipt" THEN "project" ELSE "giveup",
                          ![w].res = IF work[w].kind = "receipt" THEN "none" ELSE @,
                          ![w].k = IF work[w].kind = "receipt" THEN 0 ELSE @]
  /\ UNCHANGED <<pending, lock>>

\* Where a call goes on when its current step was refused or failed.
OnError(w) ==
  LET p == work[w].pc
  IN  CASE p \in {"open", "generate", "resave", "giveup"} -> Defers(w)
        [] p = "save" -> Stays(w, "resave")
        [] p \in {"start", "project", "close"} -> Stays(w, "giveup")
        [] p = "finish" /\ work[w].res \in {"complete", "skipped"} -> Stays(w, "refinish")
        [] p = "finish" /\ work[w].res \notin {"complete", "skipped"} -> AfterFailure(w)
        [] p = "refinish" -> AfterFailure(w)
        [] p \in {"repair", "remove", "mark", "ack"} ->
             IF w \in Recoverers THEN Stays(w, "defer")
             ELSE IF work[w].last THEN Defers(w) ELSE Stays(w, "giveup")
        [] p = "resume" -> Stays(w, "defer")
        [] p = "defer" -> Done(w)

Fault == faults < MaxFaults /\ faults' = faults + 1

\* One call of the stored procedure: granted, refused, or not confirmed (in which case it may
\* or may not have been committed).  s is the caller's state after a granted call.
Call(w, granted, r, s) ==
  \/ granted /\ Store(w, r) /\ work' = [work EXCEPT ![w] = s] /\ UNCHANGED <<pending, lock, faults>>
  \/ ~granted /\ OnError(w) /\ UNCHANGED <<turns, faults>>
  \/ Fault /\ OnError(w) /\ (UNCHANGED turns \/ (granted /\ Store(w, r)))

At(w, p) == [work[w] EXCEPT !.pc = p]

\* The acknowledgement of turn i, with the projection status the caller has read.
AckPath(w, i, proj, last) ==
  [work[w] EXCEPT !.pc = "repair", !.turn = i, !.copy = proj, !.last = last]

-----------------------------------------------------------------------------
(* Arrival and dispatch. *)

\* A callback claims the message with its deduplication mark and queues it.
Arrive(m) ==
  /\ "merged" \in Dispatch
  /\ m \notin marked /\ arrivals[m] < MaxArrivals
  /\ marked' = marked \cup {m} /\ pending' = pending \cup {m}
  /\ arrivals' = [arrivals EXCEPT ![m] = @ + 1]
  /\ UNCHANGED <<turns, lock, work, history, faults>>

\* With merging switched off the message is answered at once, without the chat lock.
ArriveDirect(w, m) ==
  /\ "direct" \in Dispatch
  /\ work[w].pc = "idle" /\ lock # w
  /\ m \notin marked /\ arrivals[m] < MaxArrivals
  /\ marked' = marked \cup {m}
  /\ arrivals' = [arrivals EXCEPT ![m] = @ + 1]
  /\ work' = [work EXCEPT ![w] = [Idle EXCEPT !.pc = "open", !.batch = {m}, !.direct = TRUE]]
  /\ UNCHANGED <<pending, turns, lock, history, faults>>

\* A job takes the lock and a snapshot of the list.
StartJob(w) ==
  /\ work[w].pc = "idle" /\ lock = None /\ pending # {}
  /\ lock' = w
  /\ work' = [work EXCEPT ![w] = [Idle EXCEPT !.pc = "open", !.batch = pending]]
  /\ UNCHANGED <<inbox, turns, history, faults>>

MarkExpires(m) ==
  /\ m \in marked /\ arrivals[m] < MaxArrivals
  /\ marked' = marked \ {m}
  /\ UNCHANGED <<pending, arrivals, turns, lock, work, history, faults>>

\* The list's 300 s pass while a turn that is not acknowledged keeps deferring the jobs of the
\* chat: a deferred job adds a follow-up, which does not refresh the list (only new messages
\* and jobs that find the lock held or the quiet window open do).
PendingExpires ==
  /\ pending # {} /\ lock = None
  /\ \E i \in DOMAIN turns : turns[i].status # "acked"
  /\ pending' = {}
  /\ UNCHANGED <<marked, arrivals, turns, lock, work, history, faults>>

-----------------------------------------------------------------------------
(* processMessageCore and deliverReply of one job. *)

Sharing(b) == {i \in DOMAIN turns : turns[i].inputs \cap b # {}}

\* Mutant: a settled turn blocks no longer, acknowledged or not.
Blocking_Unfinished == {i \in DOMAIN turns : Unfinished(turns[i])}

\* Turns that keep the chat from opening another one.
Blocking == {i \in DOMAIN turns : turns[i].status # "acked"}

\* Mutant: membership of completed turns is not looked up.
Owners_Unacked(b) == {i \in Sharing(b) : turns[i].status # "acked"}

\* The turns that already own a message of the batch, completed ones included.
Owners(b) == Sharing(b)

\* The oldest of them.
Oldest(S) == {i \in S : \A j \in S : i <= j}

Insert(w) ==
  /\ turns' = Append(turns, NewTurn(w, work[w].batch))
  /\ sends' = Append(sends, 0)

Open(w) ==
  LET b == work[w].batch
  IN  /\ work[w].pc = "open"
      /\ \/ /\ Owners(b) = {} /\ Blocking = {}
            /\ Insert(w)
            /\ \/ /\ work' = [work EXCEPT ![w].pc = "generate", ![w].turn = Len(turns) + 1]
                  /\ UNCHANGED <<pending, lock, faults>>
               \/ Fault /\ Defers(w)
         \/ /\ Owners(b) = {} /\ Blocking # {}
            /\ Defers(w) /\ UNCHANGED <<turns, sends, faults>>
         \/ \E i \in Oldest(Owners(b)) :
               \/ /\ Unfinished(turns[i]) /\ turns[i].live
                  /\ Defers(w) /\ UNCHANGED <<turns, faults>>
               \/ /\ CanInterrupt(turns[i])
                  /\ turns' = [turns EXCEPT ![i] = Interrupted(@)]
                  /\ \/ /\ work' = [work EXCEPT ![w] = AckPath(w, i, turns[i].proj, TRUE)]
                        /\ UNCHANGED <<pending, lock, faults>>
                     \/ Fault /\ Defers(w)
            /\ UNCHANGED sends
         \/ Fault /\ Defers(w) /\ UNCHANGED <<turns, sends>>
      /\ UNCHANGED <<marked, arrivals, gens, repaired, noticed>>

\* The model and its tools run; check_input may end the run before its end, as any error may.
\* The turn then keeps its input: nobody can tell what the tools did.
Generate(w) ==
  /\ work[w].pc = "generate"
  /\ gens' = [m \in Messages |-> IF m \in Turn(w).inputs THEN gens[m] + 1 ELSE gens[m]]
  /\ \/ /\ \E kind \in Kinds : work' = [work EXCEPT ![w].pc = "save", ![w].kind = kind]
        /\ UNCHANGED <<pending, lock>>
     \/ Defers(w)
  /\ UNCHANGED <<marked, arrivals, turns, sends, repaired, noticed, faults>>

\* The business effects are stored, with one more attempt that leads to no delivery.
SaveEffects(w) ==
  /\ work[w].pc \in {"save", "resave"}
  /\ Call(w, CanSave(Turn(w), w), EffectsSaved(Turn(w)),
          At(w, IF work[w].pc = "resave" THEN "giveup"
                ELSE IF work[w].kind = "receipt" THEN "start" ELSE "project"))
  /\ UNCHANGED <<marked, arrivals, history>>

StartDelivery(w) ==
  /\ work[w].pc = "start"
  /\ Call(w, CanStart(Turn(w), w), Started(Turn(w)), At(w, "check"))
  /\ UNCHANGED <<marked, arrivals, history>>

Results(w, o) == work' = [work EXCEPT ![w].pc = "finish", ![w].res = o]

\* Before each segment: the permission to reply, then the right to deliver.
CheckDelivery(w) ==
  /\ work[w].pc = "check"
  /\ \/ work[w].k = Segments /\ Results(w, "complete")
     \/ work[w].k < Segments /\ Results(w, "skipped")
     \/ work[w].k < Segments /\ CanDeliver(Turn(w), w) /\ Goto(w, "wire")
     \/ /\ work[w].k < Segments /\ ~CanDeliver(Turn(w), w)
        /\ \E o \in {"incomplete", "unknown"} : Results(w, o)
  /\ UNCHANGED <<inbox, turns, lock, history, faults>>

\* The send of one segment: accepted, refused, or nobody knows.
SendSegment(w) ==
  /\ work[w].pc = "wire"
  /\ \/ /\ sends' = [sends EXCEPT ![work[w].turn] = @ + 1]
        /\ \/ work' = [work EXCEPT ![w].pc = "check", ![w].k = @ + 1]
           \/ Results(w, "unknown")
     \/ UNCHANGED sends /\ \E o \in {"incomplete", "unknown"} : Results(w, o)
  /\ UNCHANGED <<inbox, turns, lock, gens, repaired, noticed, faults>>

\* Where a job goes once the result of its delivery is stored.
Delivered(w) ==
  IF work[w].kind = "receipt" THEN [At(w, "project") EXCEPT !.res = "none", !.k = 0]
  ELSE At(w, IF work[w].pc = "refinish" \/ work[w].res \notin {"complete", "skipped"}
             THEN "giveup" ELSE "close")

\* finishOrdinary, and its second attempt for a delivery that had not failed.
FinishOrdinary(w) ==
  /\ work[w].pc \in {"finish", "refinish"}
  /\ Call(w, CanSettle(Turn(w), w), Settled(Turn(w), work[w].res, work[w].k), Delivered(w))
  /\ UNCHANGED <<marked, arrivals, history>>

\* The anchors of the tools' results are handled, then the projection is completed.
CompleteProjection(w) ==
  /\ work[w].pc = "project"
  /\ Call(w, CanProject(Turn(w), w), Projected(Turn(w)),
          At(w, IF work[w].kind = "reply" THEN "start" ELSE "close"))
  /\ repaired' = repaired \cup {work[w].turn}
  /\ UNCHANGED <<marked, arrivals, gens, sends, noticed>>

\* The anchors of a job or of an acknowledgement cannot be handled.
RepairFails(w) ==
  /\ work[w].pc = "project" \/ (work[w].pc = "repair" /\ work[w].copy = "pending")
  /\ Fault
  /\ OnError(w)
  /\ UNCHANGED <<marked, arrivals, turns, history>>

\* Mutant: a failed delivery is reported without what it had sent.
Counted_Never(w) == 0

\* What the catch block knows of the segments sent.
Counted(w) == work[w].k

\* The catch block: the turn is closed however its delivery went, and acknowledged.
GiveUp(w) ==
  LET r == Settled(Turn(w), IF work[w].res = "unknown" THEN "unknown" ELSE "incomplete", Counted(w))
  IN  /\ work[w].pc = "giveup"
      /\ Call(w, CanSettle(Turn(w), w), r, AckPath(w, work[w].turn, r.proj, TRUE))
      /\ UNCHANGED <<marked, arrivals, history>>

\* settleAndAckTurn at the end of a job: a turn not settled yet sent nothing.
Close(w) ==
  LET r == Settled(Turn(w), "skipped", 0)
  IN  /\ work[w].pc = "close"
      /\ Call(w, CanSettle(Turn(w), w), r, AckPath(w, work[w].turn, r.proj, FALSE))
      /\ UNCHANGED <<marked, arrivals, history>>

-----------------------------------------------------------------------------
(* ackDurableTurn, by jobs and by the recovery scan. *)

\* Mutant: unsaved effects are taken for none.
Confirmed_Always(w) == TRUE

\* Without saved effects nobody knows what the tools did.
Confirmed(w) == work[w].copy # "none"

RepairEffects(w) ==
  /\ work[w].pc = "repair"
  /\ IF work[w].copy = "pending"
     THEN /\ Call(w, CanProject(Turn(w), w), Projected(Turn(w)), At(w, "remove"))
          /\ repaired' = repaired \cup {work[w].turn}
     ELSE /\ Call(w, Confirmed(w), Turn(w), At(w, "remove"))
          /\ UNCHANGED repaired
  /\ UNCHANGED <<marked, arrivals, gens, sends, noticed>>

\* Mutant: the whole snapshot of the job is taken off the list.
Answered_Batch(w) == Turn(w).inputs \cup work[w].batch

\* Only the turn's own messages leave the list.
Answered(w) == Turn(w).inputs

RemovePending(w) ==
  /\ work[w].pc = "remove"
  /\ \/ /\ pending' = pending \ Answered(w)
        /\ Goto(w, "mark") /\ UNCHANGED <<lock, faults>>
     \/ Fault /\ OnError(w)
  /\ UNCHANGED <<marked, arrivals, turns, history>>

MarkProcessed(w) ==
  /\ work[w].pc = "mark"
  /\ \/ /\ marked' = marked \cup Turn(w).inputs
        /\ Stays(w, "ack") /\ UNCHANGED faults
     \/ Fault /\ OnError(w) /\ UNCHANGED marked
  /\ UNCHANGED <<arrivals, turns, history>>

Ack(w) ==
  /\ work[w].pc = "ack"
  /\ \/ /\ CanAck(Turn(w)) /\ Store(w, Acked(Turn(w)))
        /\ IF w \in Recoverers THEN Stays(w, "defer") ELSE Done(w)
        /\ UNCHANGED faults
     \/ ~CanAck(Turn(w)) /\ OnError(w) /\ UNCHANGED <<turns, faults>>
     \/ /\ Fault /\ OnError(w)
        /\ UNCHANGED turns \/ (CanAck(Turn(w)) /\ Store(w, Acked(Turn(w))))
  /\ UNCHANGED <<marked, arrivals, history>>

-----------------------------------------------------------------------------
(* ReplyRecoveryService. *)

\* The scan reads due turns; each is handled later, as it was read.
Scan(v) ==
  /\ work[v].pc = "idle"
  /\ \E i \in DOMAIN turns :
       /\ turns[i].due /\ turns[i].status # "acked"
       /\ work' = [work EXCEPT ![v] = [Idle EXCEPT !.pc = "lease", !.turn = i,
                                                   !.copy = turns[i].proj]]
  /\ UNCHANGED <<inbox, turns, lock, history, faults>>

Lease(v) ==
  /\ work[v].pc = "lease"
  /\ \/ lock = None /\ lock' = v /\ Goto(v, "resume")
     \/ lock # None /\ work' = [work EXCEPT ![v] = Idle] /\ UNCHANGED lock
  /\ UNCHANGED <<inbox, turns, history, faults>>

\* A turn read without saved effects is only reported.
Resume(v) ==
  LET r == Interrupted(Turn(v))
  IN  /\ work[v].pc = "resume"
      /\ \/ /\ work[v].copy = "none"
            /\ noticed' = noticed \cup {work[v].turn}
            /\ Stays(v, "defer") /\ UNCHANGED <<turns, faults>>
         \/ /\ work[v].copy # "none"
            /\ Call(v, CanInterrupt(Turn(v)), r, AckPath(v, work[v].turn, r.proj, TRUE))
            /\ noticed' = IF work'[v].pc = "repair" /\ r.outcome = "interrupted"
                          THEN noticed \cup {work[v].turn} ELSE noticed
      /\ UNCHANGED <<marked, arrivals, gens, sends, repaired>>

\* The turn is looked at again later, if the scan still holds the lock.
Defer(v) ==
  /\ work[v].pc = "defer"
  /\ \/ lock = v /\ Store(v, Deferred(Turn(v)))
     \/ lock # v /\ UNCHANGED turns
  /\ Done(v)
  /\ UNCHANGED <<marked, arrivals, history, faults>>

\* assertOwned fails before the next call of the scan.
LeaseLost(v) ==
  /\ v \in Recoverers /\ work[v].pc \in {"resume", "repair", "remove", "mark", "ack"} /\ lock # v
  /\ Stays(v, "defer")
  /\ UNCHANGED <<marked, arrivals, turns, history, faults>>

-----------------------------------------------------------------------------
(* Clocks and crashes. *)

Lapse(i) ==
  /\ i \in DOMAIN turns /\ Unfinished(turns[i]) /\ turns[i].live
  /\ turns' = [turns EXCEPT ![i].live = FALSE]
  /\ UNCHANGED <<inbox, lock, work, history, faults>>

FallsDue(i) ==
  /\ i \in DOMAIN turns /\ turns[i].status # "acked" /\ ~turns[i].due
  /\ Unfinished(turns[i]) => ~turns[i].live
  /\ turns' = [turns EXCEPT ![i].due = TRUE]
  /\ UNCHANGED <<inbox, lock, work, history, faults>>

\* The lock of a holder that is gone expires; that of a living one only if its renewals fail.
LockExpires ==
  /\ lock # None
  /\ IF work[lock].pc \in {"idle", "lease"} THEN UNCHANGED faults ELSE Fault
  /\ lock' = None
  /\ UNCHANGED <<inbox, turns, work, history>>

Crash(w) ==
  /\ work[w].pc # "idle"
  /\ Fault
  /\ work' = [work EXCEPT ![w] = Idle]
  /\ UNCHANGED <<inbox, turns, lock, history>>

-----------------------------------------------------------------------------

Respond(w) ==
  \/ Open(w) \/ Generate(w) \/ SaveEffects(w) \/ StartDelivery(w) \/ CheckDelivery(w)
  \/ SendSegment(w) \/ FinishOrdinary(w) \/ CompleteProjection(w) \/ GiveUp(w) \/ Close(w)

Acknowledge(w) == RepairEffects(w) \/ RepairFails(w) \/ RemovePending(w) \/ MarkProcessed(w) \/ Ack(w)

Recover(v) == Scan(v) \/ Lease(v) \/ Resume(v) \/ Defer(v) \/ LeaseLost(v) \/ Acknowledge(v)

Next ==
  \/ \E m \in Messages : Arrive(m) \/ MarkExpires(m) \/ \E w \in Workers : ArriveDirect(w, m)
  \/ \E w \in Workers : StartJob(w) \/ Respond(w) \/ Acknowledge(w)
  \/ \E v \in Recoverers : Recover(v)
  \/ \E i \in DOMAIN turns : Lapse(i) \/ FallsDue(i)
  \/ PendingExpires \/ LockExpires
  \/ \E w \in Actors : Crash(w)

Spec == Init /\ [][Next]_vars

-----------------------------------------------------------------------------
(* Safety. *)

\* A message belongs to one turn for ever, and a chat has one turn that is not acknowledged
\* (the primary key of agent_reply_inputs and the conflict checks of open), whoever opens it
\* for whatever batch.
OneTurnAtATime ==
  \A i, j \in DOMAIN turns : i # j =>
    /\ turns[i].inputs \cap turns[j].inputs = {}
    /\ turns[i].status = "acked" \/ turns[j].status = "acked"

\* The model and its tools run at most once for a message, through redelivered callbacks,
\* retried jobs and recovery ("never regenerate or resume its text").
GeneratedOnce == \A m \in Messages : gens[m] <= 1

\* A turn is acknowledged only after its saved business effects were handled ("business
\* effects unconfirmed" keeps its input).
EffectsBeforeAck == \A i \in DOMAIN turns : turns[i].status = "acked" => i \in repaired

\* A result other than unknown and interrupted counts exactly the segments that were accepted
\* (biz/reply-execution/README.md:13: delivery_result tells complete, incomplete, unknown and
\* skipped apart, and what has no reliable count must not be forged as zero sends).
HonestResult ==
  \A i \in DOMAIN turns :
    turns[i].outcome \in {"complete", "incomplete", "skipped"} => turns[i].accepted = sends[i]

\* Nobody closes a turn whose worker is still within its time: while generation_until is
\* ahead, the turn of a worker that generates or delivers stays open.
LiveNotPreempted ==
  \A w \in Workers :
    work[w].pc \in {"generate", "save", "resave", "start", "check", "wire"} /\ Turn(w).live =>
      Unfinished(Turn(w))

\* Once a result is stored it stays, whatever late workers and recovery report.
ResultFrozen ==
  [][\A i \in DOMAIN turns : turns[i].outcome # "none" =>
       turns'[i].outcome = turns[i].outcome /\ turns'[i].accepted = turns[i].accepted]_vars

\* A message leaves the pending list only with the closed turn it belongs to, its effects
\* repaired ("a partial ack never consumes new input"), or when the list expires.
NothingSwallowed ==
  [][PendingExpires \/
     \A m \in pending \ pending' :
       \E i \in DOMAIN turns :
         m \in turns[i].inputs /\ ~Unfinished(turns[i]) /\ turns[i].proj = "complete"]_vars

-----------------------------------------------------------------------------
(* Refinement: the chat's messages and turns implement ReplyOutcome. *)

Owner(m) == {i \in DOMAIN turns : m \in turns[i].inputs}

Phase(m) ==
  IF Owner(m) = {} THEN "waiting"
  ELSE IF \A i \in Owner(m) : turns[i].status = "acked" THEN "closed" ELSE "owned"

Outcome == INSTANCE ReplyOutcome WITH
             phase <- [m \in Messages |-> Phase(m)],
             runs <- gens,
             handled <- [m \in Messages |-> \E i \in Owner(m) : i \in repaired]

\* Jobs, redeliveries, recovery and crashes give each message the one-pass outcome of
\* ReplyOutcome.
ImplementsOutcome == Outcome!Spec

-----------------------------------------------------------------------------
(* What the sources say and the code does not do. *)

\* reply-workflow.service.ts:169 "Retain the exact new message for retry instead of silently
\* dropping it while an earlier turn is unresolved": a message that arrived is in the pending
\* list, with the job that answers it, or in a turn.
NoInputDropped ==
  \A m \in Messages : arrivals[m] > 0 =>
    \/ m \in pending
    \/ \E w \in Workers : m \in work[w].batch
    \/ \E i \in DOMAIN turns : m \in turns[i].inputs

-----------------------------------------------------------------------------
(***************************************************************************)
(* Liveness.  Jobs run to their end or fail (every call has a timeout),    *)
(* the scan runs every minute, and time passes: generation rights, locks   *)
(* of gone holders and the pending list expire.                            *)
(***************************************************************************)
Fairness ==
  /\ \A w \in Workers : WF_vars(Respond(w) \/ Acknowledge(w))
  /\ \A v \in Recoverers : WF_vars(Recover(v))
  /\ \A i \in 1..Cardinality(Messages) : WF_vars(Lapse(i)) /\ WF_vars(FallsDue(i))
  /\ WF_vars(LockExpires)
  /\ SF_vars(PendingExpires)

FairSpec == Spec /\ Fairness

\* No turn is forgotten: an opened turn is acknowledged or reported for manual review.
TurnResolved ==
  \A i \in 1..Cardinality(Messages) :
    i \in DOMAIN turns ~> (i \in noticed \/ (i \in DOMAIN turns /\ turns[i].status = "acked"))
=============================================================================
