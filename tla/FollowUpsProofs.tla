--------------------------- MODULE FollowUpsProofs ---------------------------
(***************************************************************************)
(* Proofs about FollowUps for any turns, hours, runners and bounds; the    *)
(* last part puts the three components of MCBackground side by side.       *)
(***************************************************************************)
EXTENDS MCBackground, WorkerSlotsProofs, BookingSyncProofs

Fields == {"pc", "task", "add", "since"}

\* The runners that hold the slot of their key and may yet send.
Holds(r) == actor[r].pc \in {"compose", "deliver"}

LedgerTypes ==
  /\ touch \in [Touches -> {"free", "reserved", "attempted", "sent", "failed", "unknown"}]
  /\ reached \in [Touches -> Nat]
  /\ DOMAIN actor = Actors /\ \A a \in Actors : DOMAIN actor[a] = Fields

\* A free slot has sent nothing, nor has a slot whose runner may yet send, and there is only
\* one such runner.
SlotsOwned ==
  /\ \A j \in Touches : touch[j] = "free" => reached[j] = 0
  /\ \A r \in Runners : Holds(r) /\ actor[r].task \in Touches =>
       touch[actor[r].task] # "free" /\ reached[actor[r].task] = 0
  /\ \A r, s \in Runners : Holds(r) /\ Holds(s) /\ r # s /\ actor[r].task \in Touches =>
       actor[r].task # actor[s].task

TouchInv == LedgerTypes /\ SlotsOwned /\ TouchOnce

LEMMA RunnersAct == Runners \subseteq Actors /\ Commander \in Actors /\ Commander \notin Runners
  BY FollowAssumption DEF FollowAssumption, Actors

LEMMA RestingShape == DOMAIN Resting = Fields /\ Resting.pc = "rest"
  BY DEF Resting, Fields

LEMMA TouchInit == FollowInit => TouchInv
<1> SUFFICES ASSUME FollowInit PROVE TouchInv
  OBVIOUS
<1>1. DOMAIN actor = Actors /\ \A a \in Actors : actor[a] = Resting
  BY DEF FollowInit
<1>2. (\A j \in Touches : touch[j] = "free" /\ reached[j] = 0) /\ touch = [j \in Touches |-> "free"]
      /\ reached = [j \in Touches |-> 0]
  BY DEF FollowInit
<1> QED BY <1>1, <1>2, RestingShape, RunnersAct DEF TouchInv, LedgerTypes, SlotsOwned, TouchOnce, Holds

-----------------------------------------------------------------------------
(* How calls move on. *)

LEMMA ActorChanged ==
  ASSUME TouchInv, NEW a \in Actors, NEW v, DOMAIN v = Fields, actor' = [actor EXCEPT ![a] = v]
  PROVE  /\ DOMAIN actor' = Actors /\ actor'[a] = v /\ \A b \in Actors : DOMAIN actor'[b] = Fields
         /\ \A r \in Actors : r # a => actor'[r] = actor[r]
  BY DEF TouchInv, LedgerTypes

LEMMA Rested ==
  ASSUME TouchInv, NEW a \in Actors, Rest(a)
  PROVE  /\ DOMAIN actor' = Actors /\ actor'[a] = Resting /\ \A b \in Actors : DOMAIN actor'[b] = Fields
         /\ \A r \in Actors : r # a => actor'[r] = actor[r]
  BY RestingShape, ActorChanged DEF Rest

LEMMA Gone ==
  ASSUME TouchInv, NEW a \in Actors, NEW p, Goes(a, p)
  PROVE  /\ DOMAIN actor' = Actors /\ actor'[a].pc = p /\ actor'[a].task = actor[a].task
         /\ \A b \in Actors : DOMAIN actor'[b] = Fields
         /\ \A r \in Actors : r # a => actor'[r] = actor[r]
<1> DEFINE v == [actor[a] EXCEPT !.pc = p]
<1>1. DOMAIN actor[a] = Fields
  BY DEF TouchInv, LedgerTypes
<1>2. DOMAIN v = Fields /\ v.pc = p /\ v.task = actor[a].task /\ actor' = [actor EXCEPT ![a] = v]
  BY <1>1 DEF Goes, Fields
<1> HIDE DEF v
<1> QED BY <1>2, ActorChanged

LEMMA FinishRests == ASSUME NEW a, Finish(a) PROVE Rest(a)
  BY DEF Finish

LEMMA FailRests == ASSUME NEW a, NEW odd, Fail(a, odd) PROVE Rest(a)
  BY DEF Fail

\* A step that leaves the ledger alone and lets nobody begin to hold a slot.
LEMMA TouchAside ==
  ASSUME TouchInv, UNCHANGED <<touch, reached>>, DOMAIN actor' = Actors,
         \A a \in Actors : DOMAIN actor'[a] = Fields,
         \A a \in Actors : actor'[a].pc \notin {"compose", "deliver"} \/ actor'[a] = actor[a]
  PROVE  TouchInv'
<1>1. \A r \in Runners : Holds(r)' => Holds(r) /\ actor'[r] = actor[r]
  BY RunnersAct DEF Holds
<1>2. LedgerTypes' /\ TouchOnce'
  BY DEF TouchInv, LedgerTypes, TouchOnce
<1>3. SlotsOwned'
  BY <1>1 DEF TouchInv, SlotsOwned
<1> QED BY <1>2, <1>3 DEF TouchInv

\* An actor, the commander too, that rests and has not touched the ledger.
LEMMA RestsAside == ASSUME TouchInv, NEW a \in Actors, Rest(a), UNCHANGED <<touch, reached>> PROVE TouchInv'
  BY Rested, RestingShape, TouchAside

LEMMA GoesAside ==
  ASSUME TouchInv, NEW a \in Actors, NEW p, Goes(a, p), p \notin {"compose", "deliver"}, UNCHANGED <<touch, reached>>
  PROVE  TouchInv'
  BY Gone, TouchAside

\* A runner leaves its key with a mark, and its message may have reached the candidate if it held
\* the slot.
LEMMA TouchLeft ==
  ASSUME TouchInv, NEW r \in Runners, NEW s \in {"reserved", "attempted", "sent", "failed", "unknown"},
         touch' = touch \/ Mark(r, s), reached' = reached \/ (Holds(r) /\ Reach(r) /\ Mark(r, s)),
         DOMAIN actor' = Actors, \A a \in Actors : DOMAIN actor'[a] = Fields,
         \A a \in Actors : a # r => actor'[a] = actor[a],
         actor'[r].pc \notin {"compose", "deliver"}
  PROVE  TouchInv'
<1> DEFINE j == actor[r].task
<1>1. \A i \in Touches : /\ touch'[i] = touch[i] \/ touch'[i] = s
                         /\ reached'[i] \in Nat
                         /\ reached'[i] = reached[i] \/ (i = j /\ Holds(r) /\ reached'[i] = reached[i] + 1 /\ touch'[i] = s)
  BY DEF Mark, Reach, TouchInv, LedgerTypes
<1>2. LedgerTypes'
  BY DEF Mark, Reach, TouchInv, LedgerTypes
<1>3. \A q \in Runners : Holds(q)' => q # r /\ Holds(q) /\ actor'[q] = actor[q]
  BY RunnersAct DEF Holds
<1>4. Holds(r) /\ j \in Touches => reached[j] = 0 /\ \A q \in Runners : Holds(q) /\ q # r => actor[q].task # j
  BY DEF TouchInv, SlotsOwned
<1>5. TouchOnce'
  BY <1>1, <1>4 DEF TouchInv, TouchOnce
<1> HIDE DEF j
<1>6. \A i \in Touches : touch'[i] = "free" => reached'[i] = 0
  BY <1>1 DEF TouchInv, SlotsOwned
<1>7. \A q \in Runners : Holds(q)' /\ actor'[q].task \in Touches =>
        touch'[actor'[q].task] # "free" /\ reached'[actor'[q].task] = 0
  BY <1>1, <1>3, <1>4 DEF TouchInv, SlotsOwned
<1>8. SlotsOwned'
  BY <1>3, <1>6, <1>7 DEF TouchInv, SlotsOwned
<1> QED BY <1>2, <1>5, <1>8 DEF TouchInv

-----------------------------------------------------------------------------
(* The steps. *)

LEMMA TouchLook == ASSUME TouchInv, NEW a \in Actors, Look(a) PROVE TouchInv'
<1>1. UNCHANGED <<touch, reached>> /\ (Finish(a) \/ Goes(a, "add"))
  BY DEF Look, ledger
<1> QED BY <1>1, FinishRests, RestsAside, GoesAside

LEMMA TouchAdd == ASSUME TouchInv, NEW a \in Actors, Add(a) PROVE TouchInv'
<1>1. UNCHANGED <<touch, reached>> /\ (Rest(a) \/ Fail(a, {}) \/ Finish(a))
  BY DEF Add, ledger
<1> QED BY <1>1, FinishRests, FailRests, RestsAside

LEMMA TouchRunCommand == ASSUME TouchInv, RunCommand PROVE TouchInv'
<1> DEFINE v == [Resting EXCEPT !.pc = "look", !.add = Head(commands)]
<1>1. UNCHANGED <<touch, reached>>
      /\ (actor' = [actor EXCEPT ![Commander] = v] \/ UNCHANGED actor \/ Fail(Commander, {}))
  BY DEF RunCommand, ledger
<1>2. DOMAIN v = Fields /\ v.pc = "look"
  BY RestingShape DEF Resting, Fields
<1> HIDE DEF v
<1>3. CASE actor' = [actor EXCEPT ![Commander] = v]
  BY <1>1, <1>2, <1>3, ActorChanged, RunnersAct, TouchAside
<1>4. CASE UNCHANGED actor
  BY <1>1, <1>4, TouchAside DEF TouchInv, LedgerTypes
<1>5. CASE Fail(Commander, {})
  BY <1>1, <1>5, FailRests, RestsAside, RunnersAct
<1> QED BY <1>1, <1>3, <1>4, <1>5

LEMMA TouchFireTask == ASSUME TouchInv, NEW r \in Runners, NEW j \in Tasks, FireTask(r, j) PROVE TouchInv'
<1> DEFINE v == IF j = Onboard /\ receipt # 0
                THEN [Resting EXCEPT !.pc = "recount", !.task = j, !.since = receipt]
                ELSE [Resting EXCEPT !.pc = "judge", !.task = j, !.since = turn]
<1>1. UNCHANGED <<touch, reached>> /\ (UNCHANGED actor \/ actor' = [actor EXCEPT ![r] = v])
  BY DEF FireTask, ledger
<1>2. DOMAIN v = Fields /\ v.pc \in {"judge", "recount"}
  BY DEF Resting, Fields
<1> HIDE DEF v
<1>3. CASE UNCHANGED actor
  BY <1>1, <1>3, TouchAside DEF TouchInv, LedgerTypes
<1>4. CASE actor' = [actor EXCEPT ![r] = v]
  BY <1>1, <1>2, <1>4, ActorChanged, RunnersAct, TouchAside
<1> QED BY <1>1, <1>3, <1>4

LEMMA TouchJudge == ASSUME TouchInv, NEW r \in Runners, Judge(r) PROVE TouchInv'
<1> DEFINE v == [actor[r] EXCEPT !.pc = "look", !.add = Remind(interview.at)]
<1>1. /\ UNCHANGED <<touch, reached>>
      /\ Finish(r) \/ Goes(r, "reserve") \/ Fail(r, {}) \/ Schedules(r, Remind(interview.at))
  BY DEF Judge, Gate, ledger
<1>2. CASE Schedules(r, Remind(interview.at))
  <2>1. DOMAIN actor[r] = Fields
    BY RunnersAct DEF TouchInv, LedgerTypes
  <2>2. DOMAIN v = Fields /\ v.pc = "look" /\ actor' = [actor EXCEPT ![r] = v]
    BY <1>2, <2>1 DEF Schedules, Fields
  <2> HIDE DEF v
  <2> QED BY <1>1, <2>2, ActorChanged, RunnersAct, TouchAside
<1> QED BY <1>1, <1>2, FinishRests, FailRests, RestsAside, GoesAside, RunnersAct

LEMMA TouchReserve == ASSUME TouchInv, NEW r \in Runners, Reserve(r) PROVE TouchInv'
<1> DEFINE j == actor[r].task
<1>1. r \in Actors /\ UNCHANGED reached
  BY RunnersAct DEF Reserve
<1>2. CASE touch[j] = "free" /\ Mark(r, "reserved") /\ Goes(r, "compose")
  <2>1. /\ DOMAIN actor' = Actors /\ actor'[r].task = j /\ \A a \in Actors : DOMAIN actor'[a] = Fields
        /\ \A q \in Actors : q # r => actor'[q] = actor[q]
    BY <1>1, <1>2, Gone
  <2>2. touch' = [touch EXCEPT ![j] = "reserved"]
    BY <1>2 DEF Mark
  <2>3. LedgerTypes' /\ TouchOnce'
    BY <1>1, <2>1, <2>2 DEF TouchInv, LedgerTypes, TouchOnce
  <2>4. \A q \in Runners : q # r => actor'[q] = actor[q] /\ (Holds(q)' <=> Holds(q))
    BY <2>1, RunnersAct DEF Holds
  <2>5. \A i \in Touches : touch'[i] = IF i = j THEN "reserved" ELSE touch[i]
    BY <2>2 DEF TouchInv, LedgerTypes
  <2>6. \A q \in Runners : Holds(q) /\ actor[q].task \in Touches => actor[q].task # j
    BY <1>2 DEF TouchInv, SlotsOwned
  <2>7. j \in Touches => reached[j] = 0
    BY <1>2 DEF TouchInv, SlotsOwned
  <2> HIDE DEF j
  <2>8. \A q \in Runners : Holds(q)' /\ actor'[q].task \in Touches =>
          touch'[actor'[q].task] # "free" /\ reached'[actor'[q].task] = 0
    BY <1>1, <2>1, <2>4, <2>5, <2>7 DEF TouchInv, SlotsOwned
  <2>9. \A q, s \in Runners : Holds(q)' /\ Holds(s)' /\ q # s /\ actor'[q].task \in Touches =>
          actor'[q].task # actor'[s].task
    BY <2>1, <2>4, <2>6 DEF TouchInv, SlotsOwned
  <2>10. SlotsOwned'
    BY <1>1, <2>5, <2>8, <2>9 DEF TouchInv, SlotsOwned
  <2> QED BY <2>3, <2>10 DEF TouchInv
<1>3. CASE Finish(r) /\ UNCHANGED touch
  BY <1>1, <1>3, FinishRests, RestsAside
<1>4. CASE Fail(r, {}) /\ (UNCHANGED touch \/ Mark(r, "reserved"))
  BY <1>1, <1>4, FailRests, Rested, RestingShape, TouchLeft
<1> QED BY <1>2, <1>3, <1>4 DEF Reserve, Reservable

LEMMA TouchCompose == ASSUME TouchInv, NEW r \in Runners, Compose(r) PROVE TouchInv'
<1>1. r \in Actors /\ UNCHANGED reached /\ actor[r].pc = "compose"
  BY RunnersAct DEF Compose
<1>2. CASE Goes(r, "deliver") /\ UNCHANGED touch
  <2>1. /\ DOMAIN actor' = Actors /\ actor'[r].task = actor[r].task /\ \A a \in Actors : DOMAIN actor'[a] = Fields
        /\ \A q \in Actors : q # r => actor'[q] = actor[q]
    BY <1>1, <1>2, Gone
  <2>2. \A q \in Runners : (Holds(q)' => Holds(q)) /\ actor'[q].task = actor[q].task
    BY <1>1, <2>1, RunnersAct DEF Holds
  <2>3. LedgerTypes' /\ TouchOnce'
    BY <1>1, <1>2, <2>1 DEF TouchInv, LedgerTypes, TouchOnce
  <2>4. SlotsOwned'
    BY <1>1, <1>2, <2>2 DEF TouchInv, SlotsOwned
  <2> QED BY <2>3, <2>4 DEF TouchInv
<1>3. CASE Mark(r, "failed") /\ Finish(r)
  BY <1>1, <1>3, FinishRests, Rested, RestingShape, TouchLeft
<1>4. CASE Fail(r, {}) /\ UNCHANGED touch
  BY <1>1, <1>4, FailRests, RestsAside
<1> QED BY <1>2, <1>3, <1>4 DEF Compose

LEMMA TouchDeliver == ASSUME TouchInv, NEW r \in Runners, Deliver(r) PROVE TouchInv'
<1> DEFINE v == IF actor[r].task = Onboard THEN [actor[r] EXCEPT !.pc = "receipt", !.since = turn]
                ELSE [actor[r] EXCEPT !.pc = "count"]
<1>1. r \in Actors /\ Holds(r)
  BY RunnersAct DEF Deliver, Holds
<1>2. CASE Mark(r, "attempted") /\ Reach(r) /\ actor' = [actor EXCEPT ![r] = v]
  <2>1. DOMAIN actor[r] = Fields
    BY <1>1 DEF TouchInv, LedgerTypes
  <2>2. DOMAIN v = Fields /\ v.pc \in {"receipt", "count"}
    BY <2>1 DEF Fields
  <2> HIDE DEF v
  <2> QED BY <1>1, <1>2, <2>2, ActorChanged, TouchLeft
<1>3. CASE Mark(r, "failed") /\ Finish(r) /\ UNCHANGED reached
  BY <1>1, <1>3, FinishRests, Rested, RestingShape, TouchLeft
<1>4. CASE Mark(r, "unknown") /\ Fail(r, {"uncounted"}) /\ (Reach(r) \/ UNCHANGED reached)
  BY <1>1, <1>4, FailRests, Rested, RestingShape, TouchLeft
<1> QED BY <1>2, <1>3, <1>4 DEF Deliver

LEMMA TouchSaveReceipt == ASSUME TouchInv, NEW r \in Runners, SaveReceipt(r) PROVE TouchInv'
<1>1. r \in Actors /\ UNCHANGED reached
  BY RunnersAct DEF SaveReceipt
<1>2. CASE Goes(r, "count") /\ UNCHANGED touch
  BY <1>1, <1>2, GoesAside
<1>3. CASE Mark(r, "unknown") /\ Fail(r, {"uncounted"})
  BY <1>1, <1>3, FailRests, Rested, RestingShape, TouchLeft
<1> QED BY <1>2, <1>3 DEF SaveReceipt

LEMMA TouchMarkSent == ASSUME TouchInv, NEW r \in Runners, MarkSent(r) PROVE TouchInv'
<1>1. r \in Actors /\ UNCHANGED reached
  BY RunnersAct DEF MarkSent
<1>2. CASE Mark(r, "sent") /\ (Goes(r, "check") \/ Finish(r))
  BY <1>1, <1>2, FinishRests, Rested, RestingShape, Gone, TouchLeft
<1>3. CASE Fail(r, {"uncounted"}) /\ (Mark(r, "unknown") \/ Mark(r, "sent") \/ UNCHANGED touch)
  BY <1>1, <1>3, FailRests, Rested, RestingShape, TouchLeft
<1> QED BY <1>2, <1>3 DEF MarkSent

LEMMA TouchCheck == ASSUME TouchInv, NEW r \in Runners, ScheduleOnboardingCheck(r) PROVE TouchInv'
<1>1. UNCHANGED <<touch, reached>> /\ (Rest(r) \/ Finish(r) \/ Fail(r, {}))
  BY DEF ScheduleOnboardingCheck, ledger
<1> QED BY <1>1, FinishRests, FailRests, RestsAside, RunnersAct

LEMMA TouchProcessDies == ASSUME TouchInv, ProcessDies PROVE TouchInv'
<1>1. UNCHANGED <<touch, reached>> /\ actor' = [a \in Actors |-> Resting]
  BY DEF ProcessDies, ledger
<1> QED BY <1>1, RestingShape, TouchAside

LEMMA TouchWorld ==
  ASSUME TouchInv, UNCHANGED <<touch, reached, actor>>
  PROVE  TouchInv'
  BY TouchAside DEF TouchInv, LedgerTypes

LEMMA TouchStep == TouchInv /\ [FollowNext]_followVars => TouchInv'
<1> SUFFICES ASSUME TouchInv, [FollowNext]_followVars PROVE TouchInv'
  OBVIOUS
<1>1. CASE \/ \E k \in Turns : Talk(k) \/ CancelOrder(k) \/ \E v \in Hours : BookOrMove(k, v)
           \/ \E v \in Hours : ChangedOutside("active", v) \/ ChangedOutside("ended", v)
           \/ HourPasses \/ CooldownEnds \/ Sweep \/ UNCHANGED followVars
  BY <1>1, TouchWorld DEF Talk, CancelOrder, BookOrMove, NextTurn, ChangedOutside, HourPasses,
       CooldownEnds, Sweep, followVars, ledger, past
<1>2. CASE RunCommand \/ ProcessDies \/ \E a \in Actors : Look(a) \/ Add(a)
  BY <1>2, TouchRunCommand, TouchProcessDies, TouchLook, TouchAdd
<1>3. CASE \E r \in Runners : \/ \E j \in Tasks : FireTask(r, j)
                              \/ Judge(r) \/ Reserve(r) \/ Compose(r) \/ Deliver(r)
                              \/ SaveReceipt(r) \/ MarkSent(r) \/ ScheduleOnboardingCheck(r)
  BY <1>3, TouchFireTask, TouchJudge, TouchReserve, TouchCompose, TouchDeliver, TouchSaveReceipt,
     TouchMarkSent, TouchCheck
<1> QED BY <1>1, <1>2, <1>3 DEF FollowNext

\* TouchOnce for any turns, hours, runners and bounds: reengagement's touch ledger sends every key
\* at most once, however its jobs are retried, redelivered, scheduled anew or run side by side.
THEOREM TouchOnceHolds == FollowSpec => []TouchOnce
<1>1. TouchInv => TouchOnce
  BY DEF TouchInv
<1> QED BY <1>1, TouchInit, TouchStep, PTL DEF FollowSpec

-----------------------------------------------------------------------------
(* A job is with one runner, and what the limit counts. *)

TaskFields == {"st", "tries", "stalls"}
Busy(r) == actor[r].pc # "rest"
States == {"none", "waiting", "active", "kept"}
TaskTypes ==
  DOMAIN task = Tasks /\ \A j \in Tasks : DOMAIN task[j] = TaskFields /\ task[j].st \in States

Alone ==
  /\ \A r \in Runners : Busy(r) => actor[r].task \in Tasks /\ task[actor[r].task].st = "active"
  /\ \A r, s \in Runners : r # s /\ Busy(r) /\ Busy(s) => actor[r].task # actor[s].task

\* What the entry v of a runner says of its job; rec is the receipt, mark the onboarding slot.
Spot(v, rec, mark) ==
  /\ v.pc \in {"receipt", "recount", "check"} => v.task = Onboard
  /\ v.pc \in {"look", "add"} => v.task # Onboard
  /\ v.pc \in {"judge", "reserve", "compose", "deliver", "receipt"} /\ v.task = Onboard => rec = 0
  /\ v.pc = "recount" => rec # 0
  /\ v.pc = "check" => mark = "sent"

Spots == \A r \in Runners : Spot(actor[r], receipt, touch[Onboard])
JobsInv == TaskTypes /\ Alone /\ Spots /\ AcceptedRecorded

\* What AcceptedRecorded says of an onboarding job that has ended.
WellEnded ==
  receipt # 0 /\ oddities \cap {"exhausted", "halted"} = {} =>
    touch[Onboard] = "sent" /\ (task[CheckUp].st # "none" \/ "unchecked" \in oddities)

Known == "uncounted" \notin oddities

\* The runners that have passed the gates and not counted yet, and their keys.
Gated(r) == actor[r].pc \in {"reserve", "compose", "deliver", "receipt", "count"}
Gating == {r \in Runners : Gated(r)}
Hands == {actor[r].task : r \in Gating}

\* What is counted or may still come to be is within the limit, or beyond it by the runners that
\* passed the gates beside another; what reached the candidate is counted or about to be.
Room == MaxTouches + (IF "overlap" \in oddities THEN Cardinality(Runners) - 1 ELSE 0)
Tally ==
  /\ Cardinality(counted \cup Hands) <= Room
  /\ \A j \in Touches : reached[j] > 0 =>
       j \in counted \/ \E r \in Runners : actor[r].pc \in {"receipt", "count"} /\ actor[r].task = j
  /\ receipt # 0 => Onboard \in counted \/ \E r \in Runners : actor[r].pc = "count" /\ actor[r].task = Onboard

CountInv == IsFiniteSet(counted) /\ (Known => Tally)

LEMMA TasksHere == Onboard \in Touches /\ Onboard \in Tasks /\ CheckUp \in Tasks /\ Onboard # CheckUp
  BY DEF Touches, Tasks, Onboard, CheckUp

LEMMA WaitingShape == DOMAIN Waiting = TaskFields /\ Waiting.st = "waiting" /\ DOMAIN Absent = TaskFields /\ Absent.st = "none"
                      /\ {"none", "waiting", "active", "kept"} \subseteq States
  BY DEF Waiting, Absent, TaskFields, States

\* Jobs that are run or have ended stay so, those in S apart, and the check stays scheduled.
TasksKept(S) ==
  /\ DOMAIN task' = Tasks /\ \A i \in Tasks : DOMAIN task'[i] = TaskFields /\ task'[i].st \in States
  /\ \A i \in Tasks \ S : /\ task[i].st = "active" => task'[i].st = "active"
                          /\ task'[i].st = "kept" => task[i].st = "kept"
  /\ task[CheckUp].st # "none" => task'[CheckUp].st # "none"

OddKept == \A o \in {"overlap", "uncounted", "exhausted", "halted", "unchecked"} : o \in oddities => o \in oddities'
Others(r) == (\A s \in Runners \ {r} : actor'[s] = actor[s]) /\ actor'[Commander] = actor[Commander]

\* A step that neither a runner takes nor ends one's call.
LEMMA JobsAside ==
  ASSUME JobsInv, \A r \in Runners : actor'[r] = actor[r], TasksKept({}), UNCHANGED <<receipt, touch>>, OddKept
  PROVE  JobsInv'
<1>1. TaskTypes'
  BY DEF TasksKept, TaskTypes
<1>2. \A r \in Runners : Busy(r)' => Busy(r)
  BY DEF Busy
<1>3. Alone'
  BY <1>2 DEF JobsInv, Alone, TasksKept
<1>4. Spots'
  BY DEF JobsInv, Spots
<1>5. AcceptedRecorded'
  BY TasksHere DEF JobsInv, AcceptedRecorded, TasksKept, OddKept
<1> QED BY <1>1, <1>3, <1>4, <1>5 DEF JobsInv

\* Whoever has passed the gates holds one key.
HandsBound ==
  /\ IsFiniteSet(Hands) /\ Cardinality(Hands) \in Nat /\ Cardinality(Hands) <= Cardinality(Runners)
  /\ Cardinality(Runners) \in Nat /\ Cardinality(Runners) >= 1 /\ MaxTouches \in Nat

LEMMA HandsFinite == HandsBound
<1> DEFINE f == [r \in Gating |-> actor[r].task]
<1>1. IsFiniteSet(Runners) /\ Runners # {} /\ MaxTouches \in Nat
  BY FollowAssumption DEF FollowAssumption
<1>2. Cardinality(Runners) \in Nat /\ Cardinality(Runners) # 0
  BY <1>1, FS_CardinalityType, FS_EmptySet
<1>3. Gating \subseteq Runners
  BY DEF Gating
<1>4. IsFiniteSet(Gating) /\ Cardinality(Gating) <= Cardinality(Runners) /\ Cardinality(Gating) \in Nat
  BY <1>1, <1>3, FS_Subset, FS_CardinalityType
<1>5. f \in Surjection(Gating, Hands)
  BY DEF Surjection, Hands
<1>6. IsFiniteSet(Hands) /\ Cardinality(Hands) <= Cardinality(Gating)
  BY <1>4, <1>5, FS_Surjection
<1>7. Cardinality(Hands) \in Nat
  BY <1>6, FS_CardinalityType
<1> QED BY <1>1, <1>2, <1>4, <1>6, <1>7 DEF HandsBound

\* The room does not shrink, and a tally of fewer keys is still within it.
LEMMA RoomKept ==
  ASSUME CountInv, Tally, OddKept, counted' \cup Hands' \subseteq counted \cup Hands
  PROVE  Cardinality(counted' \cup Hands') <= Room' /\ IsFiniteSet(counted')
<1> DEFINE all == counted \cup Hands
           left == counted' \cup Hands'
<1>1. IsFiniteSet(all) /\ Cardinality(all) \in Nat
  BY HandsFinite, FS_Union, FS_CardinalityType DEF CountInv, HandsBound
<1>2. Cardinality(all) <= Room
  BY DEF Tally
<1>3. left \subseteq all /\ counted' \subseteq left
  OBVIOUS
<1> HIDE DEF all, left
<1>4. IsFiniteSet(left) /\ Cardinality(left) <= Cardinality(all) /\ IsFiniteSet(counted')
  BY <1>1, <1>3, FS_Subset
<1>5. Cardinality(left) \in Nat
  BY <1>4, FS_CardinalityType
<1>6. Room <= Room' /\ Room \in Int /\ Room' \in Int
  BY HandsFinite DEF Room, OddKept, HandsBound
<1> QED BY <1>1, <1>2, <1>4, <1>5, <1>6 DEF left

LEMMA CountAside ==
  ASSUME CountInv, \A r \in Runners : actor'[r] = actor[r], UNCHANGED <<receipt, counted, reached>>, OddKept
  PROVE  CountInv'
<1>1. Known' => Known
  BY DEF Known, OddKept
<1>2. Hands' = Hands
  BY DEF Hands, Gating, Gated
<1>3. Tally => Tally'
  BY <1>2, RoomKept DEF Tally
<1> QED BY <1>1, <1>3 DEF CountInv

\* A runner with a job moves on or ends its call.
LEMMA JobsMoved ==
  ASSUME JobsInv, NEW r \in Runners, Busy(r), TasksKept({actor[r].task}), Others(r), OddKept,
         actor'[r].pc = "rest" \/ (actor'[r].task = actor[r].task /\ task'[actor[r].task].st = "active"),
         Spot(actor'[r], receipt', touch'[Onboard]),
         actor[r].task # Onboard => UNCHANGED receipt /\ touch'[Onboard] = touch[Onboard],
         actor[r].task = Onboard /\ task'[Onboard].st = "kept" => WellEnded'
  PROVE  JobsInv'
<1>1. TaskTypes'
  BY DEF TasksKept, TaskTypes
<1>2. \A s \in Runners : s # r /\ Busy(s)' =>
        Busy(s) /\ actor'[s] = actor[s] /\ actor[s].task \in Tasks \ {actor[r].task} /\ task[actor[s].task].st = "active"
  BY DEF Busy, Others, JobsInv, Alone
<1>3. Busy(r)' => actor'[r].task = actor[r].task /\ actor[r].task \in Tasks /\ task'[actor[r].task].st = "active"
  BY DEF Busy, JobsInv, Alone
<1>4. \A s \in Runners : s # r /\ Busy(s)' => task'[actor[s].task].st = "active"
  BY <1>2 DEF TasksKept
<1>5. \A s \in Runners : Busy(s)' => actor'[s].task \in Tasks /\ task'[actor'[s].task].st = "active"
  BY <1>2, <1>3, <1>4
<1>6. \A p, q \in Runners : p # q /\ Busy(p)' /\ Busy(q)' => actor'[p].task # actor'[q].task
  BY <1>2, <1>3 DEF JobsInv, Alone
<1>7. Alone'
  BY <1>5, <1>6 DEF Alone
<1>8. \A s \in Runners : s # r => Spot(actor'[s], receipt', touch'[Onboard])
  <2> SUFFICES ASSUME NEW s \in Runners, s # r PROVE Spot(actor'[s], receipt', touch'[Onboard])
    OBVIOUS
  <2>1. actor'[s] = actor[s] /\ Spot(actor[s], receipt, touch[Onboard])
    BY DEF Others, JobsInv, Spots
  <2>2. CASE actor[r].task # Onboard
    BY <2>1, <2>2
  <2>3. CASE actor[r].task = Onboard
    <3>1. actor[s].pc = "rest" \/ actor[s].task # Onboard
      BY <2>3 DEF JobsInv, Alone, Busy
    <3> QED BY <2>1, <3>1 DEF Spot
  <2> QED BY <2>2, <2>3
<1>9. Spots'
  BY <1>8 DEF Spots
<1>10. AcceptedRecorded'
  <2>1. CASE actor[r].task # Onboard
    BY <2>1, TasksHere DEF JobsInv, AcceptedRecorded, TasksKept, OddKept
  <2>2. CASE actor[r].task = Onboard
    BY <2>2 DEF AcceptedRecorded, WellEnded
  <2> QED BY <2>1, <2>2
<1> QED BY <1>1, <1>7, <1>9, <1>10 DEF JobsInv

-----------------------------------------------------------------------------
(* How a runner ends a call or goes on. *)

LEMMA OwnJob == ASSUME JobsInv, NEW r \in Runners, Busy(r) PROVE actor[r].task \in Tasks /\ task[actor[r].task].st = "active"
  BY DEF JobsInv, Alone

LEMMA RestSpot == \A rec, mark : Spot(Resting, rec, mark)
  BY RestingShape DEF Spot

LEMMA OthersRest ==
  ASSUME LedgerTypes, NEW r \in Runners, Rest(r) PROVE Others(r) /\ actor'[r] = Resting
  BY RunnersAct DEF LedgerTypes, Rest, Others

LEMMA OthersGo ==
  ASSUME LedgerTypes, NEW r \in Runners, NEW p, Goes(r, p)
  PROVE  Others(r) /\ actor'[r].pc = p /\ actor'[r].task = actor[r].task /\ actor'[r].add = actor[r].add
  BY RunnersAct DEF LedgerTypes, Goes, Others, Fields

LEMMA KeptAll == ASSUME JobsInv, UNCHANGED task, NEW S PROVE TasksKept(S)
  BY DEF JobsInv, TaskTypes, TasksKept

LEMMA KeptMore == ASSUME TasksKept({}), NEW S PROVE TasksKept(S)
  BY DEF TasksKept

LEMMA KeptFinish ==
  ASSUME JobsInv, NEW j \in Tasks, task' = [task EXCEPT ![j].st = "kept"] PROVE TasksKept({j})
<1>1. /\ DOMAIN task' = Tasks /\ DOMAIN task'[j] = TaskFields /\ task'[j].st = "kept"
      /\ \A i \in Tasks \ {j} : task'[i] = task[i]
  BY DEF JobsInv, TaskTypes, TaskFields
<1> QED BY WaitingShape, <1>1, TasksHere DEF JobsInv, TaskTypes, TasksKept

LEMMA FinishJobs ==
  ASSUME LedgerTypes, JobsInv, NEW r \in Runners, Busy(r), Finish(r), UNCHANGED receipt, OddKept,
         actor[r].task # Onboard => touch'[Onboard] = touch[Onboard],
         actor[r].task = Onboard => receipt = 0
  PROVE  JobsInv'
<1>1. Rest(r) /\ task' = [task EXCEPT ![actor[r].task].st = "kept"]
  BY RunnersAct DEF Finish
<1>2. TasksKept({actor[r].task})
  BY <1>1, KeptFinish, OwnJob
<1>3. Others(r) /\ actor'[r] = Resting
  BY <1>1, OthersRest
<1> QED BY <1>2, <1>3, RestingShape, RestSpot, JobsMoved DEF WellEnded

LEMMA FailJobs ==
  ASSUME LedgerTypes, JobsInv, NEW r \in Runners, NEW odd, Busy(r), Fail(r, odd), UNCHANGED receipt,
         actor[r].task # Onboard => touch'[Onboard] = touch[Onboard]
  PROVE  JobsInv'
<1> DEFINE j == actor[r].task
           last == task[j].tries + 1 >= MaxTries
<1>1. /\ Rest(r) /\ task' = [task EXCEPT ![j].st = IF last THEN "kept" ELSE "waiting", ![j].tries = @ + 1]
      /\ oddities' = oddities \cup odd \cup (IF last THEN {"exhausted"} ELSE {})
  BY RunnersAct DEF Fail
<1>2. j \in Tasks
  BY OwnJob
<1> HIDE DEF last
<1>3. /\ DOMAIN task' = Tasks /\ DOMAIN task'[j] = TaskFields /\ task'[j].st = IF last THEN "kept" ELSE "waiting"
      /\ \A i \in Tasks \ {j} : task'[i] = task[i]
  BY <1>1, <1>2 DEF JobsInv, TaskTypes, TaskFields
<1>4. TasksKept({j}) /\ OddKept
  BY WaitingShape, <1>1, <1>3, TasksHere DEF JobsInv, TaskTypes, TasksKept, OddKept
<1>5. Others(r) /\ actor'[r] = Resting
  BY <1>1, OthersRest
<1>6. task'[j].st = "kept" => "exhausted" \in oddities'
  BY <1>1, <1>3
<1> QED BY <1>4, <1>5, <1>6, RestingShape, RestSpot, JobsMoved DEF WellEnded

LEMMA GoJobs ==
  ASSUME LedgerTypes, JobsInv, NEW r \in Runners, Busy(r), Others(r), actor'[r].task = actor[r].task,
         TasksKept({}), OddKept, Spot(actor'[r], receipt', touch'[Onboard]),
         actor[r].task # Onboard => UNCHANGED receipt /\ touch'[Onboard] = touch[Onboard]
  PROVE  JobsInv'
<1>1. task'[actor[r].task].st = "active" /\ TasksKept({actor[r].task})
  BY OwnJob, KeptMore DEF TasksKept
<1> QED BY <1>1, JobsMoved DEF WellEnded

-----------------------------------------------------------------------------
(* What the limit counts, when a runner moves. *)

LEMMA CountMoved ==
  ASSUME CountInv, NEW r \in Runners, Others(r), OddKept, UNCHANGED <<counted, reached, receipt>>,
         actor[r].pc \notin {"receipt", "count"}, Gated(r)' => Gated(r) /\ actor'[r].task = actor[r].task
  PROVE  CountInv'
<1>1. Known' => Known
  BY DEF Known, OddKept
<1>2. \A s \in Runners : Gated(s)' => Gated(s) /\ actor'[s].task = actor[s].task
  BY DEF Others, Gated
<1>3. \A s \in Runners : actor[s].pc \in {"receipt", "count"} => actor'[s] = actor[s]
  BY DEF Others
<1>4. Hands' \subseteq Hands
  BY <1>2 DEF Hands, Gating
<1>5. Tally => Tally'
  BY <1>3, <1>4, RoomKept DEF Tally
<1> QED BY <1>1, <1>5 DEF CountInv

LEMMA CountLost ==
  ASSUME CountInv, counted' = counted \/ (\E j : counted' = counted \cup {j}), ~ Known'
  PROVE  CountInv'
  BY FS_AddElement DEF CountInv

LEMMA CountRests ==
  ASSUME CountInv, LedgerTypes, NEW r \in Runners, Rest(r), OddKept, UNCHANGED <<counted, reached, receipt>>,
         actor[r].pc \notin {"receipt", "count"}
  PROVE  CountInv'
<1>1. Others(r) /\ actor'[r] = Resting
  BY OthersRest
<1>2. ~ Gated(r)'
  BY <1>1, RestingShape DEF Gated
<1> QED BY <1>1, <1>2, CountMoved

LEMMA FailOdd ==
  ASSUME NEW r \in Runners, NEW odd, Fail(r, odd) PROVE OddKept /\ odd \subseteq oddities'
  BY RunnersAct DEF Fail, OddKept

FollowInv == TouchInv /\ JobsInv /\ CountInv
RestInv == JobsInv /\ CountInv

-----------------------------------------------------------------------------
(* The steps of the world and of the commander. *)

LEMMA PlainAside ==
  ASSUME FollowInv, \A r \in Runners : actor'[r] = actor[r], TasksKept({}),
         UNCHANGED <<receipt, touch, counted, reached>>, OddKept
  PROVE  RestInv'
  BY JobsAside, CountAside DEF FollowInv, RestInv

LEMMA WorldSteps ==
  ASSUME FollowInv,
         \/ \E k \in Turns : Talk(k) \/ CancelOrder(k) \/ \E v \in Hours : BookOrMove(k, v)
         \/ \E v \in Hours : ChangedOutside("active", v) \/ ChangedOutside("ended", v)
         \/ HourPasses \/ CooldownEnds \/ UNCHANGED followVars
  PROVE  RestInv'
<1>1. UNCHANGED <<task, actor, receipt, touch, counted, reached>>
  BY DEF Talk, CancelOrder, BookOrMove, NextTurn, ChangedOutside, HourPasses, CooldownEnds, followVars, ledger, past
<1>2. OddKept
  BY DEF Talk, CancelOrder, BookOrMove, NextTurn, ChangedOutside, HourPasses, CooldownEnds, followVars, past, Odd, OddKept
<1> QED BY <1>1, <1>2, KeptAll, PlainAside DEF FollowInv

LEMMA SweepKeeps == ASSUME FollowInv, Sweep PROVE RestInv'
<1>1. UNCHANGED <<actor, receipt, touch, counted, reached, oddities>>
  BY DEF Sweep, ledger, past
<1>2. \A i \in Tasks : task'[i] = Waiting \/ task'[i] = task[i] \/ task'[i] = Absent
  BY DEF Sweep
<1>3. \A i \in Tasks : task[i].st = "active" => task'[i].st = "active"
  BY WaitingShape DEF Sweep
<1>4. task[CheckUp].st # "none" => task'[CheckUp].st # "none"
  BY TasksHere, WaitingShape DEF Sweep, IsPre, CheckUp
<1>5. DOMAIN task' = Tasks
  BY DEF Sweep
<1>6. TasksKept({})
  BY <1>2, <1>3, <1>4, <1>5, WaitingShape DEF TasksKept, FollowInv, JobsInv, TaskTypes
<1> QED BY <1>1, <1>6, PlainAside DEF OddKept

\* Adding a job that is not there, and taking away those that a new one replaces.
LEMMA KeptAdded ==
  ASSUME JobsInv, NEW j, task' = IF task[j].st = "none" THEN [task EXCEPT ![j] = Waiting] ELSE task
  PROVE  TasksKept({})
<1>1. CASE task[j].st = "none" /\ j \in Tasks
  <2>1. DOMAIN task' = Tasks /\ task'[j] = Waiting /\ \A i \in Tasks \ {j} : task'[i] = task[i]
    BY <1>1 DEF JobsInv, TaskTypes
  <2> QED BY <1>1, <2>1, WaitingShape, TasksHere DEF JobsInv, TaskTypes, TasksKept
<1>2. CASE task[j].st # "none" \/ j \notin Tasks
  <2>1. DOMAIN task' = Tasks /\ \A i \in Tasks : task'[i] = task[i]
    BY <1>2 DEF JobsInv, TaskTypes
  <2> QED BY <2>1, TasksHere DEF JobsInv, TaskTypes, TasksKept
<1> QED BY <1>1, <1>2

LEMMA KeptRemoved ==
  ASSUME JobsInv, NEW j, task' = [i \in Tasks |-> IF i \in Removes(j) THEN Absent ELSE task[i]]
  PROVE  TasksKept({})
<1>1. \A i \in Removes(j) : task[i].st = "waiting" /\ i # CheckUp
  BY DEF Removes, IsPre, CheckUp
<1>2. \A i \in Tasks : task'[i] = task[i] \/ (i \in Removes(j) /\ task'[i] = Absent)
  OBVIOUS
<1> QED BY <1>1, <1>2, WaitingShape, TasksHere DEF JobsInv, TaskTypes, TasksKept

LEMMA CommanderAside ==
  ASSUME FollowInv, Rest(Commander) \/ (\E p : Goes(Commander, p)) \/ (\E v : actor' = [actor EXCEPT ![Commander] = v])
  PROVE  \A r \in Runners : actor'[r] = actor[r]
<1>1. \E v : actor' = [actor EXCEPT ![Commander] = v]
  BY DEF Rest, Goes
<1> QED BY <1>1, RunnersAct DEF FollowInv, TouchInv, LedgerTypes

LEMMA RunCommandKeeps == ASSUME FollowInv, RunCommand PROVE RestInv'
<1> DEFINE c == Head(commands)
<1>1. UNCHANGED <<receipt, touch, counted, reached>>
  BY DEF RunCommand, ledger
<1>2. \/ UNCHANGED task
      \/ task' = IF task[c].st = "none" THEN [task EXCEPT ![c] = Waiting] ELSE task
  BY DEF RunCommand, Fail
<1>3. \/ Rest(Commander) \/ UNCHANGED actor
      \/ \E v : actor' = [actor EXCEPT ![Commander] = v]
  BY DEF RunCommand, Fail
<1>4. OddKept
  BY DEF RunCommand, Fail, OddKept
<1>5. TasksKept({})
  BY <1>2, KeptAll, KeptAdded DEF FollowInv
<1>6. \A r \in Runners : actor'[r] = actor[r]
  BY <1>3, CommanderAside
<1> QED BY <1>1, <1>4, <1>5, <1>6, PlainAside

LEMMA CommanderLooks == ASSUME FollowInv, Look(Commander) PROVE RestInv'
<1> DEFINE j == actor[Commander].add
<1>1. UNCHANGED <<receipt, touch, counted, reached>> /\ OddKept
  BY DEF Look, ledger, OddKept
<1>2. UNCHANGED task \/ task' = [i \in Tasks |-> IF i \in Removes(j) THEN Absent ELSE task[i]]
  BY DEF Look, Finish
<1>3. TasksKept({})
  BY <1>2, KeptAll, KeptRemoved DEF FollowInv
<1>4. \A r \in Runners : actor'[r] = actor[r]
  BY CommanderAside DEF Look, Finish
<1> QED BY <1>1, <1>3, <1>4, PlainAside

LEMMA CommanderAdds == ASSUME FollowInv, Add(Commander) PROVE RestInv'
<1> DEFINE j == actor[Commander].add
<1>1. UNCHANGED <<receipt, touch, counted, reached>> /\ OddKept
  BY DEF Add, ledger, OddKept, Fail
<1>2. UNCHANGED task \/ task' = IF task[j].st = "none" THEN [task EXCEPT ![j] = Waiting] ELSE task
  BY DEF Add, Fail
<1>3. TasksKept({})
  BY <1>2, KeptAll, KeptAdded DEF FollowInv
<1>4. Rest(Commander)
  BY DEF Add, Fail
<1>5. \A r \in Runners : actor'[r] = actor[r]
  BY <1>4, CommanderAside
<1> QED BY <1>1, <1>3, <1>5, PlainAside

-----------------------------------------------------------------------------
(* The steps of a runner. *)

LEMMA EndsCall ==
  ASSUME NEW r \in Runners, NEW odd, Finish(r) \/ Fail(r, odd) PROVE Rest(r)
  BY DEF Finish, Fail

\* A call that ends without having reached the candidate.
LEMMA FinishKeeps ==
  ASSUME FollowInv, NEW r \in Runners, Busy(r), Finish(r), UNCHANGED <<receipt, counted, reached>>, OddKept,
         actor[r].pc \notin {"receipt", "count"}, actor[r].task # Onboard => touch'[Onboard] = touch[Onboard],
         actor[r].task = Onboard => receipt = 0
  PROVE  RestInv'
  BY FinishJobs, EndsCall, CountRests DEF FollowInv, TouchInv, RestInv

LEMMA FailKeeps ==
  ASSUME FollowInv, NEW r \in Runners, Busy(r), Fail(r, {}), UNCHANGED <<receipt, counted, reached>>,
         actor[r].pc \notin {"receipt", "count"}, actor[r].task # Onboard => touch'[Onboard] = touch[Onboard]
  PROVE  RestInv'
  BY FailJobs, EndsCall, FailOdd, CountRests DEF FollowInv, TouchInv, RestInv

\* One that may have reached him: nothing is known any more of what the limit counts.
LEMMA FailLoses ==
  ASSUME FollowInv, NEW r \in Runners, Busy(r), Fail(r, {"uncounted"}), UNCHANGED receipt,
         counted' = counted \/ (\E j : counted' = counted \cup {j}),
         actor[r].task # Onboard => touch'[Onboard] = touch[Onboard]
  PROVE  RestInv'
<1>1. ~ Known'
  BY FailOdd DEF Known
<1> QED BY <1>1, FailJobs, CountLost DEF FollowInv, TouchInv, RestInv

LEMMA MarkOnboard ==
  ASSUME LedgerTypes, NEW r \in Runners, NEW s, Mark(r, s)
  PROVE  touch'[Onboard] = IF actor[r].task = Onboard THEN s ELSE touch[Onboard]
  BY TasksHere DEF LedgerTypes, Mark

LEMMA SpotHere == ASSUME FollowInv, NEW r \in Runners PROVE Spot(actor[r], receipt, touch[Onboard])
  BY DEF FollowInv, JobsInv, Spots

LEMMA RunnerLooks == ASSUME FollowInv, NEW r \in Runners, Look(r) PROVE RestInv'
<1> DEFINE j == actor[r].add
<1>1. /\ UNCHANGED <<receipt, touch, counted, reached>> /\ OddKept /\ actor[r].pc = "look" /\ Busy(r)
      /\ actor[r].task # Onboard
  BY SpotHere DEF Look, ledger, OddKept, Busy, Spot
<1>2. CASE Finish(r)
  BY <1>1, <1>2, FinishKeeps
<1>3. CASE /\ Goes(r, "add")
           /\ UNCHANGED task \/ task' = [i \in Tasks |-> IF i \in Removes(j) THEN Absent ELSE task[i]]
  <2>1. TasksKept({})
    BY <1>3, KeptAll, KeptRemoved DEF FollowInv
  <2>2. Others(r) /\ actor'[r].pc = "add" /\ actor'[r].task = actor[r].task
    BY <1>3, OthersGo DEF FollowInv, TouchInv
  <2>3. Spot(actor'[r], receipt', touch'[Onboard])
    BY <1>1, <2>2 DEF Spot
  <2>4. ~ Gated(r)'
    BY <2>2 DEF Gated
  <2>5. JobsInv'
    BY <1>1, <2>1, <2>2, <2>3, GoJobs DEF FollowInv, TouchInv
  <2>6. CountInv'
    BY <1>1, <2>2, <2>4, CountMoved DEF FollowInv
  <2> QED BY <2>5, <2>6 DEF RestInv
<1> QED BY <1>2, <1>3 DEF Look

LEMMA RunnerAdds == ASSUME FollowInv, NEW r \in Runners, Add(r) PROVE RestInv'
<1> DEFINE j == actor[r].add
           own == actor[r].task
           added == IF task[j].st = "none" THEN [task EXCEPT ![j] = Waiting] ELSE task
<1>1. /\ UNCHANGED <<receipt, touch, counted, reached>> /\ actor[r].pc = "add" /\ Busy(r)
      /\ actor[r].task # Onboard /\ r # Commander
  BY SpotHere, RunnersAct DEF Add, ledger, Busy, Spot
<1>2. CASE Finish(r) /\ OddKept
  BY <1>1, <1>2, FinishKeeps
<1>3. CASE Rest(r) /\ task' = [added EXCEPT ![own].st = "kept"] /\ OddKept
  <2>1. own \in Tasks /\ task[own].st = "active"
    BY <1>1, OwnJob DEF FollowInv
  <2>2. /\ DOMAIN added = Tasks /\ added[own] = task[own]
        /\ \A i \in Tasks : added[i] = task[i] \/ (added[i] = Waiting /\ task[i].st = "none")
    BY <2>1 DEF FollowInv, JobsInv, TaskTypes
  <2> HIDE DEF added
  <2>3. /\ DOMAIN task' = Tasks /\ DOMAIN task'[own] = TaskFields /\ task'[own].st = "kept"
        /\ \A i \in Tasks \ {own} : task'[i] = added[i]
    BY <1>3, <2>1, <2>2 DEF FollowInv, JobsInv, TaskTypes, TaskFields
  <2> HIDE DEF own
  <2>4. TasksKept({own})
    BY <2>2, <2>3, WaitingShape, TasksHere DEF FollowInv, JobsInv, TaskTypes, TasksKept
  <2>5. Others(r) /\ actor'[r] = Resting
    BY <1>3, OthersRest DEF FollowInv, TouchInv
  <2>6. JobsInv'
    BY <1>1, <1>3, <2>4, <2>5, RestingShape, RestSpot, JobsMoved DEF FollowInv, own
  <2>7. CountInv'
    BY <1>1, <1>3, CountRests DEF FollowInv, TouchInv
  <2> QED BY <2>6, <2>7 DEF RestInv
<1>4. OddKept
  BY <1>1, RunnersAct DEF Add, OddKept, Odd
<1> QED BY <1>1, <1>2, <1>3, <1>4 DEF Add

\* With the switch off a job ends where it was due.
LEMMA DropKeeps ==
  ASSUME FollowInv, NEW j \in Tasks, UNCHANGED <<touch, reached, counted, receipt, actor>>, task[j].st = "waiting",
         task' = [task EXCEPT ![j].st = "kept"], oddities' = oddities \cup Dropped(j)
  PROVE  RestInv'
<1>1. /\ DOMAIN task' = Tasks /\ DOMAIN task'[j] = TaskFields /\ task'[j].st = "kept"
      /\ \A i \in Tasks \ {j} : task'[i] = task[i]
  BY DEF FollowInv, JobsInv, TaskTypes, TaskFields
<1>2. TaskTypes'
  BY WaitingShape, <1>1 DEF FollowInv, JobsInv, TaskTypes
<1>3. \A r \in Runners : Busy(r)' => Busy(r) /\ actor[r].task \in Tasks \ {j}
  BY DEF Busy, FollowInv, JobsInv, Alone
<1>4. Alone' /\ Spots'
  BY <1>1, <1>3 DEF FollowInv, JobsInv, Alone, Spots
<1>5. j = Onboard => "halted" \in oddities'
  BY DEF Dropped, IsPre, Onboard, CheckUp
<1>6. OddKept
  BY DEF OddKept
<1>7. AcceptedRecorded'
  BY <1>1, <1>5, <1>6, TasksHere DEF FollowInv, JobsInv, AcceptedRecorded, OddKept
<1>8. CountInv'
  BY <1>6, CountAside DEF FollowInv
<1> QED BY <1>2, <1>4, <1>7, <1>8 DEF RestInv, JobsInv

LEMMA FireKeeps == ASSUME FollowInv, NEW r \in Runners, NEW j \in Tasks, FireTask(r, j) PROVE RestInv'
<1> DEFINE v == IF j = Onboard /\ receipt # 0
                THEN [Resting EXCEPT !.pc = "recount", !.task = j, !.since = receipt]
                ELSE [Resting EXCEPT !.pc = "judge", !.task = j, !.since = turn]
<1>1. UNCHANGED <<touch, reached, counted, receipt>> /\ actor[r].pc = "rest" /\ task[j].st = "waiting"
  BY DEF FireTask, ledger
<1>2. v.task = j /\ v.pc = IF j = Onboard /\ receipt # 0 THEN "recount" ELSE "judge"
  BY DEF Resting
<1> HIDE DEF v
<1>3. ASSUME UNCHANGED actor, task' = [task EXCEPT ![j].st = "kept"], oddities' = oddities \cup Dropped(j)
      PROVE  RestInv'
  BY <1>1, <1>3, DropKeeps
<1>4. ASSUME actor' = [actor EXCEPT ![r] = v], task' = [task EXCEPT ![j].st = "active"], UNCHANGED oddities
      PROVE  RestInv'
  <2>1. Others(r) /\ actor'[r] = v
    BY <1>4, RunnersAct DEF FollowInv, TouchInv, LedgerTypes, Others
  <2>2. /\ DOMAIN task' = Tasks /\ DOMAIN task'[j] = TaskFields /\ task'[j].st = "active"
        /\ \A i \in Tasks \ {j} : task'[i] = task[i]
    BY <1>4 DEF FollowInv, JobsInv, TaskTypes, TaskFields
  <2>3. TaskTypes'
    BY WaitingShape, <2>2 DEF FollowInv, JobsInv, TaskTypes
  <2>4. \A s \in Runners : s # r /\ Busy(s)' => /\ actor'[s] = actor[s] /\ Busy(s) /\ actor[s].task \in Tasks \ {j}
                                              /\ task[actor[s].task].st = "active"
    BY <1>1, <2>1 DEF Others, Busy, FollowInv, JobsInv, Alone
  <2>5. \A s \in Runners : Busy(s)' => actor'[s].task \in Tasks /\ task'[actor'[s].task].st = "active"
    BY <1>2, <2>1, <2>2, <2>4
  <2>6. \A p, q \in Runners : p # q /\ Busy(p)' /\ Busy(q)' => actor'[p].task # actor'[q].task
    BY <1>2, <2>1, <2>4 DEF FollowInv, JobsInv, Alone
  <2>7. Alone'
    BY <2>5, <2>6 DEF Alone
  <2>8. Spot(v, receipt, touch[Onboard])
    BY <1>2 DEF Spot
  <2>9. Spots'
    BY <1>1, <2>1, <2>8 DEF Spots, Others, FollowInv, JobsInv
  <2>10. AcceptedRecorded'
    BY <1>1, <1>4, <2>2, TasksHere DEF AcceptedRecorded, FollowInv, JobsInv
  <2>11. CountInv'
    BY <1>1, <1>2, <1>4, <2>1, CountMoved DEF FollowInv, Gated, OddKept
  <2> QED BY <2>3, <2>7, <2>9, <2>10, <2>11 DEF RestInv, JobsInv
<1> QED BY <1>3, <1>4 DEF FireTask, v

LEMMA JudgeKeeps == ASSUME FollowInv, NEW r \in Runners, Judge(r) PROVE RestInv'
<1> DEFINE own == actor[r].task
           v == [actor[r] EXCEPT !.pc = "look", !.add = Remind(interview.at)]
<1>1. /\ UNCHANGED <<receipt, touch, counted, reached>> /\ actor[r].pc = "judge" /\ Busy(r)
      /\ own = Onboard => receipt = 0
  BY SpotHere DEF Judge, ledger, Busy, Spot
<1>2. CASE Finish(r) /\ (UNCHANGED oddities \/ oddities' = oddities \cup Dropped(own))
  BY <1>1, <1>2, FinishKeeps DEF OddKept
<1>3. CASE Fail(r, {})
  BY <1>1, <1>3, FailKeeps
<1>4. CASE Schedules(r, Remind(interview.at)) /\ own # Onboard /\ UNCHANGED oddities
  <2>1. DOMAIN actor[r] = Fields
    BY RunnersAct DEF FollowInv, TouchInv, LedgerTypes
  <2>2. v.pc = "look" /\ v.task = own /\ actor' = [actor EXCEPT ![r] = v] /\ UNCHANGED task
    BY <1>4, <2>1 DEF Schedules, Fields
  <2> HIDE DEF v
  <2>3. Others(r) /\ actor'[r] = v
    BY <2>2, RunnersAct DEF FollowInv, TouchInv, LedgerTypes, Others
  <2>4. Spot(v, receipt, touch[Onboard])
    BY <1>4, <2>2 DEF Spot
  <2>5. TasksKept({})
    BY <2>2, KeptAll DEF FollowInv
  <2>6. ~ Gated(r)'
    BY <2>2, <2>3 DEF Gated
  <2>7. JobsInv'
    BY <1>1, <1>4, <2>2, <2>3, <2>4, <2>5, GoJobs DEF FollowInv, TouchInv, OddKept
  <2>8. CountInv'
    BY <1>1, <1>4, <2>3, <2>6, CountMoved DEF FollowInv, OddKept
  <2> QED BY <2>7, <2>8 DEF RestInv
<1>5. CASE ~ OverLimit /\ Goes(r, "reserve") /\ UNCHANGED task /\ oddities' = oddities \cup Overlap(r)
  <2>1. Others(r) /\ actor'[r].pc = "reserve" /\ actor'[r].task = own
    BY <1>5, OthersGo DEF FollowInv, TouchInv
  <2>2. Spot(actor'[r], receipt', touch'[Onboard])
    BY <1>1, <2>1 DEF Spot
  <2>3. JobsInv'
    BY <1>1, <1>5, <2>1, <2>2, KeptAll, GoJobs DEF FollowInv, TouchInv, OddKept
  <2>4. /\ IsFiniteSet(counted) /\ Cardinality(counted) \in Nat /\ MaxTouches \in Nat
        /\ Cardinality(counted) + 1 <= MaxTouches
    BY <1>5, FS_CardinalityType, FollowAssumption DEF OverLimit, FollowInv, CountInv, FollowAssumption
  <2>5. Cardinality(counted \cup Hands') <= Room'
    <3>1. CASE "overlap" \in oddities'
      <4>1. IsFiniteSet(Hands') /\ Cardinality(Hands') \in Nat /\ Cardinality(Hands') <= Cardinality(Runners)
            /\ Cardinality(Runners) \in Nat
        <5>1. HandsBound'
          BY HandsFinite, PTL
        <5> QED BY <5>1 DEF HandsBound
      <4> DEFINE both == counted \cap Hands'
                 all == counted \cup Hands'
      <4>2. both \subseteq counted
        OBVIOUS
      <4>3. IsFiniteSet(both)
        BY <2>4, <4>2, FS_Subset
      <4>4. Cardinality(both) \in Nat
        BY <4>3, FS_CardinalityType
      <4>5. Cardinality(all) = Cardinality(counted) + Cardinality(Hands') - Cardinality(both)
        BY <2>4, <4>1, FS_Union
      <4>6. Room' = MaxTouches + Cardinality(Runners) - 1
        BY <2>4, <3>1, <4>1 DEF Room
      <4> HIDE DEF both, all
      <4>7. Cardinality(all) <= Room'
        BY <2>4, <4>1, <4>4, <4>5, <4>6
      <4> QED BY <4>7 DEF all
    <3>2. CASE "overlap" \notin oddities'
      <4>1. \A s \in Runners : s # r => ~ Sending(s)
        BY <1>5, <3>2 DEF Overlap
      <4>2. \A s \in Runners : Gated(s)' => s = r
        BY <2>1, <4>1 DEF Gated, Sending, Others
      <4>3. Hands' \subseteq {own}
        BY <2>1, <4>2 DEF Hands, Gating
      <4> DEFINE all == counted \cup {own}
                 left == counted \cup Hands'
      <4>4. IsFiniteSet(all) /\ Cardinality(all) <= Cardinality(counted) + 1
        <5>1. Cardinality(all) = IF own \in counted THEN Cardinality(counted) ELSE Cardinality(counted) + 1
          BY <2>4, FS_AddElement
        <5>2. IsFiniteSet(all)
          BY <2>4, FS_AddElement
        <5> HIDE DEF all
        <5> QED BY <2>4, <5>1, <5>2
      <4>5. left \subseteq all
        BY <4>3
      <4> HIDE DEF all, left
      <4>6. Cardinality(left) <= Cardinality(all) /\ Cardinality(left) \in Nat /\ Cardinality(all) \in Nat
        BY <4>4, <4>5, FS_Subset, FS_CardinalityType
      <4>7. Room' = MaxTouches
        BY <2>4, <3>2 DEF Room
      <4>8. Cardinality(left) <= Room'
        BY <2>4, <4>4, <4>6, <4>7
      <4> QED BY <4>8 DEF left
    <3> QED BY <3>1, <3>2
  <2>6. Known' => Known
    BY <1>5 DEF Known
  <2>7. Tally => \A s \in Runners : actor[s].pc \in {"receipt", "count"} => actor'[s] = actor[s]
    BY <1>1, <2>1 DEF Others
  <2>8. Known' => Tally'
    BY <1>1, <2>5, <2>6, <2>7 DEF FollowInv, CountInv, Tally
  <2> QED BY <1>1, <2>3, <2>8 DEF RestInv, CountInv, FollowInv
<1>6. Gate(r) => \/ Finish(r) /\ UNCHANGED oddities
                 \/ ~ OverLimit /\ Goes(r, "reserve") /\ UNCHANGED task /\ oddities' = oddities \cup Overlap(r)
  BY DEF Gate
<1>7. \/ Gate(r)
      \/ Finish(r) /\ (UNCHANGED oddities \/ oddities' = oddities \cup Dropped(own))
      \/ own[1] \in {"resolve", "remind"} /\ Schedules(r, Remind(interview.at)) /\ UNCHANGED oddities
      \/ Fail(r, {})
  BY DEF Judge
<1>8. own[1] \in {"resolve", "remind"} => own # Onboard
  BY DEF Onboard
<1> HIDE DEF own
<1> QED BY <1>2, <1>3, <1>4, <1>5, <1>6, <1>7, <1>8

\* A runner goes on before its message is sent.
LEMMA GoesKeeps ==
  ASSUME FollowInv, NEW r \in Runners, NEW p, Goes(r, p), Busy(r), UNCHANGED <<task, receipt, counted, reached>>, OddKept,
         actor[r].pc \notin {"receipt", "count"}, p \in {"reserve", "compose", "deliver"} => Gated(r),
         p \notin {"receipt", "count"},
         actor[r].task # Onboard => touch'[Onboard] = touch[Onboard],
         \A v : v.pc = p /\ v.task = actor[r].task => Spot(v, receipt, touch'[Onboard])
  PROVE  RestInv'
<1>1. Others(r) /\ actor'[r].pc = p /\ actor'[r].task = actor[r].task
  BY OthersGo DEF FollowInv, TouchInv
<1>2. JobsInv'
  BY <1>1, KeptAll, GoJobs DEF FollowInv, TouchInv
<1>3. Gated(r)' => Gated(r) /\ actor'[r].task = actor[r].task
  BY <1>1 DEF Gated
<1>4. CountInv'
  BY <1>1, <1>3, CountMoved DEF FollowInv
<1> QED BY <1>2, <1>4 DEF RestInv

LEMMA ReserveKeeps == ASSUME FollowInv, NEW r \in Runners, Reserve(r) PROVE RestInv'
<1> DEFINE own == actor[r].task
<1>1. /\ UNCHANGED <<receipt, counted, reached>> /\ actor[r].pc = "reserve" /\ Busy(r) /\ Gated(r)
      /\ own = Onboard => receipt = 0
  BY SpotHere DEF Reserve, Busy, Spot, Gated
<1>2. touch' = touch \/ \E s : Mark(r, s)
  BY DEF Reserve
<1>3. own # Onboard => touch'[Onboard] = touch[Onboard]
  BY <1>2, MarkOnboard DEF FollowInv, TouchInv
<1>4. CASE Finish(r) /\ UNCHANGED oddities
  BY <1>1, <1>3, <1>4, FinishKeeps DEF OddKept
<1>5. CASE Fail(r, {})
  BY <1>1, <1>3, <1>5, FailKeeps
<1>6. CASE Goes(r, "compose") /\ UNCHANGED <<task, oddities>>
  <2>1. \A v : v.pc = "compose" /\ v.task = own => Spot(v, receipt, touch'[Onboard])
    BY <1>1 DEF Spot
  <2> QED BY <1>1, <1>3, <1>6, <2>1, GoesKeeps DEF OddKept
<1> QED BY <1>4, <1>5, <1>6 DEF Reserve

LEMMA ComposeKeeps == ASSUME FollowInv, NEW r \in Runners, Compose(r) PROVE RestInv'
<1> DEFINE own == actor[r].task
<1>1. /\ UNCHANGED <<receipt, counted, reached>> /\ actor[r].pc = "compose" /\ Busy(r) /\ Gated(r)
      /\ own = Onboard => receipt = 0
  BY SpotHere DEF Compose, Busy, Spot, Gated
<1>2. touch' = touch \/ \E s : Mark(r, s)
  BY DEF Compose
<1>3. own # Onboard => touch'[Onboard] = touch[Onboard]
  BY <1>2, MarkOnboard DEF FollowInv, TouchInv
<1>4. CASE Finish(r) /\ UNCHANGED oddities
  BY <1>1, <1>3, <1>4, FinishKeeps DEF OddKept
<1>5. CASE Fail(r, {})
  BY <1>1, <1>3, <1>5, FailKeeps
<1>6. CASE Goes(r, "deliver") /\ UNCHANGED <<task, oddities>>
  <2>1. \A v : v.pc = "deliver" /\ v.task = own => Spot(v, receipt, touch'[Onboard])
    BY <1>1 DEF Spot
  <2> QED BY <1>1, <1>3, <1>6, <2>1, GoesKeeps DEF OddKept
<1> QED BY <1>4, <1>5, <1>6 DEF Compose

LEMMA DeliverKeeps == ASSUME FollowInv, NEW r \in Runners, Deliver(r) PROVE RestInv'
<1> DEFINE own == actor[r].task
           v == IF own = Onboard THEN [actor[r] EXCEPT !.pc = "receipt", !.since = turn]
                ELSE [actor[r] EXCEPT !.pc = "count"]
<1>1. /\ UNCHANGED <<receipt, counted>> /\ actor[r].pc = "deliver" /\ Busy(r) /\ Gated(r)
      /\ own = Onboard => receipt = 0
  BY SpotHere DEF Deliver, Busy, Spot, Gated
<1>2. \E s : Mark(r, s)
  BY DEF Deliver
<1>3. own # Onboard => touch'[Onboard] = touch[Onboard]
  BY <1>2, MarkOnboard DEF FollowInv, TouchInv
<1>4. CASE Finish(r) /\ UNCHANGED <<oddities, reached>>
  BY <1>1, <1>3, <1>4, FinishKeeps DEF OddKept
<1>5. CASE Fail(r, {"uncounted"})
  BY <1>1, <1>3, <1>5, FailLoses
<1>6. CASE Reach(r) /\ actor' = [actor EXCEPT ![r] = v] /\ UNCHANGED <<task, oddities>>
  <2>1. DOMAIN actor[r] = Fields
    BY RunnersAct DEF FollowInv, TouchInv, LedgerTypes
  <2>2. v.task = own /\ v.pc = IF own = Onboard THEN "receipt" ELSE "count"
    BY <2>1 DEF Fields
  <2> HIDE DEF v
  <2>3. Others(r) /\ actor'[r] = v
    BY <1>6, RunnersAct DEF FollowInv, TouchInv, LedgerTypes, Others
  <2>4. Spot(v, receipt, touch'[Onboard])
    BY <1>1, <2>2 DEF Spot
  <2>5. TasksKept({})
    BY <1>6, KeptAll DEF FollowInv
  <2>6. JobsInv'
    BY <1>1, <1>3, <1>6, <2>2, <2>3, <2>4, <2>5, GoJobs DEF FollowInv, TouchInv, OddKept
  <2>7. \A i \in Touches : i # own => reached'[i] = reached[i]
    BY <1>6 DEF Reach, FollowInv, TouchInv, LedgerTypes
  <2>8. \A s \in Runners : s # r => actor'[s] = actor[s]
    BY <2>3 DEF Others
  <2>9. \A s \in Runners : Gated(s)' => Gated(s) /\ actor'[s].task = actor[s].task
    BY <1>1, <2>2, <2>3, <2>8 DEF Gated
  <2>10. \A s \in Runners : actor[s].pc \in {"receipt", "count"} => actor'[s] = actor[s]
    BY <1>1, <2>8
  <2>11. r \in Runners /\ actor'[r].pc \in {"receipt", "count"} /\ actor'[r].task = own
    BY <2>2, <2>3
  <2> HIDE DEF own
  <2>12. Hands' \subseteq Hands /\ OddKept
    BY <1>6, <2>9 DEF Hands, Gating, OddKept
  <2>13. Tally => Tally'
    BY <1>1, <2>7, <2>10, <2>11, <2>12, RoomKept DEF FollowInv, Tally
  <2>14. CountInv'
    BY <1>1, <1>6, <2>13 DEF FollowInv, CountInv, Known
  <2> QED BY <2>6, <2>14 DEF RestInv
<1> QED BY <1>4, <1>5, <1>6 DEF Deliver

LEMMA ReceiptKeeps == ASSUME FollowInv, NEW r \in Runners, SaveReceipt(r) PROVE RestInv'
<1>1. UNCHANGED <<counted, reached>> /\ actor[r].pc = "receipt" /\ Busy(r) /\ Gated(r) /\ actor[r].task = Onboard
  BY SpotHere DEF SaveReceipt, Busy, Spot, Gated
<1>2. CASE Fail(r, {"uncounted"}) /\ UNCHANGED receipt
  BY <1>1, <1>2, FailLoses
<1>3. CASE Goes(r, "count") /\ UNCHANGED <<task, touch, oddities>>
  <2>1. Others(r) /\ actor'[r].pc = "count" /\ actor'[r].task = Onboard
    BY <1>1, <1>3, OthersGo DEF FollowInv, TouchInv
  <2>2. Spot(actor'[r], receipt', touch'[Onboard])
    BY <2>1 DEF Spot
  <2>3. JobsInv'
    BY <1>1, <1>3, <2>1, <2>2, KeptAll, GoJobs DEF FollowInv, TouchInv, OddKept
  <2>4. \A s \in Runners : s # r => actor'[s] = actor[s]
    BY <2>1 DEF Others
  <2>5. \A s \in Runners : Gated(s)' => Gated(s) /\ actor'[s].task = actor[s].task
    BY <1>1, <2>1, <2>4 DEF Gated
  <2>6. \A s \in Runners : actor[s].pc \in {"receipt", "count"} =>
          actor'[s].pc \in {"receipt", "count"} /\ actor'[s].task = actor[s].task
    BY <1>1, <2>1, <2>4
  <2>7. Hands' \subseteq Hands /\ OddKept
    BY <1>3, <2>5 DEF Hands, Gating, OddKept
  <2>8. Tally => Tally'
    BY <1>1, <2>1, <2>6, <2>7, RoomKept DEF FollowInv, Tally
  <2>9. CountInv'
    BY <1>1, <1>3, <2>8 DEF FollowInv, CountInv, Known
  <2> QED BY <2>3, <2>9 DEF RestInv
<1> QED BY <1>2, <1>3 DEF SaveReceipt

LEMMA MarkSentKeeps == ASSUME FollowInv, NEW r \in Runners, MarkSent(r) PROVE RestInv'
<1> DEFINE own == actor[r].task
<1>1. /\ UNCHANGED <<receipt, reached>> /\ actor[r].pc \in {"count", "recount"} /\ Busy(r)
      /\ actor[r].pc = "recount" => own = Onboard /\ receipt # 0
  BY SpotHere DEF MarkSent, Busy, Spot
<1>2. touch' = touch \/ \E s : Mark(r, s)
  BY DEF MarkSent
<1>3. own # Onboard => touch'[Onboard] = touch[Onboard]
  BY <1>2, MarkOnboard DEF FollowInv, TouchInv
<1>4. CASE Fail(r, {"uncounted"}) /\ (UNCHANGED counted \/ counted' = counted \cup {own})
  BY <1>1, <1>3, <1>4, FailLoses
<1>5. CASE /\ Mark(r, "sent") /\ counted' = counted \cup {own} /\ UNCHANGED oddities
           /\ (own = Onboard /\ Goes(r, "check") /\ UNCHANGED task) \/ (own # Onboard /\ Finish(r))
  <2>1. JobsInv'
    <3>1. CASE own # Onboard /\ Finish(r)
      BY <1>1, <1>3, <1>5, <3>1, FinishJobs DEF FollowInv, TouchInv, OddKept
    <3>2. CASE own = Onboard /\ Goes(r, "check") /\ UNCHANGED task
      <4>1. Others(r) /\ actor'[r].pc = "check" /\ actor'[r].task = own
        BY <3>2, OthersGo DEF FollowInv, TouchInv
      <4>2. touch'[Onboard] = "sent"
        BY <1>5, <3>2, MarkOnboard DEF FollowInv, TouchInv
      <4>3. Spot(actor'[r], receipt', touch'[Onboard])
        BY <3>2, <4>1, <4>2 DEF Spot
      <4> QED BY <1>1, <1>5, <3>2, <4>1, <4>3, KeptAll, GoJobs DEF FollowInv, TouchInv, OddKept
    <3> QED BY <1>5, <3>1, <3>2
  <2>2. Others(r) /\ actor'[r].pc \in {"rest", "check"}
    BY <1>5, EndsCall, OthersRest, OthersGo, RestingShape DEF FollowInv, TouchInv
  <2>3. \A s \in Runners : s # r => actor'[s] = actor[s]
    BY <2>2 DEF Others
  <2>4. Hands' \subseteq Hands /\ OddKept
    BY <1>5, <2>2, <2>3 DEF Hands, Gating, Gated, OddKept
  <2>5. \A s \in Runners : s # r /\ Busy(s) => actor[s].task # own
    BY <1>1 DEF FollowInv, JobsInv, Alone
  <2>6. IsFiniteSet(counted')
    BY <1>5, FS_AddElement DEF FollowInv, CountInv
  <2>7. actor[r].pc = "count" => own \in Hands
    BY DEF Hands, Gating, Gated
  <2> HIDE DEF own
  <2>8. ASSUME actor[r].pc = "count", Tally PROVE Tally'
    <3>1. Cardinality(counted' \cup Hands') <= Room'
      BY <1>5, <2>4, <2>7, <2>8, RoomKept DEF FollowInv
    <3>2. \A j \in Touches : reached'[j] > 0 =>
            j \in counted' \/ \E s \in Runners : actor'[s].pc \in {"receipt", "count"} /\ actor'[s].task = j
      BY <1>1, <1>5, <2>3, <2>8 DEF Tally, own
    <3>3. receipt' # 0 => Onboard \in counted' \/ \E s \in Runners : actor'[s].pc = "count" /\ actor'[s].task = Onboard
      BY <1>1, <1>5, <2>3, <2>8 DEF Tally, own
    <3> QED BY <3>1, <3>2, <3>3 DEF Tally
  <2>9. ASSUME actor[r].pc = "recount", Tally PROVE Tally'
    <3>1. \A s \in Runners : actor[s].pc = "count" => Busy(s) /\ s # r
      BY <2>9 DEF Busy
    <3>2. own \in counted
      BY <1>1, <2>5, <2>9, <3>1 DEF Tally
    <3>3. counted' = counted
      BY <1>5, <3>2
    <3>4. \A s \in Runners : actor[s].pc \in {"receipt", "count"} => actor'[s] = actor[s]
      BY <2>3, <2>9
    <3>5. Cardinality(counted' \cup Hands') <= Room'
      BY <2>4, <2>9, <3>3, RoomKept DEF FollowInv
    <3> QED BY <1>1, <2>9, <3>3, <3>4, <3>5 DEF Tally
  <2>10. CountInv'
    BY <1>1, <1>5, <2>6, <2>8, <2>9 DEF FollowInv, CountInv, Known
  <2> QED BY <2>1, <2>10 DEF RestInv
<1> QED BY <1>4, <1>5 DEF MarkSent

LEMMA CheckKeeps == ASSUME FollowInv, NEW r \in Runners, ScheduleOnboardingCheck(r) PROVE RestInv'
<1>1. /\ UNCHANGED <<receipt, touch, counted, reached>> /\ actor[r].pc = "check" /\ Busy(r)
      /\ actor[r].task = Onboard /\ touch[Onboard] = "sent"
  BY SpotHere DEF ScheduleOnboardingCheck, ledger, Busy, Spot
<1>2. CASE Fail(r, {})
  BY <1>1, <1>2, FailKeeps
<1>3. CASE Rest(r) /\ task' = WithCheckUp /\ UNCHANGED oddities
  <2>1. /\ DOMAIN task' = Tasks /\ DOMAIN task'[Onboard] = TaskFields /\ task'[Onboard].st = "kept"
        /\ \A i \in Tasks \ {Onboard, CheckUp} : task'[i] = task[i]
        /\ task'[CheckUp] = IF task[CheckUp].st = "none" THEN Waiting ELSE task[CheckUp]
    BY <1>3, TasksHere DEF WithCheckUp, FollowInv, JobsInv, TaskTypes, TaskFields
  <2>2. TasksKept({Onboard}) /\ task'[CheckUp].st # "none"
    BY <2>1, WaitingShape, TasksHere DEF TasksKept, FollowInv, JobsInv, TaskTypes
  <2>3. Others(r) /\ actor'[r] = Resting
    BY <1>3, OthersRest DEF FollowInv, TouchInv
  <2>4. JobsInv'
    BY <1>1, <1>3, <2>2, <2>3, RestingShape, RestSpot, JobsMoved DEF FollowInv, OddKept, WellEnded
  <2>5. CountInv'
    BY <1>1, <1>3, CountRests DEF FollowInv, TouchInv, OddKept
  <2> QED BY <2>4, <2>5 DEF RestInv
<1>4. CASE Finish(r) /\ oddities' = oddities \cup Dropped(CheckUp)
  <2>1. Rest(r) /\ task' = [task EXCEPT ![Onboard].st = "kept"]
    BY <1>1, <1>4, RunnersAct DEF Finish
  <2>2. TasksKept({Onboard}) /\ Others(r) /\ actor'[r] = Resting
    BY <2>1, KeptFinish, OthersRest, TasksHere DEF FollowInv, TouchInv
  <2>3. "unchecked" \in oddities' /\ OddKept
    BY <1>4 DEF Dropped, OddKept, IsPre, Onboard, CheckUp
  <2>4. JobsInv'
    BY <1>1, <2>2, <2>3, RestingShape, RestSpot, JobsMoved DEF FollowInv, WellEnded
  <2>5. CountInv'
    BY <1>1, <2>1, <2>3, CountRests DEF FollowInv, TouchInv
  <2> QED BY <2>4, <2>5 DEF RestInv
<1> QED BY <1>2, <1>3, <1>4 DEF ScheduleOnboardingCheck

\* A job in state st that survived n crashes is in state to after another one.
Crashed(st, n, to) ==
  \/ st # "active" /\ to = st
  \/ st = "active" /\ to = IF n >= MaxStalls THEN "kept" ELSE "waiting"

LEMMA DiesKeeps == ASSUME FollowInv, ProcessDies PROVE RestInv'
<1>1. /\ UNCHANGED <<receipt, touch, counted, reached>> /\ OddKept
      /\ \A r \in Runners : actor'[r] = Resting
  BY RunnersAct DEF ProcessDies, ledger, OddKept
<1>2. task' = [j \in Tasks |-> IF task[j].st = "active" THEN Stalled(task[j]) ELSE task[j]]
  BY DEF ProcessDies
<1>3. DOMAIN task' = Tasks /\ \A j \in Tasks : DOMAIN task'[j] = TaskFields /\ Crashed(task[j].st, task[j].stalls, task'[j].st)
  BY <1>2 DEF FollowInv, JobsInv, TaskTypes, TaskFields, Stalled, Crashed
<1>4. TaskTypes' /\ Alone' /\ Spots'
  BY <1>1, <1>3, WaitingShape, RestingShape, RestSpot DEF FollowInv, JobsInv, TaskTypes, Alone, Spots, Busy, Crashed
<1>5. task'[Onboard].st = "kept" /\ task[Onboard].st # "kept" => "exhausted" \in oddities'
  BY <1>3, TasksHere DEF ProcessDies, Crashed
<1>6. task[CheckUp].st # "none" => task'[CheckUp].st # "none"
  BY <1>3, TasksHere DEF Crashed
<1>7. AcceptedRecorded'
  BY <1>1, <1>5, <1>6 DEF FollowInv, JobsInv, AcceptedRecorded, OddKept
<1>8. Known' => Known /\ \A r \in Runners : actor[r].pc \notin {"receipt", "count"}
  BY DEF ProcessDies, Known
<1>9. Hands' \subseteq Hands
  BY <1>1, RestingShape DEF Hands, Gating, Gated
<1>10. Known' => Tally'
  BY <1>1, <1>8, <1>9, RoomKept DEF FollowInv, CountInv, Tally
<1> QED BY <1>1, <1>4, <1>7, <1>10 DEF RestInv, JobsInv, CountInv, FollowInv

LEMMA FollowStart == FollowInit => FollowInv
<1> SUFFICES ASSUME FollowInit PROVE FollowInv
  OBVIOUS
<1>1. /\ \A r \in Runners : actor[r] = Resting
      /\ DOMAIN task = Tasks /\ \A j \in Tasks : task[j] = Absent
      /\ receipt = 0 /\ counted = {} /\ \A j \in Touches : reached[j] = 0
  BY RunnersAct DEF FollowInit
<1>2. JobsInv
  BY <1>1, RestingShape, RestSpot, WaitingShape DEF JobsInv, TaskTypes, Alone, Spots, AcceptedRecorded, Busy
<1>3. IsFiniteSet(counted) /\ Cardinality(counted) = 0
  BY <1>1, FS_EmptySet
<1>4. \A r \in Runners : ~ Gated(r)
  BY <1>1, RestingShape DEF Gated
<1>5. counted \cup Hands = counted /\ Room = MaxTouches
  BY <1>1, <1>4, FollowAssumption DEF Hands, Gating, Room, FollowInit, FollowAssumption
<1>6. Tally
  BY <1>1, <1>3, <1>5, FollowAssumption DEF Tally, FollowAssumption
<1> QED BY <1>2, <1>3, <1>6, TouchInit DEF FollowInv, CountInv

LEMMA FollowStep == FollowInv /\ [FollowNext]_followVars => FollowInv'
<1> SUFFICES ASSUME FollowInv, [FollowNext]_followVars PROVE FollowInv'
  OBVIOUS
<1>1. ASSUME \/ \E k \in Turns : Talk(k) \/ CancelOrder(k) \/ \E v \in Hours : BookOrMove(k, v)
             \/ \E v \in Hours : ChangedOutside("active", v) \/ ChangedOutside("ended", v)
             \/ HourPasses \/ CooldownEnds \/ UNCHANGED followVars
      PROVE  RestInv'
  BY <1>1, WorldSteps
<1>2. ASSUME Sweep \/ RunCommand \/ ProcessDies PROVE RestInv'
  BY <1>2, SweepKeeps, RunCommandKeeps, DiesKeeps
<1>3. ASSUME \E a \in Actors : Look(a) \/ Add(a) PROVE RestInv'
  BY <1>3, RunnerLooks, RunnerAdds, CommanderLooks, CommanderAdds DEF Actors
<1>4. ASSUME \E r \in Runners : \/ \E j \in Tasks : FireTask(r, j)
                                \/ Judge(r) \/ Reserve(r) \/ Compose(r) \/ Deliver(r)
                                \/ SaveReceipt(r) \/ MarkSent(r) \/ ScheduleOnboardingCheck(r)
      PROVE  RestInv'
  BY <1>4, FireKeeps, JudgeKeeps, ReserveKeeps, ComposeKeeps, DeliverKeeps, ReceiptKeeps, MarkSentKeeps, CheckKeeps
<1>5. RestInv'
  BY <1>1, <1>2, <1>3, <1>4 DEF FollowNext
<1>6. TouchInv'
  BY TouchStep DEF FollowInv
<1> QED BY <1>5, <1>6 DEF RestInv, FollowInv

\* AcceptedRecorded for any turns, hours, runners and bounds: an onboarding message that the provider
\* accepted ends in the touch ledger as sent and with its check scheduled, however the job is retried,
\* redelivered after a crash or run beside others, unless all attempts failed or the follow-ups were
\* off when the job came back; off only when the check was to be scheduled, they cost no more than it.
THEOREM ReceiptRecorded == FollowSpec => []AcceptedRecorded
<1>1. FollowInv => AcceptedRecorded
  BY DEF FollowInv, JobsInv
<1> QED BY <1>1, FollowStart, FollowStep, PTL DEF FollowSpec

\* Every key was delivered at most once, and what was delivered is counted or with a runner that is
\* about to count it, so it fits in the room.
LEMMA WithinLimit == FollowInv => FrequencyKept
<1> SUFFICES ASSUME FollowInv, Known PROVE Cardinality(Delivered) <= Room
  BY DEF FrequencyKept, Known, Room
<1> DEFINE Keys == {j \in Touches : reached[j] = 1}
           all == counted \cup Hands
           f == [j \in Keys |-> <<j, 1>>]
<1>1. Tally /\ IsFiniteSet(all) /\ Cardinality(all) \in Nat /\ Cardinality(all) <= Room
  BY HandsFinite, FS_Union, FS_CardinalityType DEF FollowInv, CountInv, Tally, HandsBound
<1>2. \A j \in Touches : reached[j] \in {0, 1}
  BY DEF FollowInv, TouchInv, LedgerTypes, TouchOnce
<1>3. \A j \in Touches : \A n \in 1 .. reached[j] : n = 1 /\ j \in Keys
  BY <1>2
<1>4. \A j \in Keys : <<j, 1>> \in Delivered
  BY DEF Delivered
<1>5. \A x \in Delivered : \E j \in Keys : x = <<j, 1>>
  BY <1>3 DEF Delivered
<1>6. Keys \subseteq all
  BY <1>1 DEF Tally, Hands, Gating, Gated
<1> HIDE DEF Keys, all
<1>7. IsFiniteSet(Keys) /\ Cardinality(Keys) <= Cardinality(all) /\ Cardinality(Keys) \in Nat
  BY <1>1, <1>6, FS_Subset, FS_CardinalityType
<1>8. f \in Surjection(Keys, Delivered)
  BY <1>4, <1>5 DEF Surjection
<1>9. IsFiniteSet(Delivered) /\ Cardinality(Delivered) \in Nat /\ Cardinality(Delivered) <= Cardinality(Keys)
  BY <1>7, <1>8, FS_Surjection, FS_CardinalityType
<1>10. Room \in Int
  BY HandsFinite DEF Room, HandsBound
<1> QED BY <1>1, <1>7, <1>9, <1>10

\* FrequencyKept for any turns, hours, runners and bounds: while it is known of every message whether
\* it arrived, no more follow-ups than the limit reach the candidate, and at most one more for each
\* further runner when runners passed the gates beside each other, whatever else fails, crashes or is
\* turned off.
THEOREM LimitKept == FollowSpec => []FrequencyKept
  BY WithinLimit, FollowStart, FollowStep, PTL DEF FollowSpec

-----------------------------------------------------------------------------
(* Who reminds of the interview. *)

Resolves == {Resolve(k) : k \in Turns}
IsResolve(j) == j[1] = "resolve"
IsRemind(j) == j[1] = "remind"
Commands == {<<"activity", k>> : k \in Turns} \cup {Pre(k) : k \in Turns} \cup Resolves

\* The resolutions in the command queue have their place in the queue of follow-ups free.
QueueInv ==
  /\ commands \in Seq(Commands)
  /\ \A i \in 1 .. Len(commands) : IsResolve(commands[i]) =>
       /\ task[commands[i]].st = "none" /\ commands[i][2] <= turn
       /\ \A l \in 1 .. Len(commands) : commands[i] = commands[l] => i = l
  /\ \A k \in Turns : k > turn => task[Resolve(k)].st = "none"

CommanderInv ==
  actor[Commander].pc # "rest" => commands # <<>> /\ IsPre(Head(commands)) /\ IsPre(actor[Commander].add)

\* Runners schedule reminders only, and judge one only when it is due.
CallsInv ==
  /\ \A r \in Runners : actor[r].pc \in {"look", "add"} => IsRemind(actor[r].add)
  /\ \A r \in Runners : actor[r].pc = "judge" /\ IsRemind(actor[r].task) => actor[r].task[2] - 1 <= hour

WorldInv == hour \in Nat /\ turn \in Nat /\ (interview.st = "active" => interview.at \in Hours)

Fine == oddities \cap {"outside", "late", "swept", "again", "unscheduled", "exhausted", "disabled"} = {}

LEMMA DropsIt ==
  ASSUME NEW j, IsResolve(j) \/ IsRemind(j), oddities' = oddities \cup Dropped(j) PROVE ~ Fine'
<1>1. j # Onboard /\ j # CheckUp /\ ~ IsPre(j)
  BY DEF IsResolve, IsRemind, Onboard, CheckUp, IsPre
<1> QED BY <1>1 DEF Dropped, Fine

\* Runner r is about to schedule or send the reminder j, or to decide on it.
Handles(r, j) ==
  \/ actor[r].pc = "judge" /\ (actor[r].task = j \/ actor[r].task \in Resolves)
  \/ actor[r].pc = "look" /\ actor[r].add = j /\ actor[r].task \in Resolves
  \/ actor[r].pc = "add" /\ actor[r].add = j /\ actor[r].task \in Resolves /\ task[j].st = "none"
  \/ actor[r].pc = "reserve" /\ actor[r].task = j

ResolveQueued == \E i \in 1 .. Len(commands) : IsResolve(commands[i])

\* ReminderExpected without the reminders for an earlier hour, which no runner need rely on.
Arranged(j) ==
  \/ ResolveQueued
  \/ \E i \in Resolves \cup {j} : task[i].st = "waiting"
  \/ \E r \in Runners : Handles(r, j)
  \/ touch[j] # "free" \/ OverLimit

Reminded == interview.st = "active" /\ Fine => Arranged(Remind(interview.at))
RemindInv == QueueInv /\ CommanderInv /\ CallsInv /\ WorldInv /\ Reminded

LEMMA RemindGives == WorldInv /\ Reminded => ReminderKept
<1> SUFFICES ASSUME WorldInv, Reminded, interview.st = "active", Fine PROVE ReminderExpected
  BY DEF ReminderKept, Fine
<1> DEFINE j == Remind(interview.at)
<1>0. interview.at \in Hours /\ interview.at \in Nat
  BY FollowAssumption DEF WorldInv, FollowAssumption
<1>1. Arranged(j) /\ interview.at \in Hours /\ interview.at <= interview.at
  BY <1>0 DEF Reminded
<1>2. CASE ResolveQueued
  BY <1>2 DEF ResolveQueued, IsResolve, ReminderExpected
<1>3. CASE \E i \in Resolves \cup {j} : task[i].st = "waiting"
  BY <1>1, <1>3 DEF Resolves, Undecided, ReminderExpected
<1>4. ASSUME NEW r \in Runners, Handles(r, j) PROVE ReminderExpected
  <2>1. actor[r].pc = "judge" /\ actor[r].task = j => Undecided(j)
    BY DEF Undecided
  <2>2. actor[r].pc = "judge" /\ actor[r].task \in Resolves => \E k \in Turns : Undecided(Resolve(k))
    BY DEF Undecided, Resolves
  <2> QED BY <1>1, <1>4, <2>1, <2>2 DEF Handles, ReminderExpected
<1> QED BY <1>1, <1>2, <1>3, <1>4 DEF Arranged, ReminderExpected

-----------------------------------------------------------------------------
(* A step of a runner. *)

LEMMA ResolveHere ==
  /\ Resolves \subseteq Tasks /\ \A k \in Turns : Resolve(k) \in Resolves
  /\ \A i \in Resolves : IsResolve(i) /\ ~ IsRemind(i) /\ ~ IsPre(i) /\ i # Onboard /\ i # CheckUp /\ i \notin Touches
  BY DEF Resolves, Tasks, Touches, Resolve, Pre, Remind, IsResolve, IsRemind, IsPre, Onboard, CheckUp

LEMMA HoursHere == \A i \in Tasks : IsRemind(i) => i[2] \in Nat
<1>1. \A i \in Tasks : IsRemind(i) => \E v \in Hours : i = Remind(v)
  BY DEF Tasks, Touches, IsRemind, Pre, Resolve, Onboard, CheckUp
<1>2. \A v \in Hours : v \in Nat
  BY FollowAssumption DEF FollowAssumption
<1> QED BY <1>1, <1>2 DEF Remind

LEMMA RemindHere ==
  ASSUME WorldInv, interview.st = "active"
  PROVE  /\ Remind(interview.at) \in Touches /\ Remind(interview.at) \in Tasks /\ IsRemind(Remind(interview.at))
         /\ ~ IsPre(Remind(interview.at)) /\ Remind(interview.at)[2] = interview.at
         /\ Remind(interview.at) # Onboard /\ Remind(interview.at) # CheckUp
  BY DEF WorldInv, Tasks, Touches, Remind, IsRemind, IsPre, Onboard, CheckUp

\* The other reasons to expect the reminder stay.
LEMMA ArrangedStays ==
  ASSUME NEW r \in Runners, NEW j, Arranged(j), Others(r), UNCHANGED commands,
         touch[j] # "free" => touch'[j] # "free", OverLimit => OverLimit',
         \A i \in Resolves \cup {j} : task[i].st = "waiting" => task'[i].st = "waiting" \/ Arranged(j)',
         task[j].st = "none" => task'[j].st \in {"none", "waiting"},
         Handles(r, j) => Arranged(j)'
  PROVE  Arranged(j)'
<1>1. ResolveQueued => ResolveQueued'
  BY DEF ResolveQueued
<1>2. \A s \in Runners : s # r /\ Handles(s, j) => Handles(s, j)' \/ task'[j].st = "waiting"
  BY DEF Handles, Others
<1> QED BY <1>1, <1>2 DEF Arranged

LEMMA LimitStays ==
  ASSUME CountInv, CountInv', counted \subseteq counted', OverLimit PROVE OverLimit'
<1>1. IsFiniteSet(counted) /\ IsFiniteSet(counted')
  BY DEF CountInv
<1>2. Cardinality(counted) <= Cardinality(counted') /\ Cardinality(counted) \in Nat /\ Cardinality(counted') \in Nat
  BY <1>1, FS_Subset, FS_CardinalityType
<1> QED BY <1>2, FollowAssumption DEF OverLimit, FollowAssumption

\* What a runner's step leaves alone.
LEMMA RunnerStep ==
  ASSUME FollowInv, RemindInv, NEW r \in Runners, UNCHANGED <<world, commands>>, Others(r), oddities \subseteq oddities',
         \A i \in Resolves : task[i].st = "none" => task'[i].st = "none",
         actor'[r].pc \in {"look", "add"} => IsRemind(actor'[r].add),
         actor'[r].pc = "judge" /\ IsRemind(actor'[r].task) => actor'[r].task[2] - 1 <= hour,
         interview.st = "active" /\ Fine /\ Fine' /\ Arranged(Remind(interview.at)) => Arranged(Remind(interview.at))'
  PROVE  RemindInv'
<1>1. \A i \in 1 .. Len(commands) : IsResolve(commands[i]) => commands[i] \in Resolves
  <2> SUFFICES ASSUME NEW i \in 1 .. Len(commands), IsResolve(commands[i]) PROVE commands[i] \in Resolves
    OBVIOUS
  <2>1. commands[i] \in Commands
    BY DEF RemindInv, QueueInv
  <2> QED BY <2>1 DEF Commands, IsResolve, Pre
<1>2. QueueInv'
  BY <1>1, ResolveHere DEF RemindInv, QueueInv, world
<1>3. CommanderInv'
  BY DEF RemindInv, CommanderInv, Others
<1>4. CallsInv'
  BY DEF RemindInv, CallsInv, Others, world
<1>5. WorldInv'
  BY DEF RemindInv, WorldInv, world
<1>6. Fine' => Fine
  BY DEF Fine
<1>7. Reminded'
  BY <1>6 DEF RemindInv, Reminded, world
<1> QED BY <1>2, <1>3, <1>4, <1>5, <1>7 DEF RemindInv

-----------------------------------------------------------------------------
(* The steps of a runner that reminds nobody, and of one that may. *)

LEMMA OwnFinish ==
  ASSUME FollowInv, NEW r \in Runners, Busy(r), Finish(r)
  PROVE  /\ UNCHANGED commands /\ Others(r) /\ actor'[r] = Resting
         /\ \A i \in Tasks : i # actor[r].task => task'[i] = task[i]
  BY RunnersAct, OthersRest DEF Finish, FollowInv, TouchInv, JobsInv, TaskTypes

LEMMA OwnFail ==
  ASSUME FollowInv, NEW r \in Runners, NEW odd, Busy(r), Fail(r, odd)
  PROVE  /\ UNCHANGED commands /\ Others(r) /\ actor'[r] = Resting /\ oddities \subseteq oddities'
         /\ \A i \in Tasks : i # actor[r].task => task'[i] = task[i]
         /\ task'[actor[r].task].st = "waiting" \/ "exhausted" \in oddities'
<1> DEFINE j == actor[r].task
           last == task[j].tries + 1 >= MaxTries
<1>1. /\ Rest(r) /\ task' = [task EXCEPT ![j].st = IF last THEN "kept" ELSE "waiting", ![j].tries = @ + 1]
      /\ oddities' = oddities \cup odd \cup (IF last THEN {"exhausted"} ELSE {}) /\ UNCHANGED commands
  BY RunnersAct DEF Fail
<1>2. j \in Tasks
  BY OwnJob DEF FollowInv
<1> HIDE DEF last
<1>3. task'[j].st = (IF last THEN "kept" ELSE "waiting") /\ \A i \in Tasks \ {j} : task'[i] = task[i]
  BY <1>1, <1>2 DEF FollowInv, JobsInv, TaskTypes, TaskFields
<1>4. Others(r) /\ actor'[r] = Resting
  BY <1>1, OthersRest DEF FollowInv, TouchInv
<1> QED BY <1>1, <1>3, <1>4

\* A step that changes no other job, takes no slot back and leaves the call in no place that counts.
LEMMA QuietStep ==
  ASSUME FollowInv, FollowInv', RemindInv, NEW r \in Runners, Busy(r), UNCHANGED <<world, commands>>, Others(r),
         oddities \subseteq oddities', counted \subseteq counted',
         \A i \in Tasks : i # actor[r].task /\ i # CheckUp => task'[i] = task[i],
         \A i \in Touches : touch[i] # "free" => touch'[i] # "free",
         actor'[r].pc \in {"look", "add"} => IsRemind(actor'[r].add),
         actor'[r].pc # "judge",
         interview.st = "active" /\ Fine' /\ Handles(r, Remind(interview.at)) => Arranged(Remind(interview.at))'
  PROVE  RemindInv'
<1>1. actor[r].task \in Tasks /\ task[actor[r].task].st = "active"
  BY OwnJob DEF FollowInv
<1>2. \A i \in Tasks : i # CheckUp /\ task[i].st \in {"none", "waiting"} => task'[i] = task[i]
  BY <1>1
<1>3. ASSUME interview.st = "active", Fine', Arranged(Remind(interview.at)) PROVE Arranged(Remind(interview.at))'
  <2> DEFINE j == Remind(interview.at)
  <2>1. interview' = interview /\ j \in Touches /\ j \in Tasks /\ j # CheckUp
    BY <1>3, RemindHere DEF RemindInv, world
  <2>2. OverLimit => OverLimit'
    BY LimitStays DEF FollowInv
  <2>3. \A i \in Resolves \cup {j} : task[i].st = "waiting" => task'[i].st = "waiting"
    BY <1>2, <2>1, ResolveHere
  <2>4. task[j].st = "none" => task'[j].st = "none"
    BY <1>2, <2>1
  <2>5. touch[j] # "free" => touch'[j] # "free"
    BY <2>1
  <2>6. Arranged(j) /\ (Handles(r, j) => Arranged(j)')
    BY <1>3
  <2>7. j' = j
    BY <2>1
  <2> HIDE DEF j
  <2>8. Arranged(j)'
    BY <2>2, <2>3, <2>4, <2>5, <2>6, <2>7, ArrangedStays
  <2> QED BY <2>8 DEF j
<1> QED BY <1>2, <1>3, ResolveHere, RunnerStep

LEMMA MarkStays ==
  ASSUME LedgerTypes, NEW r \in Runners, NEW s \in {"reserved", "attempted", "sent", "failed", "unknown"},
         Mark(r, s) \/ UNCHANGED touch
  PROVE  \A i \in Touches : touch[i] # "free" => touch'[i] # "free"
  BY DEF LedgerTypes, Mark

LEMMA NotHandling ==
  ASSUME NEW r \in Runners, actor[r].pc \in {"compose", "deliver", "receipt", "count", "recount", "check"}, NEW j
  PROVE  ~ Handles(r, j)
  BY DEF Handles

\* After the gates and the slot, nothing of a call matters for the reminder.
LEMMA SentAside ==
  ASSUME FollowInv, FollowInv', RemindInv, NEW r \in Runners, NEW odd,
         Finish(r) \/ Fail(r, odd) \/ (UNCHANGED <<task, commands>> /\ \E p \in {"deliver", "count", "check"} : Goes(r, p)),
         actor[r].pc \in {"compose", "deliver", "receipt", "count", "recount", "check"},
         UNCHANGED world, oddities \subseteq oddities', counted \subseteq counted',
         UNCHANGED touch \/ \E s \in {"reserved", "attempted", "sent", "failed", "unknown"} : Mark(r, s)
  PROVE  RemindInv'
<1>1. Busy(r)
  BY DEF Busy
<1>2. \A i \in Touches : touch[i] # "free" => touch'[i] # "free"
  BY MarkStays DEF FollowInv, TouchInv
<1>3. /\ UNCHANGED commands /\ Others(r) /\ \A i \in Tasks : i # actor[r].task => task'[i] = task[i]
      /\ actor'[r].pc \in {"rest", "deliver", "count", "check"}
  <2>1. CASE Finish(r)
    BY <1>1, <2>1, OwnFinish, RestingShape
  <2>2. CASE Fail(r, odd)
    BY <1>1, <2>2, OwnFail, RestingShape
  <2>3. CASE UNCHANGED <<task, commands>> /\ \E p \in {"deliver", "count", "check"} : Goes(r, p)
    BY <2>3, OthersGo DEF FollowInv, TouchInv
  <2> QED BY <2>1, <2>2, <2>3
<1> QED BY <1>1, <1>2, <1>3, NotHandling, QuietStep

LEMMA LookReminds == ASSUME FollowInv, FollowInv', RemindInv, NEW r \in Runners, Look(r) PROVE RemindInv'
<1> DEFINE own == actor[r].task
           j == actor[r].add
<1>1. /\ UNCHANGED <<world, touch, counted>> /\ actor[r].pc = "look" /\ Busy(r) /\ IsRemind(j) /\ ~ IsPre(j)
      /\ own \in Tasks /\ task[own].st = "active" /\ oddities \subseteq oddities'
  BY OwnJob DEF Look, ledger, Busy, RemindInv, CallsInv, IsPre, IsRemind, FollowInv
<1>2. CASE task[j].st # "none" /\ Finish(r) /\ oddities' = oddities \cup GivenWay(j)
  <2>1. /\ UNCHANGED commands /\ Others(r) /\ actor'[r].pc = "rest"
        /\ \A i \in Tasks : i # own => task'[i] = task[i]
    BY <1>1, <1>2, OwnFinish, RestingShape
  <2>2. ASSUME interview.st = "active", Fine', Handles(r, Remind(interview.at)) PROVE Arranged(Remind(interview.at))'
    <3>1. j = Remind(interview.at) /\ j \in Tasks /\ own \in Resolves /\ interview' = interview
      BY <1>1, <2>2, RemindHere DEF Handles, RemindInv, world
    <3>2. task[j].st \in {"waiting", "active", "kept"}
      BY <1>2, <3>1 DEF FollowInv, JobsInv, TaskTypes, States
    <3>3. CASE task[j].st = "waiting"
      <4>1. task'[j].st = "waiting"
        BY <1>1, <2>1, <3>1, <3>3
      <4> QED BY <3>1, <4>1 DEF Arranged
    <3>4. CASE task[j].st \in {"active", "kept"}
      <4>1. touch[j] = "free" => "again" \in oddities'
        BY <1>1, <1>2, <3>4 DEF GivenWay, IsRemind
      <4>2. touch'[j] # "free"
        BY <1>1, <2>2, <4>1 DEF Fine
      <4> QED BY <3>1, <4>2 DEF Arranged
    <3> QED BY <3>2, <3>3, <3>4
  <2> QED BY <1>1, <2>1, <2>2, QuietStep
<1>3. CASE /\ Goes(r, "add") /\ UNCHANGED commands
           /\ task' = [i \in Tasks |-> IF i \in Removes(j) THEN Absent ELSE task[i]]
           /\ oddities' = oddities \cup Swept(j) \cup Late(j) \cup GivenWay(j)
  <2>1. Others(r) /\ actor'[r].pc = "add" /\ actor'[r].task = own /\ actor'[r].add = j
    BY <1>3, OthersGo DEF FollowInv, TouchInv
  <2>2. \A i \in Removes(j) : i \in Tasks /\ task[i].st = "waiting" /\ i # j
    BY DEF Removes
  <2>3. \A i \in Tasks : i \notin Removes(j) => task'[i] = task[i]
    BY <1>3
  <2>4. \A i \in Resolves : task[i].st = "none" => task'[i].st = "none"
    BY <2>2, <2>3, ResolveHere
  <2>5. ASSUME interview.st = "active", Fine', Arranged(Remind(interview.at)) PROVE Arranged(Remind(interview.at))'
    <3>1. j = Remind(interview.at)
      BY <1>1, <1>3, <2>5 DEF Fine, Late, Stale, IsRemind
    <3>2. interview' = interview /\ j \in Tasks /\ j \in Touches
      BY <1>1, <2>5, <3>1, RemindHere DEF RemindInv, world
    <3>3. \A i \in Resolves : i \notin Removes(j)
      BY <1>3, <2>5 DEF Fine, Swept, Resolves
    <3>4. task'[j] = task[j] /\ \A i \in Resolves : task'[i] = task[i]
      BY <2>2, <2>3, <3>2, <3>3, ResolveHere
    <3>5. ASSUME Handles(r, j) PROVE Arranged(j)'
      <4>1. own \in Resolves
        BY <1>1, <3>5 DEF Handles
      <4>2. task[j].st \in {"none", "waiting", "active", "kept"}
        BY <3>2 DEF FollowInv, JobsInv, TaskTypes, States
      <4>3. CASE task[j].st = "none"
        <5>1. actor'[r].pc = "add" /\ actor'[r].add = j /\ actor'[r].task \in Resolves /\ task'[j].st = "none"
          BY <2>1, <3>4, <4>1, <4>3
        <5>2. j' = j
          BY <2>1
        <5> HIDE DEF j
        <5>3. Handles(r, j)'
          BY <5>1, <5>2 DEF Handles
        <5> QED BY <5>3 DEF Arranged
      <4>4. CASE task[j].st = "waiting"
        <5>1. task'[j].st = "waiting" /\ j' = j
          BY <2>1, <3>4, <4>4
        <5> HIDE DEF j
        <5> QED BY <5>1 DEF Arranged
      <4>5. CASE task[j].st \in {"active", "kept"}
        <5>1. touch[j] = "free" => "again" \in oddities'
          BY <1>1, <1>3, <4>5 DEF GivenWay, IsRemind
        <5>2. touch'[j] # "free" /\ j' = j
          BY <1>1, <2>1, <2>5, <5>1 DEF Fine
        <5> HIDE DEF j
        <5> QED BY <5>2 DEF Arranged
      <4> QED BY <4>2, <4>3, <4>4, <4>5
    <3>6. j' = j /\ Remind(interview.at)' = Remind(interview.at)
      BY <2>1, <3>2
    <3>7. OverLimit => OverLimit'
      BY <1>1, LimitStays DEF FollowInv
    <3> HIDE DEF j
    <3>8. Arranged(j)'
      BY <1>1, <1>3, <2>1, <2>5, <3>1, <3>4, <3>5, <3>6, <3>7, ArrangedStays
    <3> QED BY <3>1, <3>6, <3>8
  <2> QED BY <1>1, <1>3, <2>1, <2>4, <2>5, RunnerStep
<1>4. CASE task[j].st = "none" /\ Goes(r, "add") /\ UNCHANGED <<task, oddities, commands>>
  <2>1. Others(r) /\ actor'[r].pc = "add" /\ actor'[r].task = own /\ actor'[r].add = j
    BY <1>4, OthersGo DEF FollowInv, TouchInv
  <2>2. ASSUME interview.st = "active", Fine', Handles(r, Remind(interview.at)) PROVE Arranged(Remind(interview.at))'
    <3>1. j = Remind(interview.at) /\ own \in Resolves /\ interview' = interview
      BY <1>1, <2>2 DEF Handles, world
    <3>2. actor'[r].pc = "add" /\ actor'[r].add = j /\ actor'[r].task \in Resolves /\ task'[j].st = "none" /\ j' = j
      BY <1>4, <2>1, <3>1
    <3> HIDE DEF j
    <3>3. Handles(r, j)'
      BY <3>2 DEF Handles
    <3> QED BY <3>1, <3>2, <3>3 DEF Arranged
  <2> QED BY <1>1, <1>4, <2>1, <2>2, QuietStep
<1>5. CASE Finish(r) /\ oddities' = oddities \cup Dropped(j)
  <2>1. /\ UNCHANGED commands /\ Others(r) /\ actor'[r].pc = "rest" /\ ~ Fine'
        /\ \A i \in Tasks : i # own => task'[i] = task[i]
    BY <1>1, <1>5, OwnFinish, RestingShape, DropsIt
  <2> QED BY <1>1, <2>1, QuietStep
<1>6. ~ Blocked(j)
  BY <1>1 DEF Blocked
<1> QED BY <1>2, <1>3, <1>4, <1>5, <1>6 DEF Look

LEMMA AddReminds == ASSUME FollowInv, FollowInv', RemindInv, NEW r \in Runners, Add(r) PROVE RemindInv'
<1> DEFINE own == actor[r].task
           j == actor[r].add
           added == IF task[j].st = "none" THEN [task EXCEPT ![j] = Waiting] ELSE task
<1>1. /\ UNCHANGED <<world, touch, counted>> /\ actor[r].pc = "add" /\ Busy(r) /\ IsRemind(j)
      /\ own \in Tasks /\ task[own].st = "active" /\ r # Commander
  BY OwnJob, RunnersAct DEF Add, ledger, Busy, RemindInv, CallsInv, FollowInv
<1>2. CASE Finish(r) /\ Odd("unscheduled")
  <2>1. /\ UNCHANGED commands /\ Others(r) /\ actor'[r].pc = "rest" /\ oddities \subseteq oddities' /\ ~ Fine'
        /\ \A i \in Tasks : i # own => task'[i] = task[i]
    BY <1>1, <1>2, OwnFinish, RestingShape DEF Odd, Fine
  <2> QED BY <1>1, <2>1, QuietStep
<1>3. CASE /\ Rest(r) /\ task' = [added EXCEPT ![own].st = "kept"] /\ UNCHANGED commands
           /\ oddities' = oddities \cup Late(j)
  <2>1. Others(r) /\ actor'[r].pc = "rest"
    BY <1>3, OthersRest, RestingShape DEF FollowInv, TouchInv
  <2>2. /\ DOMAIN added = Tasks
        /\ \A i \in Tasks : i # j => added[i] = task[i]
        /\ j \in Tasks => added[j] = IF task[j].st = "none" THEN Waiting ELSE task[j]
    BY DEF FollowInv, JobsInv, TaskTypes
  <2> HIDE DEF added
  <2>3. \A i \in Tasks : i # own => task'[i] = added[i]
    BY <1>3, <2>2
  <2>4. \A i \in Resolves : task[i].st = "none" => task'[i].st = "none"
    BY <1>1, <2>2, <2>3, ResolveHere
  <2>5. \A i \in Resolves : task[i].st = "waiting" => task'[i].st = "waiting"
    BY <1>1, <2>2, <2>3, ResolveHere
  <2>6. ASSUME interview.st = "active", Fine', Arranged(Remind(interview.at)) PROVE Arranged(Remind(interview.at))'
    <3>1. j = Remind(interview.at) /\ interview' = interview /\ j \in Tasks
      BY <1>1, <1>3, <2>6, RemindHere DEF Fine, Late, Stale, IsRemind, RemindInv, world
    <3>2. task[j].st = "none" => task'[j].st = "waiting"
      BY <1>1, <2>2, <2>3, <3>1, WaitingShape
    <3>3. task[j].st = "waiting" => task'[j].st = "waiting"
      BY <1>1, <2>2, <2>3, <3>1
    <3>4. OverLimit => OverLimit'
      BY <1>1, LimitStays DEF FollowInv
    <3> DEFINE h == Remind(interview.at)
    <3>5. h = j /\ h' = h
      BY <3>1
    <3>6. Handles(r, h) => task'[h].st = "waiting"
      BY <1>1, <3>2, <3>5 DEF Handles
    <3>7. task[h].st = "none" => task'[h].st = "waiting"
      BY <3>2, <3>5
    <3>8. task[h].st = "waiting" => task'[h].st = "waiting"
      BY <3>3, <3>5
    <3>9. Arranged(h)
      BY <2>6
    <3> HIDE DEF j, h
    <3>10. task'[h].st = "waiting" => Arranged(h)'
      BY <3>5 DEF Arranged
    <3>11. Arranged(h)'
      BY <1>1, <1>3, <2>1, <2>5, <3>4, <3>5, <3>6, <3>7, <3>8, <3>9, <3>10, ArrangedStays
    <3> QED BY <3>11 DEF h
  <2> QED BY <1>1, <1>3, <2>1, <2>4, <2>6, RunnerStep
<1> QED BY <1>1, <1>2, <1>3 DEF Add

LEMMA FireReminds ==
  ASSUME FollowInv, FollowInv', RemindInv, NEW r \in Runners, NEW i \in Tasks, FireTask(r, i) PROVE RemindInv'
<1> DEFINE v == IF i = Onboard /\ receipt # 0
                THEN [Resting EXCEPT !.pc = "recount", !.task = i, !.since = receipt]
                ELSE [Resting EXCEPT !.pc = "judge", !.task = i, !.since = turn]
<1>1. /\ UNCHANGED <<world, commands, touch, counted>> /\ oddities \subseteq oddities'
      /\ actor[r].pc = "rest" /\ task[i].st = "waiting" /\ hour >= DueAt(i)
      /\ \/ UNCHANGED actor /\ oddities' = oddities \cup Dropped(i)
         \/ actor' = [actor EXCEPT ![r] = v]
      /\ \E st \in {"kept", "active"} : task' = [task EXCEPT ![i].st = st]
  BY DEF FireTask, ledger
<1>2. v.task = i /\ v.pc = IF i = Onboard /\ receipt # 0 THEN "recount" ELSE "judge"
  BY DEF Resting
<1> HIDE DEF v
<1>3. Others(r) /\ (actor'[r] = v \/ (actor'[r].pc = "rest" /\ oddities' = oddities \cup Dropped(i)))
  BY <1>1, RunnersAct DEF FollowInv, TouchInv, LedgerTypes, Others
<1>4. \A l \in Tasks : l # i => task'[l] = task[l]
  BY <1>1 DEF FollowInv, JobsInv, TaskTypes
<1>5. IsRemind(i) => i[2] - 1 <= hour
  BY <1>1, HoursHere DEF DueAt, IsRemind, RemindInv, WorldInv
<1>6. ASSUME interview.st = "active", Fine', Arranged(Remind(interview.at)) PROVE Arranged(Remind(interview.at))'
  <2> DEFINE j == Remind(interview.at)
  <2>1. j' = j /\ j \in Tasks /\ j # Onboard /\ Arranged(j)
    BY <1>1, <1>6, RemindHere DEF RemindInv, world
  <2> HIDE DEF j
  <2>2. ~ Handles(r, j)
    BY <1>1 DEF Handles
  <2>3. i \in Resolves \cup {j} => Handles(r, j)'
    <3>1. i \in Resolves \cup {j} => actor'[r] = v
      BY <1>3, <1>6, <2>1, DropsIt, ResolveHere, RemindHere DEF RemindInv, j
    <3> QED BY <1>2, <2>1, <3>1, ResolveHere DEF Handles
  <2>4. i \in Resolves \cup {j} => Arranged(j)'
    BY <2>1, <2>3 DEF Arranged
  <2>5. \A l \in Resolves \cup {j} : task[l].st = "waiting" => task'[l].st = "waiting" \/ Arranged(j)'
    BY <1>4, <2>1, <2>4, ResolveHere
  <2>6. task[j].st = "none" => task'[j].st = "none"
    BY <1>1, <1>4, <2>1
  <2>7. touch'[j] = touch[j] /\ (OverLimit => OverLimit')
    BY <1>1 DEF OverLimit
  <2>8. Arranged(j)'
    BY <1>1, <1>3, <2>1, <2>2, <2>5, <2>6, <2>7, ArrangedStays
  <2> QED BY <2>8 DEF j
<1>7. \A l \in Resolves : task[l].st = "none" => task'[l].st = "none"
  BY <1>1, <1>4, ResolveHere
<1> QED BY <1>1, <1>2, <1>3, <1>5, <1>6, <1>7, RunnerStep

LEMMA JudgeReminds == ASSUME FollowInv, FollowInv', RemindInv, NEW r \in Runners, Judge(r) PROVE RemindInv'
<1> DEFINE own == actor[r].task
           h == Remind(interview.at)
           v == [actor[r] EXCEPT !.pc = "look", !.add = h]
<1>1. /\ UNCHANGED <<world, touch, counted>> /\ actor[r].pc = "judge" /\ Busy(r)
      /\ own \in Tasks /\ task[own].st = "active" /\ oddities \subseteq oddities'
  BY OwnJob, RunnersAct DEF Judge, Gate, ledger, Busy, FollowInv, Fail
<1>2. h' = h /\ (Handles(r, h) => own = h \/ own \in Resolves) /\ (OverLimit => OverLimit')
  BY <1>1 DEF Handles, world, OverLimit
<1>3. CASE Fail(r, {})
  <2>1. /\ UNCHANGED commands /\ Others(r) /\ actor'[r].pc = "rest" /\ \A i \in Tasks : i # own => task'[i] = task[i]
        /\ task'[own].st = "waiting" \/ "exhausted" \in oddities'
    BY <1>1, <1>3, OwnFail, RestingShape
  <2>2. ASSUME Fine', Handles(r, h) PROVE Arranged(h)'
    <3>1. own \in Resolves \cup {h} /\ task'[own].st = "waiting"
      BY <1>2, <2>1, <2>2 DEF Fine
    <3> HIDE DEF h, own
    <3> QED BY <1>2, <3>1 DEF Arranged
  <2> QED BY <1>1, <2>1, <2>2, QuietStep
<1>4. CASE Finish(r) /\ (interview.st = "active" /\ Fine' => OverLimit \/ own \notin Resolves \cup {h})
  <2>1. UNCHANGED commands /\ Others(r) /\ actor'[r].pc = "rest" /\ \A i \in Tasks : i # own => task'[i] = task[i]
    BY <1>1, <1>4, OwnFinish, RestingShape
  <2>2. ASSUME interview.st = "active", Fine', Handles(r, h) PROVE Arranged(h)'
    <3> HIDE DEF h, own
    <3> QED BY <1>2, <1>4, <2>2 DEF Arranged
  <2> QED BY <1>1, <2>1, <2>2, QuietStep
<1>5. CASE Goes(r, "reserve") /\ UNCHANGED <<task, commands>> /\ own \notin Resolves
  <2>1. Others(r) /\ actor'[r].pc = "reserve" /\ actor'[r].task = own
    BY <1>5, OthersGo DEF FollowInv, TouchInv
  <2>2. ASSUME Handles(r, h) PROVE Arranged(h)'
    <3> HIDE DEF h
    <3>1. Handles(r, h)'
      BY <1>2, <1>5, <2>1, <2>2 DEF Handles
    <3> QED BY <1>2, <3>1 DEF Arranged
  <2> QED BY <1>1, <1>5, <2>1, <2>2, QuietStep
<1>6. CASE Schedules(r, h) /\ (own \in Resolves \/ own # h)
  <2>1. DOMAIN actor[r] = Fields
    BY RunnersAct DEF FollowInv, TouchInv, LedgerTypes
  <2>2. v.pc = "look" /\ v.task = own /\ v.add = h /\ actor' = [actor EXCEPT ![r] = v] /\ UNCHANGED <<task, commands>>
    BY <1>6, <2>1 DEF Schedules, Fields
  <2>3. IsRemind(h)
    BY DEF Remind, IsRemind
  <2> HIDE DEF v
  <2>4. Others(r) /\ actor'[r] = v
    BY <2>2, RunnersAct DEF FollowInv, TouchInv, LedgerTypes, Others
  <2>5. ASSUME Handles(r, h) PROVE Arranged(h)'
    <3> HIDE DEF h
    <3>1. own \in Resolves
      BY <1>2, <1>6, <2>5
    <3>2. Handles(r, h)'
      BY <1>2, <2>2, <2>4, <3>1 DEF Handles
    <3> QED BY <1>2, <3>2 DEF Arranged
  <2> QED BY <1>1, <2>2, <2>3, <2>4, <2>5, QuietStep
<1>7. IsPre(own) \/ own = Onboard \/ own = CheckUp => ~ IsRemind(own) /\ own \notin Resolves
  <2>1. IsPre(own) => ~ IsRemind(own) /\ own \notin Resolves
    BY ResolveHere DEF IsPre, IsRemind
  <2>2. Onboard \notin Resolves /\ CheckUp \notin Resolves
    BY ResolveHere
  <2>3. ~ IsRemind(Onboard) /\ ~ IsRemind(CheckUp)
    BY DEF Onboard, CheckUp, IsRemind
  <2> QED BY <2>1, <2>2, <2>3
<1>8. IsRemind(h) /\ (IsRemind(own) => own \notin Resolves) /\ (own[1] = "resolve" => own # h)
  BY ResolveHere DEF Remind, IsRemind
<1>9. IsRemind(own) /\ interview.st = "active" /\ interview.at - 1 > hour => own # h
  <2>1. IsRemind(own) => own[2] - 1 <= hour
    BY <1>1 DEF RemindInv, CallsInv
  <2>2. h[2] = interview.at
    BY DEF Remind
  <2>3. interview.st = "active" => interview.at \in Nat
    BY FollowAssumption DEF RemindInv, WorldInv, FollowAssumption
  <2> QED BY <2>1, <2>2, <2>3 DEF RemindInv, WorldInv
<1>10. Gate(r) /\ own \notin Resolves => \/ Goes(r, "reserve") /\ UNCHANGED <<task, commands>>
                                         \/ Finish(r) /\ (OverLimit \/ ~ IsRemind(own))
  BY DEF Gate, IsRemind
<1>11. CASE IsPre(own) /\ (Gate(r) \/ Finish(r))
  BY <1>4, <1>5, <1>7, <1>8, <1>10, <1>11
<1>12. CASE own[1] = "resolve" /\ IF interview.st = "active" THEN Schedules(r, Remind(interview.at)) ELSE Finish(r)
  BY <1>4, <1>6, <1>8, <1>12
<1>13. CASE own[1] = "remind" /\ \/ interview.st = "active" /\ interview.at - 1 > hour /\ Schedules(r, Remind(interview.at))
                                 \/ Gate(r)
                                 \/ interview.st # "active" /\ Finish(r)
  BY <1>4, <1>5, <1>6, <1>8, <1>9, <1>10, <1>13 DEF IsRemind
<1>14. CASE (own = Onboard \/ own = CheckUp) /\ (Gate(r) \/ Finish(r))
  BY <1>4, <1>5, <1>7, <1>8, <1>10, <1>14
<1>15. CASE own \in Touches /\ Finish(r) /\ oddities' = oddities \cup Dropped(own)
  <2>1. own \notin Resolves
    BY <1>15, ResolveHere
  <2>2. own = h => ~ Fine'
    BY <1>8, <1>15, DropsIt
  <2> QED BY <1>4, <1>15, <2>1, <2>2
<1>16. Judge(r) => \/ own \in Touches /\ Finish(r) /\ oddities' = oddities \cup Dropped(own)
                   \/ IsPre(own) /\ (Gate(r) \/ Finish(r))
                   \/ own[1] = "resolve" /\ IF interview.st = "active" THEN Schedules(r, Remind(interview.at)) ELSE Finish(r)
                   \/ own[1] = "remind" /\ \/ interview.st = "active" /\ interview.at - 1 > hour /\ Schedules(r, Remind(interview.at))
                                           \/ Gate(r)
                                           \/ interview.st # "active" /\ Finish(r)
                   \/ (own = Onboard \/ own = CheckUp) /\ (Gate(r) \/ Finish(r))
                   \/ Fail(r, {})
  BY DEF Judge
<1> QED BY <1>3, <1>11, <1>12, <1>13, <1>14, <1>15, <1>16

LEMMA ReserveReminds == ASSUME FollowInv, FollowInv', RemindInv, NEW r \in Runners, Reserve(r) PROVE RemindInv'
<1> DEFINE own == actor[r].task
           h == Remind(interview.at)
<1>1. /\ UNCHANGED <<world, commands, counted>> /\ actor[r].pc = "reserve" /\ Busy(r)
      /\ own \in Tasks /\ task[own].st = "active" /\ oddities \subseteq oddities'
      /\ UNCHANGED touch \/ Mark(r, "reserved")
  BY OwnJob, RunnersAct DEF Reserve, Busy, FollowInv, Fail, Finish
<1>2. \A i \in Touches : touch[i] # "free" => touch'[i] # "free"
  BY <1>1, MarkStays DEF FollowInv, TouchInv
<1>3. h' = h /\ (Handles(r, h) => own = h) /\ (interview.st = "active" => h \in Touches)
  BY <1>1, RemindHere DEF Handles, world, RemindInv
<1>4. CASE Fail(r, {})
  <2>1. /\ Others(r) /\ actor'[r].pc = "rest" /\ \A i \in Tasks : i # own => task'[i] = task[i]
        /\ task'[own].st = "waiting" \/ "exhausted" \in oddities'
    BY <1>1, <1>4, OwnFail, RestingShape
  <2>2. ASSUME Fine', Handles(r, h) PROVE Arranged(h)'
    <3>1. own = h /\ task'[own].st = "waiting"
      BY <1>3, <2>1, <2>2 DEF Fine
    <3> HIDE DEF h, own
    <3> QED BY <1>3, <3>1 DEF Arranged
  <2> QED BY <1>1, <1>2, <2>1, <2>2, QuietStep
<1>5. CASE \/ Goes(r, "compose") /\ UNCHANGED task /\ Mark(r, "reserved")
           \/ Finish(r) /\ UNCHANGED touch /\ touch[own] # "free"
  <2>1. Others(r) /\ actor'[r].pc \in {"rest", "compose"} /\ \A i \in Tasks : i # own => task'[i] = task[i]
    BY <1>1, <1>5, OwnFinish, RestingShape, OthersGo DEF FollowInv, TouchInv
  <2>2. ASSUME interview.st = "active", Handles(r, h) PROVE Arranged(h)'
    <3>1. touch'[h] # "free"
      BY <1>3, <1>5, <2>2 DEF Mark, FollowInv, TouchInv, LedgerTypes
    <3> HIDE DEF h
    <3> QED BY <1>3, <3>1 DEF Arranged
  <2> QED BY <1>1, <1>2, <2>1, <2>2, QuietStep
<1> QED BY <1>1, <1>4, <1>5 DEF Reserve, Reservable

LEMMA FailGrows ==
  ASSUME NEW r \in Runners, NEW odd, Fail(r, odd) PROVE oddities \subseteq oddities'
  BY RunnersAct DEF Fail

LEMMA ComposeReminds == ASSUME FollowInv, FollowInv', RemindInv, NEW r \in Runners, Compose(r) PROVE RemindInv'
<1>1. /\ UNCHANGED <<world, counted>> /\ actor[r].pc = "compose" /\ oddities \subseteq oddities'
      /\ UNCHANGED touch \/ \E s \in {"reserved", "attempted", "sent", "failed", "unknown"} : Mark(r, s)
  BY FailGrows DEF Compose
<1>2. Finish(r) \/ Fail(r, {}) \/ (UNCHANGED <<task, commands>> /\ \E p \in {"deliver", "count", "check"} : Goes(r, p))
  BY DEF Compose
<1> QED BY <1>1, <1>2, SentAside

LEMMA DeliverReminds == ASSUME FollowInv, FollowInv', RemindInv, NEW r \in Runners, Deliver(r) PROVE RemindInv'
<1> DEFINE v == IF actor[r].task = Onboard THEN [actor[r] EXCEPT !.pc = "receipt", !.since = turn]
                ELSE [actor[r] EXCEPT !.pc = "count"]
<1>1. /\ UNCHANGED <<world, counted>> /\ actor[r].pc = "deliver" /\ Busy(r) /\ oddities \subseteq oddities'
      /\ \E s \in {"reserved", "attempted", "sent", "failed", "unknown"} : Mark(r, s)
  BY FailGrows DEF Deliver, Busy
<1>2. CASE Finish(r) \/ Fail(r, {"uncounted"})
  BY <1>1, <1>2, SentAside
<1>3. CASE actor' = [actor EXCEPT ![r] = v] /\ UNCHANGED <<task, commands>>
  <2>1. DOMAIN actor[r] = Fields
    BY RunnersAct DEF FollowInv, TouchInv, LedgerTypes
  <2>2. v.pc \in {"receipt", "count"}
    BY <2>1 DEF Fields
  <2> HIDE DEF v
  <2>3. Others(r) /\ actor'[r] = v
    BY <1>3, RunnersAct DEF FollowInv, TouchInv, LedgerTypes, Others
  <2>4. \A i \in Touches : touch[i] # "free" => touch'[i] # "free"
    BY <1>1, MarkStays DEF FollowInv, TouchInv
  <2> QED BY <1>1, <1>3, <2>2, <2>3, <2>4, NotHandling, QuietStep
<1> QED BY <1>2, <1>3 DEF Deliver

LEMMA ReceiptReminds == ASSUME FollowInv, FollowInv', RemindInv, NEW r \in Runners, SaveReceipt(r) PROVE RemindInv'
<1>1. /\ UNCHANGED <<world, counted>> /\ actor[r].pc = "receipt" /\ oddities \subseteq oddities'
      /\ UNCHANGED touch \/ \E s \in {"reserved", "attempted", "sent", "failed", "unknown"} : Mark(r, s)
  BY FailGrows DEF SaveReceipt
<1>2. Fail(r, {"uncounted"}) \/ (UNCHANGED <<task, commands>> /\ \E p \in {"deliver", "count", "check"} : Goes(r, p))
  BY DEF SaveReceipt
<1> QED BY <1>1, <1>2, SentAside

LEMMA MarkSentReminds == ASSUME FollowInv, FollowInv', RemindInv, NEW r \in Runners, MarkSent(r) PROVE RemindInv'
<1>1. /\ UNCHANGED world /\ counted \subseteq counted' /\ actor[r].pc \in {"count", "recount"}
      /\ oddities \subseteq oddities'
      /\ UNCHANGED touch \/ \E s \in {"reserved", "attempted", "sent", "failed", "unknown"} : Mark(r, s)
  BY FailGrows DEF MarkSent
<1>2. \/ Finish(r) \/ Fail(r, {"uncounted"})
      \/ UNCHANGED <<task, commands>> /\ \E p \in {"deliver", "count", "check"} : Goes(r, p)
  BY DEF MarkSent
<1> QED BY <1>1, <1>2, SentAside

LEMMA CheckReminds ==
  ASSUME FollowInv, FollowInv', RemindInv, NEW r \in Runners, ScheduleOnboardingCheck(r) PROVE RemindInv'
<1>1. UNCHANGED <<world, touch, counted>> /\ actor[r].pc = "check" /\ Busy(r) /\ actor[r].task = Onboard
  BY SpotHere DEF ScheduleOnboardingCheck, ledger, Busy, Spot
<1>2. CASE Fail(r, {})
  BY <1>1, <1>2, FailGrows, SentAside
<1>3. CASE Rest(r) /\ task' = WithCheckUp /\ UNCHANGED <<commands, oddities>>
  <2>1. \A i \in Tasks : i # actor[r].task /\ i # CheckUp => task'[i] = task[i]
    BY <1>1, <1>3 DEF WithCheckUp, FollowInv, JobsInv, TaskTypes
  <2>2. Others(r) /\ actor'[r].pc = "rest"
    BY <1>3, OthersRest, RestingShape DEF FollowInv, TouchInv
  <2> QED BY <1>1, <1>3, <2>1, <2>2, NotHandling, QuietStep
<1>4. CASE Finish(r) /\ oddities' = oddities \cup Dropped(CheckUp)
  BY <1>1, <1>4, SentAside
<1> QED BY <1>2, <1>3, <1>4 DEF ScheduleOnboardingCheck

LEMMA DiesReminds == ASSUME FollowInv, RemindInv, ProcessDies PROVE RemindInv'
<1>1. /\ UNCHANGED <<world, commands, touch, counted>> /\ oddities \subseteq oddities'
      /\ \A a \in Actors : actor'[a] = Resting
      /\ task' = [j \in Tasks |-> IF task[j].st = "active" THEN Stalled(task[j]) ELSE task[j]]
  BY DEF ProcessDies, ledger
<1>2. DOMAIN task' = Tasks /\ \A j \in Tasks : Crashed(task[j].st, task[j].stalls, task'[j].st)
  BY <1>1 DEF FollowInv, JobsInv, TaskTypes, TaskFields, Stalled, Crashed
<1>3. QueueInv'
  <2>1. \A i \in 1 .. Len(commands) : IsResolve(commands[i]) => commands[i] \in Tasks
    <3> SUFFICES ASSUME NEW i \in 1 .. Len(commands), IsResolve(commands[i]) PROVE commands[i] \in Tasks
      OBVIOUS
    <3>1. commands[i] \in Commands
      BY DEF RemindInv, QueueInv
    <3> QED BY <3>1, ResolveHere DEF Commands, IsResolve, Pre
  <2> QED BY <1>1, <1>2, <2>1, ResolveHere DEF RemindInv, QueueInv, Crashed, world
<1>4. CommanderInv' /\ CallsInv'
  BY <1>1, RunnersAct, RestingShape DEF CommanderInv, CallsInv
<1>5. WorldInv'
  BY <1>1 DEF RemindInv, WorldInv, world
<1>6. ASSUME interview.st = "active", Fine', Arranged(Remind(interview.at)) PROVE Arranged(Remind(interview.at))'
  <2> DEFINE j == Remind(interview.at)
  <2>1. j' = j /\ j \in Tasks /\ Arranged(j)
    BY <1>1, <1>6, RemindHere DEF RemindInv, world
  <2> HIDE DEF j
  <2>2. \A i \in Resolves \cup {j} : task[i].st \in {"waiting", "active"} => task'[i].st = "waiting"
    <3>1. \A i \in Tasks : task[i].st = "active" => ~ (task[i].stalls >= MaxStalls)
      BY <1>6 DEF ProcessDies, Fine
    <3> QED BY <1>2, <2>1, <3>1, ResolveHere DEF Crashed
  <2>3. \A r \in Runners : Handles(r, j) => actor[r].task \in Resolves \cup {j} /\ Busy(r)
    BY DEF Handles, Busy
  <2>4. \A r \in Runners : Handles(r, j) => task'[actor[r].task].st = "waiting"
    BY <2>2, <2>3, OwnJob DEF FollowInv
  <2>5. (ResolveQueued => ResolveQueued') /\ (OverLimit => OverLimit') /\ touch'[j] = touch[j]
    BY <1>1 DEF ResolveQueued, OverLimit
  <2>6. Arranged(j)'
    BY <2>1, <2>2, <2>3, <2>4, <2>5 DEF Arranged
  <2> QED BY <2>6 DEF j
<1>7. Reminded'
  BY <1>1, <1>6 DEF RemindInv, Reminded, Fine, world
<1> QED BY <1>3, <1>4, <1>5, <1>7 DEF RemindInv

-----------------------------------------------------------------------------
(* The command queue. *)

LEMMA QueueTyped ==
  ASSUME QueueInv
  PROVE  /\ Len(commands) \in Nat /\ \A i \in 1 .. Len(commands) : commands[i] \in Commands
         /\ \A i \in 1 .. Len(commands) : IsResolve(commands[i]) =>
              /\ commands[i] \in Resolves /\ commands[i] \in Tasks
              /\ commands[i] = Resolve(commands[i][2]) /\ commands[i][2] \in Turns
<1>1. Len(commands) \in Nat /\ \A i \in 1 .. Len(commands) : commands[i] \in Commands
  BY DEF QueueInv
<1>2. \A c \in Commands : IsResolve(c) => c \in Resolves
  BY DEF Commands, IsResolve, Pre
<1>3. \A c \in Resolves : c \in Tasks /\ c = Resolve(c[2]) /\ c[2] \in Turns
  BY ResolveHere DEF Resolves, Resolve
<1> QED BY <1>1, <1>2, <1>3

\* The first command is done, its resolution may have been added.
LEMMA QueueTail ==
  ASSUME QueueInv, WorldInv, commands # <<>>, commands' = Tail(commands), UNCHANGED turn,
         \A i \in Resolves : task[i].st = "none" => task'[i].st = "none" \/ i = Head(commands)
  PROVE  QueueInv' /\ (ResolveQueued => ResolveQueued' \/ IsResolve(Head(commands)))
<1>1. /\ Len(commands) \in Nat \ {0} /\ commands \in Seq(Commands) /\ Head(commands) = commands[1]
      /\ commands' \in Seq(Commands) /\ Len(commands') = Len(commands) - 1
      /\ \A i \in 1 .. Len(commands') : commands'[i] = commands[i + 1] /\ i + 1 \in 1 .. Len(commands)
  BY DEF QueueInv
<1>2. \A i \in 1 .. Len(commands) : i # 1 => i - 1 \in 1 .. Len(commands') /\ commands'[i - 1] = commands[i]
  BY <1>1
<1>3. 1 \in 1 .. Len(commands)
  BY <1>1
<1>4. \A i \in 1 .. Len(commands) : i # 1 /\ IsResolve(commands[i]) => task'[commands[i]].st = "none"
  BY <1>1, <1>3, QueueTyped DEF QueueInv
<1>5. \A i \in 1 .. Len(commands') : IsResolve(commands'[i]) => task'[commands'[i]].st = "none" /\ commands'[i][2] <= turn'
  BY <1>1, <1>4 DEF QueueInv
<1>6. \A i \in 1 .. Len(commands') : IsResolve(commands'[i]) =>
        \A l \in 1 .. Len(commands') : commands'[i] = commands'[l] => i = l
  <2> SUFFICES ASSUME NEW i \in 1 .. Len(commands'), NEW l \in 1 .. Len(commands'),
                      IsResolve(commands'[i]), commands'[i] = commands'[l]
               PROVE  i = l
    OBVIOUS
  <2>1. i + 1 \in 1 .. Len(commands) /\ l + 1 \in 1 .. Len(commands) /\ IsResolve(commands[i + 1])
        /\ commands[i + 1] = commands[l + 1]
    BY <1>1
  <2>2. i + 1 = l + 1
    BY <2>1 DEF QueueInv
  <2> QED BY <2>2
<1>7. \A k \in Turns : k > turn => Resolve(k) # Head(commands)
  <2>1. IsResolve(Head(commands)) => Head(commands)[2] <= turn /\ Head(commands)[2] \in Turns
    BY <1>1, <1>3, QueueTyped DEF QueueInv
  <2>2. \A k \in Turns : k \in Nat /\ IsResolve(Resolve(k)) /\ Resolve(k)[2] = k
    BY FollowAssumption DEF FollowAssumption, Resolve, IsResolve
  <2> SUFFICES ASSUME NEW k \in Turns, k > turn, Resolve(k) = Head(commands) PROVE FALSE
    OBVIOUS
  <2>3. k <= turn
    BY <2>1, <2>2
  <2> QED BY <2>2, <2>3 DEF WorldInv
<1>8. \A k \in Turns : k > turn' => task'[Resolve(k)].st = "none"
  BY <1>7, ResolveHere DEF QueueInv
<1>9. QueueInv'
  BY <1>1, <1>5, <1>6, <1>8 DEF QueueInv
<1>10. ResolveQueued => ResolveQueued' \/ IsResolve(Head(commands))
  BY <1>1, <1>2 DEF ResolveQueued
<1> QED BY <1>9, <1>10

\* A command that failed comes again after the others.
LEMMA QueueRotates ==
  ASSUME QueueInv, commands # <<>>, commands' = Append(Tail(commands), Head(commands)), UNCHANGED <<turn, task>>
  PROVE  QueueInv' /\ (ResolveQueued => ResolveQueued')
<1> DEFINE n == Len(commands)
           from == [i \in 1 .. n |-> IF i = n THEN 1 ELSE i + 1]
<1>1. /\ n \in Nat \ {0} /\ commands \in Seq(Commands) /\ Tail(commands) \in Seq(Commands) /\ Len(Tail(commands)) = n - 1
      /\ Head(commands) \in Commands /\ Head(commands) = commands[1]
      /\ \A i \in 1 .. n - 1 : Tail(commands)[i] = commands[i + 1]
  BY DEF QueueInv
<1> HIDE DEF n
<1>2. /\ commands' \in Seq(Commands) /\ Len(commands') = n /\ commands'[n] = commands[1]
      /\ \A i \in 1 .. n - 1 : commands'[i] = commands[i + 1]
  BY <1>1
<1>3. \A i \in 1 .. n : from[i] \in 1 .. n /\ commands'[i] = commands[from[i]]
  <2> TAKE i \in 1 .. n
  <2>1. CASE i = n
    BY <1>1, <1>2, <2>1
  <2>2. CASE i # n
    <3>1. i \in 1 .. n - 1 /\ i + 1 \in 1 .. n /\ from[i] = i + 1
      BY <1>1, <2>2
    <3> QED BY <1>2, <3>1
  <2> QED BY <2>1, <2>2
<1>4. \A i, l \in 1 .. n : from[i] = from[l] => i = l
  BY <1>1
<1>5. \A i \in 1 .. n : \E l \in 1 .. n : from[l] = i
  <2> TAKE i \in 1 .. n
  <2> DEFINE l == IF i = 1 THEN n ELSE i - 1
  <2>1. l \in 1 .. n /\ from[l] = i
    BY <1>1
  <2> QED BY <2>1
<1> HIDE DEF from
<1>6. \A i \in 1 .. n : IsResolve(commands'[i]) => task'[commands'[i]].st = "none" /\ commands'[i][2] <= turn'
  BY <1>3 DEF QueueInv, n
<1>7. \A i \in 1 .. n : IsResolve(commands'[i]) => \A l \in 1 .. n : commands'[i] = commands'[l] => i = l
  BY <1>3, <1>4 DEF QueueInv, n
<1>8. QueueInv'
  BY <1>2, <1>6, <1>7 DEF QueueInv
<1>9. ASSUME NEW i \in 1 .. n, IsResolve(commands[i]) PROVE ResolveQueued'
  <2>1. PICK l \in 1 .. n : from[l] = i
    BY <1>5
  <2>2. commands'[l] = commands[i]
    BY <1>3, <2>1
  <2> QED BY <1>2, <1>9, <2>2 DEF ResolveQueued
<1>10. ResolveQueued => ResolveQueued'
  BY <1>9 DEF ResolveQueued, n
<1> QED BY <1>8, <1>10

\* A turn's commands come last.
LEMMA QueueGrows ==
  ASSUME QueueInv, WorldInv, NEW k \in Turns, turn' = k, k = turn + 1, NEW s \in Seq(Commands), commands' = commands \o s,
         UNCHANGED task,
         \A i \in 1 .. Len(s) : IsResolve(s[i]) => s[i] = Resolve(k) /\ \A l \in 1 .. Len(s) : s[i] = s[l] => i = l
  PROVE  /\ QueueInv' /\ (ResolveQueued => ResolveQueued')
         /\ (\E i \in 1 .. Len(s) : IsResolve(s[i])) => ResolveQueued'
<1> DEFINE n == Len(commands)
           m == Len(s)
<1>1. /\ n \in Nat /\ m \in Nat /\ commands' \in Seq(Commands) /\ Len(commands') = n + m
      /\ \A i \in 1 .. n : commands'[i] = commands[i]
      /\ \A i \in 1 .. m : commands'[n + i] = s[i]
  BY DEF QueueInv
<1>2. turn \in Nat /\ k \in Nat /\ k > turn /\ task[Resolve(k)].st = "none" /\ Resolve(k)[2] = k /\ turn' = k
  BY DEF WorldInv, QueueInv, Resolve
<1> DEFINE old(i) == i \in 1 .. n
           new(i) == i - n \in 1 .. m
<1>3. \A i \in 1 .. n + m : i \in Int /\ \/ old(i) /\ commands'[i] = commands[i]
                                         \/ new(i) /\ commands'[i] = s[i - n]
  BY <1>1
<1>4. \A i \in 1 .. n + m : old(i) /\ IsResolve(commands'[i]) =>
        task'[commands'[i]].st = "none" /\ commands'[i][2] <= turn /\ commands'[i][2] \in Nat
  BY <1>1, QueueTyped, FollowAssumption DEF QueueInv, FollowAssumption
<1>5. \A i \in 1 .. n + m : new(i) /\ IsResolve(commands'[i]) => commands'[i] = Resolve(k)
  BY <1>1
<1>6. \A i \in 1 .. n + m : IsResolve(commands'[i]) => task'[commands'[i]].st = "none" /\ commands'[i][2] <= turn'
  BY <1>2, <1>3, <1>4, <1>5
<1>7. ASSUME NEW i \in 1 .. n + m, NEW l \in 1 .. n + m, IsResolve(commands'[i]), commands'[i] = commands'[l] PROVE i = l
  <2>1. IsResolve(commands'[l])
    BY <1>7
  <2>2. CASE old(i) /\ old(l)
    BY <1>1, <1>7, <2>2 DEF QueueInv
  <2>3. CASE new(i) /\ new(l)
    <3>1. IsResolve(s[i - n]) /\ s[i - n] = s[l - n]
      BY <1>1, <1>7, <2>3
    <3>2. i - n = l - n
      BY <2>3, <3>1
    <3> QED BY <1>1, <1>3, <3>2
  <2>4. CASE old(i) /\ new(l)
    BY <1>2, <1>4, <1>5, <1>7, <2>1, <2>4
  <2>5. CASE new(i) /\ old(l)
    BY <1>2, <1>4, <1>5, <1>7, <2>1, <2>5
  <2> QED BY <1>3, <2>2, <2>3, <2>4, <2>5
<1>8. \A j \in Turns : j > turn' => task'[Resolve(j)].st = "none"
  <2>1. \A j \in Turns : j \in Nat
    BY FollowAssumption DEF FollowAssumption
  <2> QED BY <1>2, <2>1 DEF QueueInv
<1>9. QueueInv'
  BY <1>1, <1>6, <1>7, <1>8 DEF QueueInv
<1>10. ResolveQueued => ResolveQueued'
  BY <1>1 DEF ResolveQueued
<1>11. (\E i \in 1 .. Len(s) : IsResolve(s[i])) => ResolveQueued'
  <2> SUFFICES ASSUME NEW i \in 1 .. m, IsResolve(s[i]) PROVE ResolveQueued'
    OBVIOUS
  <2>1. n + i \in 1 .. n + m /\ commands'[n + i] = s[i]
    BY <1>1
  <2> QED BY <1>1, <2>1 DEF ResolveQueued
<1> QED BY <1>9, <1>10, <1>11

-----------------------------------------------------------------------------
(* The steps of the commander and of the world. *)

LEMMA CommanderStep ==
  ASSUME FollowInv, RemindInv, \A r \in Runners : actor'[r] = actor[r], UNCHANGED <<world, touch, counted>>,
         oddities \subseteq oddities', QueueInv', CommanderInv',
         \A i \in Resolves : task[i].st = "waiting" => task'[i].st = "waiting",
         \A i \in Tasks : IsRemind(i) => task'[i] = task[i],
         Fine' /\ ResolveQueued => ResolveQueued' \/ \E i \in Resolves : task'[i].st = "waiting"
  PROVE  RemindInv'
<1>1. CallsInv' /\ WorldInv'
  BY DEF RemindInv, CallsInv, WorldInv, world
<1>2. ASSUME interview.st = "active", Fine', Arranged(Remind(interview.at)) PROVE Arranged(Remind(interview.at))'
  <2> DEFINE j == Remind(interview.at)
  <2>1. j' = j /\ task'[j] = task[j] /\ Arranged(j)
    BY <1>2, RemindHere DEF RemindInv, world
  <2> HIDE DEF j
  <2>2. \A r \in Runners : Handles(r, j) => Handles(r, j)'
    BY <2>1 DEF Handles
  <2>3. (OverLimit => OverLimit') /\ touch'[j] = touch[j]
    BY DEF OverLimit
  <2>4. Arranged(j)'
    BY <1>2, <2>1, <2>2, <2>3 DEF Arranged
  <2> QED BY <2>4 DEF j
<1>3. Reminded'
  BY <1>2 DEF RemindInv, Reminded, Fine, world
<1> QED BY <1>1, <1>3 DEF RemindInv

LEMMA CommanderRests ==
  ASSUME FollowInv, Rest(Commander) PROVE actor'[Commander].pc = "rest" /\ \A r \in Runners : actor'[r] = actor[r]
  BY Rested, RunnersAct, RestingShape DEF FollowInv

\* The commander is done with the job it had to schedule.
LEMMA CommanderDone ==
  ASSUME FollowInv, RemindInv, actor[Commander].pc # "rest", Rest(Commander), commands' = Tail(commands),
         UNCHANGED <<world, touch, counted>>, oddities \subseteq oddities',
         \A i \in Tasks : ~ IsPre(i) => task'[i] = task[i]
  PROVE  RemindInv'
<1>1. commands # <<>> /\ IsPre(Head(commands))
  BY DEF RemindInv, CommanderInv
<1>2. \A i \in Resolves : i # Head(commands) /\ i \in Tasks /\ ~ IsPre(i)
  BY <1>1, ResolveHere
<1>3. QueueInv' /\ (ResolveQueued => ResolveQueued')
  <2>1. ~ IsResolve(Head(commands))
    BY <1>1 DEF IsPre, IsResolve
  <2> QED BY <1>1, <1>2, <2>1, QueueTail DEF RemindInv, world
<1>4. CommanderInv' /\ \A r \in Runners : actor'[r] = actor[r]
  BY CommanderRests DEF CommanderInv
<1>5. \A i \in Tasks : IsRemind(i) => ~ IsPre(i)
  BY DEF IsRemind, IsPre
<1> QED BY <1>2, <1>3, <1>4, <1>5, CommanderStep

LEMMA CommanderFails ==
  ASSUME FollowInv, RemindInv, commands # <<>>, Fail(Commander, {}), UNCHANGED <<world, touch, counted>>
  PROVE  RemindInv'
<1>1. /\ Rest(Commander) /\ UNCHANGED <<task, oddities>>
      /\ commands' = Append(Tail(commands), Head(commands))
  BY DEF Fail
<1>2. QueueInv' /\ (ResolveQueued => ResolveQueued')
  BY <1>1, QueueRotates DEF RemindInv, world
<1>3. CommanderInv' /\ \A r \in Runners : actor'[r] = actor[r]
  BY <1>1, CommanderRests DEF CommanderInv
<1> QED BY <1>1, <1>2, <1>3, CommanderStep

LEMMA CommanderGoes ==
  ASSUME FollowInv, NEW p, Goes(Commander, p)
  PROVE  /\ actor'[Commander].add = actor[Commander].add
         /\ \A r \in Runners : actor'[r] = actor[r]
  BY RunnersAct DEF FollowInv, TouchInv, LedgerTypes, Goes, Fields

LEMMA CommanderLookReminds == ASSUME FollowInv, RemindInv, Look(Commander) PROVE RemindInv'
<1> DEFINE j == actor[Commander].add
<1>1. /\ UNCHANGED <<world, touch, counted>> /\ actor[Commander].pc = "look" /\ oddities \subseteq oddities'
      /\ commands # <<>> /\ IsPre(Head(commands)) /\ IsPre(j)
  BY DEF Look, ledger, RemindInv, CommanderInv
<1>2. CASE Finish(Commander)
  BY <1>1, <1>2, CommanderDone DEF Finish
<1>3. CASE /\ Goes(Commander, "add") /\ UNCHANGED commands
           /\ UNCHANGED task \/ task' = [i \in Tasks |-> IF i \in Removes(j) THEN Absent ELSE task[i]]
  <2>1. \A i \in Removes(j) : IsPre(i)
    BY <1>1 DEF Removes, IsPre
  <2>2. \A i \in Tasks : ~ IsPre(i) => task'[i] = task[i]
    BY <1>3, <2>1
  <2>3. actor'[Commander].add = j /\ \A r \in Runners : actor'[r] = actor[r]
    BY <1>3, CommanderGoes
  <2>4. CommanderInv' /\ (ResolveQueued => ResolveQueued')
    BY <1>1, <1>3, <2>3 DEF CommanderInv, ResolveQueued
  <2>5. QueueInv'
    BY <1>1, <1>3, <2>2, QueueTyped, ResolveHere DEF RemindInv, QueueInv, world
  <2>6. \A i \in Tasks : IsRemind(i) => ~ IsPre(i)
    BY DEF IsRemind, IsPre
  <2> QED BY <1>1, <2>2, <2>3, <2>4, <2>5, <2>6, ResolveHere, CommanderStep
<1> QED BY <1>2, <1>3 DEF Look

LEMMA CommanderAddReminds == ASSUME FollowInv, RemindInv, Add(Commander) PROVE RemindInv'
<1> DEFINE j == actor[Commander].add
<1>1. /\ UNCHANGED <<world, touch, counted>> /\ actor[Commander].pc = "add" /\ commands # <<>> /\ IsPre(j)
  BY DEF Add, ledger, RemindInv, CommanderInv
<1>2. CASE Fail(Commander, {})
  BY <1>1, <1>2, CommanderFails
<1>3. CASE /\ Rest(Commander) /\ commands' = Tail(commands) /\ oddities' = oddities \cup Late(j)
           /\ task' = IF task[j].st = "none" THEN [task EXCEPT ![j] = Waiting] ELSE task
  <2>1. \A i \in Tasks : i # j => task'[i] = task[i]
    BY <1>3 DEF FollowInv, JobsInv, TaskTypes
  <2> QED BY <1>1, <1>3, <2>1, CommanderDone
<1> QED BY <1>2, <1>3 DEF Add

LEMMA CommandReminds == ASSUME FollowInv, RemindInv, RunCommand PROVE RemindInv'
<1> DEFINE c == Head(commands)
           v == [Resting EXCEPT !.pc = "look", !.add = c]
<1>1. UNCHANGED <<world, touch, counted>> /\ actor[Commander].pc = "rest" /\ commands # <<>> /\ oddities \subseteq oddities'
  BY DEF RunCommand, ledger, Fail
<1>2. CASE Fail(Commander, {})
  BY <1>1, <1>2, CommanderFails
<1>3. CASE c[1] = "pre" /\ actor' = [actor EXCEPT ![Commander] = v] /\ UNCHANGED <<task, commands>>
  <2>1. v.add = c
    BY DEF Resting
  <2> HIDE DEF v
  <2>2. actor'[Commander] = v /\ \A r \in Runners : actor'[r] = actor[r]
    BY <1>3, RunnersAct DEF FollowInv, TouchInv, LedgerTypes
  <2>3. CommanderInv'
    BY <1>1, <1>3, <2>1, <2>2 DEF CommanderInv, IsPre
  <2>4. QueueInv' /\ (ResolveQueued => ResolveQueued')
    BY <1>1, <1>3 DEF RemindInv, QueueInv, ResolveQueued, world
  <2> QED BY <1>1, <1>3, <2>2, <2>3, <2>4, CommanderStep
<1>4. CASE /\ c[1] # "pre" /\ UNCHANGED actor /\ commands' = Tail(commands)
           /\ \/ task' = IF c[1] = "resolve" /\ task[c].st = "none" THEN [task EXCEPT ![c] = Waiting] ELSE task
              \/ c[1] = "resolve" /\ UNCHANGED task /\ oddities' = oddities \cup Dropped(c)
  <2>1. c = commands[1] /\ 1 \in 1 .. Len(commands)
    BY <1>1, QueueTyped DEF RemindInv
  <2>2. IsResolve(c) => c \in Resolves /\ c \in Tasks /\ task[c].st = "none" /\ ~ IsRemind(c)
    BY <2>1, QueueTyped, ResolveHere DEF RemindInv, QueueInv
  <2>3. \A i \in Tasks : i # c => task'[i] = task[i]
    BY <1>4 DEF FollowInv, JobsInv, TaskTypes
  <2>4. IsResolve(c) /\ Fine' => task'[c] = Waiting
    BY <1>4, <2>2, DropsIt DEF FollowInv, JobsInv, TaskTypes, IsResolve
  <2>5. ~ IsResolve(c) => UNCHANGED task
    BY <1>4 DEF IsResolve
  <2> HIDE DEF c
  <2>6. QueueInv' /\ (ResolveQueued => ResolveQueued' \/ IsResolve(c))
    BY <1>1, <1>4, <2>3, ResolveHere, QueueTail DEF RemindInv, world, c
  <2>7. CommanderInv' /\ \A r \in Runners : actor'[r] = actor[r]
    BY <1>1, <1>4 DEF CommanderInv
  <2>8. \A i \in Resolves : task[i].st = "waiting" => task'[i].st = "waiting"
    BY <2>2, <2>3, <2>5, ResolveHere
  <2>9. \A i \in Tasks : IsRemind(i) => task'[i] = task[i]
    BY <2>2, <2>3, <2>5
  <2>10. IsResolve(c) /\ Fine' => \E i \in Resolves : task'[i].st = "waiting"
    BY <2>2, <2>4, WaitingShape
  <2> QED BY <1>1, <2>6, <2>7, <2>8, <2>9, <2>10, CommanderStep
<1> QED BY <1>2, <1>3, <1>4 DEF RunCommand

\* A step that no actor takes and that adds no reason to remind.
LEMMA WorldAside ==
  ASSUME FollowInv, RemindInv, UNCHANGED <<actor, touch, counted>>, QueueInv', WorldInv', hour <= hour', hour' \in Nat,
         commands # <<>> => commands' # <<>> /\ Head(commands') = Head(commands),
         \A i \in Tasks : ~ IsPre(i) /\ i # Onboard => task'[i] = task[i],
         interview'.st = "active" /\ Fine' =>
           ResolveQueued' \/ (Fine /\ interview' = interview /\ (ResolveQueued => ResolveQueued'))
  PROVE  RemindInv'
<1>1. CommanderInv'
  BY DEF RemindInv, CommanderInv
<1>2. CallsInv'
  <2>1. \A r \in Runners : actor[r].pc = "judge" /\ IsRemind(actor[r].task) =>
          actor[r].task[2] - 1 <= hour /\ actor[r].task[2] \in Nat
    BY HoursHere, OwnJob DEF FollowInv, RemindInv, CallsInv, Busy
  <2> QED BY <2>1 DEF RemindInv, CallsInv, WorldInv
<1>3. ASSUME interview.st = "active", Arranged(Remind(interview.at)), interview' = interview,
             ResolveQueued => ResolveQueued'
      PROVE  Arranged(Remind(interview.at))'
  <2> DEFINE j == Remind(interview.at)
  <2>1. j' = j /\ j \in Tasks /\ ~ IsPre(j) /\ j # Onboard /\ Arranged(j)
    BY <1>3, RemindHere DEF RemindInv
  <2> HIDE DEF j
  <2>2. \A i \in Resolves \cup {j} : task'[i] = task[i]
    BY <2>1, ResolveHere
  <2>3. \A r \in Runners : Handles(r, j) => Handles(r, j)'
    BY <2>1, <2>2 DEF Handles
  <2>4. (OverLimit => OverLimit') /\ touch'[j] = touch[j]
    BY DEF OverLimit
  <2>5. Arranged(j)'
    BY <1>3, <2>1, <2>2, <2>3, <2>4 DEF Arranged
  <2> QED BY <2>5 DEF j
<1>4. ResolveQueued' => Arranged(Remind(interview.at))'
  BY DEF Arranged
<1>5. Reminded'
  BY <1>3, <1>4 DEF RemindInv, Reminded
<1> QED BY <1>1, <1>2, <1>5 DEF RemindInv

LEMMA TurnReminds ==
  ASSUME FollowInv, RemindInv, NEW k \in Turns, NextTurn(k), NEW s \in Seq(Commands), commands' = commands \o s,
         \A i \in 1 .. Len(s) : IsResolve(s[i]) => s[i] = Resolve(k) /\ \A l \in 1 .. Len(s) : s[i] = s[l] => i = l,
         interview'.st = "active" => interview'.at \in Hours,
         interview'.st = "active" /\ Fine' => (\E i \in 1 .. Len(s) : IsResolve(s[i])) \/ (Fine /\ interview' = interview)
  PROVE  RemindInv'
<1>1. UNCHANGED <<hour, actor, touch, counted, task>> /\ turn' = k /\ k = turn + 1
  BY DEF NextTurn, ledger
<1>2. QueueInv' /\ (ResolveQueued => ResolveQueued') /\ ((\E i \in 1 .. Len(s) : IsResolve(s[i])) => ResolveQueued')
  BY <1>1, QueueGrows DEF RemindInv
<1>3. WorldInv'
  BY <1>1 DEF RemindInv, WorldInv
<1>4. commands # <<>> => commands' # <<>> /\ Head(commands') = Head(commands)
  <2>1. commands \in Seq(Commands)
    BY DEF RemindInv, QueueInv
  <2>2. commands # <<>> => Len(commands) > 0 /\ Len(commands') > 0 /\ commands'[1] = commands[1]
    BY <2>1
  <2>3. commands' \in Seq(Commands)
    BY <2>1
  <2> QED BY <2>1, <2>2, <2>3
<1>5. hour <= hour' /\ hour' \in Nat
  BY <1>1 DEF RemindInv, WorldInv
<1> QED BY <1>1, <1>2, <1>3, <1>4, <1>5, WorldAside

LEMMA CommandsHere ==
  ASSUME NEW k \in Turns
  PROVE  /\ <<"activity", k>> \in Commands /\ Pre(k) \in Commands /\ Resolve(k) \in Commands
         /\ ~ IsResolve(<<"activity", k>>) /\ ~ IsResolve(Pre(k)) /\ IsResolve(Resolve(k))
  BY DEF Commands, Resolves, IsResolve, Pre, Resolve

LEMMA TalkReminds == ASSUME FollowInv, RemindInv, NEW k \in Turns, Talk(k) PROVE RemindInv'
<1> DEFINE a == <<"activity", k>>
           s == IF booked THEN <<a>> ELSE <<a, Pre(k)>>
<1>1. NextTurn(k) /\ UNCHANGED <<interview, oddities>>
      /\ commands' = commands \o <<a>> \o (IF booked THEN <<>> ELSE <<Pre(k)>>) /\ commands \in Seq(Commands)
  BY DEF Talk, RemindInv, QueueInv
<1>2. a \in Commands /\ Pre(k) \in Commands /\ ~ IsResolve(a) /\ ~ IsResolve(Pre(k))
  BY CommandsHere
<1> HIDE DEF a
<1>3. s \in Seq(Commands) /\ \A i \in 1 .. Len(s) : s[i] \in {a, Pre(k)}
  BY <1>2
<1>4. commands' = commands \o s
  BY <1>1, <1>2
<1> HIDE DEF s
<1>5. \A i \in 1 .. Len(s) : ~ IsResolve(s[i])
  BY <1>2, <1>3
<1> QED BY <1>1, <1>3, <1>4, <1>5, TurnReminds DEF Fine, RemindInv, WorldInv

LEMMA CancelReminds == ASSUME FollowInv, RemindInv, NEW k \in Turns, CancelOrder(k) PROVE RemindInv'
<1> DEFINE a == <<"activity", k>>
           s == <<a>>
<1>1. NextTurn(k) /\ interview' = [interview EXCEPT !.st = "ended"]
      /\ commands' = Append(commands, a) /\ commands \in Seq(Commands)
  BY DEF CancelOrder, RemindInv, QueueInv
<1>2. a \in Commands /\ ~ IsResolve(a)
  BY CommandsHere
<1> HIDE DEF a
<1>3. s \in Seq(Commands) /\ (\A i \in 1 .. Len(s) : s[i] = a) /\ commands' = commands \o s
  BY <1>1, <1>2
<1> HIDE DEF s
<1>4. interview'.st # "active"
  BY <1>1 DEF CancelOrder
<1> QED BY <1>1, <1>2, <1>3, <1>4, TurnReminds

LEMMA BookReminds == ASSUME FollowInv, RemindInv, NEW k \in Turns, NEW v \in Hours, BookOrMove(k, v) PROVE RemindInv'
<1> DEFINE a == <<"activity", k>>
           b == Resolve(k)
           s == <<a, b>>
<1>1. NextTurn(k) /\ interview' = [st |-> "active", at |-> v] /\ commands' = commands \o s
  BY DEF BookOrMove
<1>2. a \in Commands /\ ~ IsResolve(a) /\ b \in Commands /\ IsResolve(b)
  BY CommandsHere
<1> HIDE DEF a, b
<1>3. s \in Seq(Commands) /\ Len(s) = 2 /\ s[1] = a /\ s[2] = b
  BY <1>2
<1> HIDE DEF s
<1>4. \A i \in 1 .. Len(s) : IsResolve(s[i]) => s[i] = b /\ \A l \in 1 .. Len(s) : s[i] = s[l] => i = l
  BY <1>2, <1>3
<1>5. 2 \in 1 .. Len(s) /\ IsResolve(s[2])
  BY <1>2, <1>3
<1> QED BY <1>1, <1>3, <1>4, <1>5, TurnReminds DEF b

LEMMA RemindWorld ==
  ASSUME FollowInv, RemindInv,
         \/ \E v \in Hours : ChangedOutside("active", v) \/ ChangedOutside("ended", v)
         \/ HourPasses \/ CooldownEnds \/ Sweep \/ UNCHANGED followVars
  PROVE  RemindInv'
<1>1. /\ UNCHANGED <<turn, commands, actor, touch, counted>>
      /\ hour' = hour \/ hour' = hour + 1
  BY DEF ChangedOutside, HourPasses, CooldownEnds, Sweep, followVars, world, ledger
<1>2. hour \in Nat /\ hour' \in Nat /\ hour <= hour'
  BY <1>1 DEF RemindInv, WorldInv
<1>3. \A i \in Tasks : ~ IsPre(i) /\ i # Onboard => task'[i] = task[i]
  BY DEF ChangedOutside, HourPasses, CooldownEnds, Sweep, followVars
<1>4. \/ interview' = interview \/ interview'.st # "active"
      \/ "outside" \in oddities' /\ interview'.at \in Hours
  <2>1. CASE HourPasses
    <3>1. interview' = interview \/ interview' = [interview EXCEPT !.st = "passed"]
      BY <2>1 DEF HourPasses
    <3>2. interview' = [interview EXCEPT !.st = "passed"] => interview'.st # "active" \/ interview' = interview
      OBVIOUS
    <3> QED BY <3>1, <3>2
  <2>2. CASE \E v \in Hours : ChangedOutside("active", v) \/ ChangedOutside("ended", v)
    BY <2>2 DEF ChangedOutside, Odd
  <2>3. CASE CooldownEnds \/ Sweep \/ UNCHANGED followVars
    BY <2>3 DEF CooldownEnds, Sweep, followVars, world
  <2> QED BY <2>1, <2>2, <2>3
<1>5. oddities \subseteq oddities'
  BY DEF ChangedOutside, Odd, HourPasses, CooldownEnds, Sweep, followVars, past
<1>6. WorldInv'
  BY <1>1, <1>2, <1>4 DEF RemindInv, WorldInv
<1>7. QueueInv'
  BY <1>1, <1>3, QueueTyped, ResolveHere DEF RemindInv, QueueInv
<1>8. ResolveQueued => ResolveQueued'
  BY <1>1 DEF ResolveQueued
<1>9. interview'.st = "active" /\ Fine' => Fine /\ interview' = interview
  BY <1>4, <1>5 DEF Fine
<1> QED BY <1>1, <1>2, <1>3, <1>6, <1>7, <1>8, <1>9, WorldAside

LEMMA RemindStart == FollowInit => RemindInv
<1> SUFFICES ASSUME FollowInit PROVE RemindInv
  OBVIOUS
<1>1. /\ \A a \in Actors : actor[a] = Resting
      /\ \A j \in Tasks : task[j].st = "none"
      /\ commands = <<>> /\ hour = 0 /\ turn = 0 /\ interview.st = "none"
  BY WaitingShape DEF FollowInit
<1>2. QueueInv
  BY <1>1, ResolveHere DEF QueueInv
<1>3. CommanderInv /\ CallsInv
  BY <1>1, RestingShape, RunnersAct DEF CommanderInv, CallsInv
<1> QED BY <1>1, <1>2, <1>3 DEF RemindInv, WorldInv, Reminded

LEMMA RemindStep == FollowInv /\ RemindInv /\ [FollowNext]_followVars => RemindInv'
<1> SUFFICES ASSUME FollowInv, RemindInv, [FollowNext]_followVars PROVE RemindInv'
  OBVIOUS
<1>1. FollowInv'
  BY FollowStep
<1>2. CASE \E k \in Turns : Talk(k) \/ CancelOrder(k) \/ \E v \in Hours : BookOrMove(k, v)
  BY <1>2, TalkReminds, CancelReminds, BookReminds
<1>3. CASE \/ \E v \in Hours : ChangedOutside("active", v) \/ ChangedOutside("ended", v)
           \/ HourPasses \/ CooldownEnds \/ Sweep \/ UNCHANGED followVars
  BY <1>3, RemindWorld
<1>4. CASE RunCommand \/ ProcessDies
  BY <1>4, CommandReminds, DiesReminds
<1>5. CASE \E a \in Actors : Look(a) \/ Add(a)
  BY <1>1, <1>5, LookReminds, AddReminds, CommanderLookReminds, CommanderAddReminds DEF Actors
<1>6. CASE \E r \in Runners : \/ \E j \in Tasks : FireTask(r, j)
                              \/ Judge(r) \/ Reserve(r) \/ Compose(r) \/ Deliver(r)
                              \/ SaveReceipt(r) \/ MarkSent(r) \/ ScheduleOnboardingCheck(r)
  BY <1>1, <1>6, FireReminds, JudgeReminds, ReserveReminds, ComposeReminds, DeliverReminds, ReceiptReminds,
     MarkSentReminds, CheckReminds
<1> QED BY <1>2, <1>3, <1>4, <1>5, <1>6 DEF FollowNext

\* ReminderKept for any turns, hours, runners and bounds: however turns move the interview, commands
\* are retried, jobs replace each other and the process dies, somebody is still to remind of an
\* interview to come, outside the races and failures that the property names.
THEOREM ReminderStays == FollowSpec => []ReminderKept
<1>1. RemindInv => ReminderKept
  BY RemindGives DEF RemindInv
<1> QED BY <1>1, FollowStart, FollowStep, RemindStart, RemindStep, PTL DEF FollowSpec
-----------------------------------------------------------------------------
(* Types. *)

Entries == [pc: Points, task: Tasks, add: Tasks, since: Turns \cup {0}]
Jobs == [st: {"none", "waiting", "active", "kept"}, tries: 0 .. MaxTries, stalls: 0 .. MaxStalls]
Interviews == [st: {"none", "active", "passed", "ended"}, at: Hours \cup {0}]

\* Only touches are sent.
ActorKinds ==
  /\ actor \in [Actors -> Entries]
  /\ \A r \in Runners : Sending(r) => actor[r].task \in Touches

\* A job that may run has an attempt left.
TaskKinds ==
  /\ task \in [Tasks -> Jobs]
  /\ \A j \in Tasks : task[j].st \in {"waiting", "active"} => task[j].tries < MaxTries

WorldKinds ==
  /\ turn \in Turns \cup {0} /\ activity \in Turns \cup {0} /\ interview \in Interviews /\ booked \in BOOLEAN

\* What calls write besides their own state and their jobs.
HistoryKinds ==
  /\ lastTouch \in Turns \cup {0} /\ counted \subseteq Touches /\ receipt \in Turns \cup {0}
  /\ oddities \subseteq OddThings /\ slips \in 0 .. MaxSlips

Kinds == ActorKinds /\ TaskKinds /\ WorldKinds /\ HistoryKinds

LEMMA Limits == MaxTries \in Nat /\ MaxTries >= 1 /\ MaxSlips \in Nat /\ MaxStalls \in Nat
  BY FollowAssumption DEF FollowAssumption

LEMMA RestingKind == Resting \in Entries /\ Resting.pc = "rest"
  BY TasksHere DEF Resting, Entries, Points

LEMMA NewJobKinds == Absent \in Jobs /\ Absent.st = "none" /\ Waiting \in Jobs /\ Waiting.st = "waiting" /\ Waiting.tries = 0
  BY Limits DEF Absent, Waiting, Jobs

LEMMA SlipKind == ASSUME HistoryKinds, Slip \/ UNCHANGED slips PROVE slips' \in 0 .. MaxSlips
  BY Limits DEF HistoryKinds, Slip

LEMMA KindsStart == FollowInit => Kinds
<1> SUFFICES ASSUME FollowInit PROVE Kinds
  OBVIOUS
<1>1. ActorKinds
  BY RestingKind, RunnersAct DEF FollowInit, ActorKinds, Sending
<1>2. TaskKinds
  BY NewJobKinds DEF FollowInit, TaskKinds
<1>3. WorldKinds
  BY DEF FollowInit, WorldKinds, Interviews
<1>4. HistoryKinds
  BY Limits DEF FollowInit, HistoryKinds
<1> QED BY <1>1, <1>2, <1>3, <1>4 DEF Kinds

\* How calls move on.
LEMMA RestKind == ASSUME ActorKinds, NEW a \in Actors, Rest(a) PROVE ActorKinds'
  BY RestingKind, RunnersAct DEF ActorKinds, Rest, Sending

LEMMA CallKind ==
  ASSUME ActorKinds, NEW a \in Actors, NEW c \in Entries, actor' = [actor EXCEPT ![a] = c],
         a \in Runners /\ c.pc \in {"reserve", "compose", "deliver", "receipt", "count", "recount"} => c.task \in Touches
  PROVE  ActorKinds'
  BY RunnersAct DEF ActorKinds, Sending

LEMMA GoesKind ==
  ASSUME ActorKinds, NEW a \in Actors, NEW p \in Points, Goes(a, p),
         a \in Runners /\ p \in {"reserve", "compose", "deliver", "receipt", "count", "recount"} => actor[a].task \in Touches
  PROVE  ActorKinds'
<1>1. PICK x \in Entries : x = actor[a]
  BY DEF ActorKinds
<1>2. [x EXCEPT !.pc = p] \in Entries /\ [x EXCEPT !.pc = p].pc = p /\ [x EXCEPT !.pc = p].task = x.task
  BY <1>1 DEF Entries
<1>3. actor' = [actor EXCEPT ![a] = [x EXCEPT !.pc = p]]
  BY <1>1 DEF Goes, ActorKinds
<1> QED BY <1>1, <1>2, <1>3, CallKind

LEMMA JobKind ==
  ASSUME TaskKinds, NEW j \in Tasks, NEW x \in Jobs, x.st \in {"waiting", "active"} => x.tries < MaxTries,
         task' = [task EXCEPT ![j] = x]
  PROVE  TaskKinds'
  BY DEF TaskKinds

LEMMA StateKind ==
  ASSUME TaskKinds, NEW j \in Tasks, NEW st \in {"none", "waiting", "active", "kept"},
         st \in {"waiting", "active"} => task[j].tries < MaxTries, task' = [task EXCEPT ![j].st = st]
  PROVE  TaskKinds'
<1>1. PICK x \in Jobs : x = [task[j] EXCEPT !.st = st] /\ x.st = st /\ x.tries = task[j].tries
  BY DEF TaskKinds, Jobs
<1>2. task' = [task EXCEPT ![j] = x]
  BY <1>1
<1> QED BY <1>1, <1>2, JobKind

LEMMA FinishKind ==
  ASSUME ActorKinds, TaskKinds, NEW a \in Actors, Finish(a)
  PROVE  ActorKinds' /\ TaskKinds'
<1>1. Rest(a) /\ (task' = task \/ task' = [task EXCEPT ![actor[a].task].st = "kept"])
  BY DEF Finish
<1>2. actor[a].task \in Tasks
  BY DEF ActorKinds, Entries
<1> QED BY <1>1, <1>2, RestKind, StateKind DEF TaskKinds

\* A job that is retried has an attempt left.
LEMMA FailKind ==
  ASSUME FollowInv, Kinds, NEW a \in Actors, a \in Runners => Busy(a), NEW odd \in SUBSET OddThings, Fail(a, odd)
  PROVE  ActorKinds' /\ TaskKinds' /\ oddities' \subseteq OddThings /\ slips' \in 0 .. MaxSlips
<1>0. ActorKinds /\ TaskKinds /\ HistoryKinds /\ oddities \subseteq OddThings
  BY DEF Kinds, HistoryKinds
<1>1. ActorKinds' /\ slips' \in 0 .. MaxSlips
  BY <1>0, RestKind, SlipKind DEF Fail
<1>2. CASE a = Commander
  BY <1>0, <1>1, <1>2 DEF Fail, TaskKinds
<1>3. CASE a # Commander
  <2> DEFINE j == actor[a].task
             last == task[j].tries + 1 >= MaxTries
             st == IF last THEN "kept" ELSE "waiting"
  <2>1. /\ task' = [task EXCEPT ![j].st = st, ![j].tries = @ + 1]
        /\ oddities' = oddities \cup odd \cup (IF last THEN {"exhausted"} ELSE {})
    BY <1>3 DEF Fail
  <2>2. j \in Tasks /\ task[j].st = "active"
    BY <1>3, OwnJob DEF FollowInv, Actors
  <2>3. task[j].tries \in 0 .. MaxTries /\ task[j].tries < MaxTries
    BY <1>0, <2>2 DEF TaskKinds, Jobs
  <2>4. PICK n \in 0 .. MaxTries : n = task[j].tries + 1
    BY <2>3, Limits
  <2>5. st \in {"none", "waiting", "active", "kept"} /\ (st = "waiting" => n < MaxTries) /\ st # "active"
    BY <2>3, <2>4, Limits
  <2>6. oddities' \subseteq OddThings
    BY <1>0, <2>1 DEF OddThings
  <2> HIDE DEF last, st, j
  <2>7. PICK y \in Jobs : y = task[j]
    BY <1>0, <2>2 DEF TaskKinds
  <2>8. /\ [y EXCEPT !.st = st, !.tries = n] \in Jobs
        /\ [y EXCEPT !.st = st, !.tries = n].st = st /\ [y EXCEPT !.st = st, !.tries = n].tries = n
    BY <2>5, <2>7 DEF Jobs
  <2>9. task' = [task EXCEPT ![j] = [y EXCEPT !.st = st, !.tries = n]]
    BY <1>0, <2>1, <2>2, <2>4, <2>7 DEF TaskKinds, Jobs
  <2>10. TaskKinds'
    BY <1>0, <2>2, <2>5, <2>8, <2>9, JobKind
  <2> QED BY <1>1, <2>6, <2>10
<1> QED BY <1>2, <1>3

LEMMA SameCalls == ASSUME ActorKinds, UNCHANGED actor PROVE ActorKinds'
  BY DEF ActorKinds, Sending

LEMMA SameJobs == ASSUME TaskKinds, UNCHANGED task PROVE TaskKinds'
  BY DEF TaskKinds

LEMMA SameWorld == ASSUME WorldKinds, UNCHANGED <<turn, activity, interview, booked>> PROVE WorldKinds'
  BY DEF WorldKinds

\* Jobs are taken away, or a waiting one is added where there was none.
LEMMA JobsTaken ==
  ASSUME TaskKinds, NEW q, task' = [j \in Tasks |-> q[j]], \A j \in Tasks : q[j] \in {Waiting, Absent, task[j]}
  PROVE  TaskKinds'
  BY NewJobKinds, Limits DEF TaskKinds

-----------------------------------------------------------------------------
(* The steps. *)

LEMMA TurnKinds ==
  ASSUME Kinds, NEW k \in Turns, Talk(k) \/ CancelOrder(k) \/ \E v \in Hours : BookOrMove(k, v)
  PROVE  Kinds'
<1>1. turn' = k /\ UNCHANGED <<activity, task, receipt, ledger, actor, slips>>
  BY DEF Talk, CancelOrder, BookOrMove, NextTurn
<1>2. interview' \in Interviews /\ booked' \in BOOLEAN
  <2>1. [interview EXCEPT !.st = "ended"] \in Interviews /\ \A v \in Hours : [st |-> "active", at |-> v] \in Interviews
    BY DEF Kinds, WorldKinds, Interviews
  <2> QED BY <2>1 DEF Talk, CancelOrder, BookOrMove, Kinds, WorldKinds
<1>3. oddities' \subseteq oddities
  BY DEF Talk, CancelOrder, BookOrMove
<1> QED BY <1>1, <1>2, <1>3, SameCalls, SameJobs DEF Kinds, WorldKinds, HistoryKinds, ledger

LEMMA OutsideKinds ==
  ASSUME Kinds, NEW v \in Hours, ChangedOutside("active", v) \/ ChangedOutside("ended", v) PROVE Kinds'
<1>1. interview' \in Interviews
  BY DEF ChangedOutside, Interviews
<1>2. oddities' \subseteq OddThings
  BY DEF Kinds, HistoryKinds, ChangedOutside, Odd, OddThings
<1>3. slips' \in 0 .. MaxSlips
  BY SlipKind DEF Kinds, ChangedOutside
<1> QED BY <1>1, <1>2, <1>3, SameCalls, SameJobs DEF ChangedOutside, Kinds, WorldKinds, HistoryKinds, ledger

LEMMA TimeKinds == ASSUME Kinds, HourPasses \/ CooldownEnds \/ UNCHANGED followVars PROVE Kinds'
<1>1. CASE HourPasses
  <2>1. [interview EXCEPT !.st = "passed"] \in Interviews
    BY DEF Kinds, WorldKinds, Interviews
  <2>2. interview' \in Interviews
    BY <1>1, <2>1 DEF HourPasses, Kinds, WorldKinds
  <2> QED BY <1>1, <2>2, SameCalls, SameJobs DEF HourPasses, Kinds, WorldKinds, HistoryKinds, ledger, past
<1>2. CASE CooldownEnds \/ UNCHANGED followVars
  BY <1>2, SameCalls, SameJobs DEF CooldownEnds, followVars, Kinds, WorldKinds, HistoryKinds, world, ledger, past
<1> QED BY <1>1, <1>2

LEMMA SweepKinds == ASSUME Kinds, Sweep PROVE Kinds'
<1>1. PICK q : q = task'
  OBVIOUS
<1>2. task' = [j \in Tasks |-> q[j]] /\ \A j \in Tasks : q[j] \in {Waiting, Absent, task[j]}
  BY <1>1 DEF Sweep
<1>3. TaskKinds'
  BY <1>2, JobsTaken DEF Kinds
<1> QED BY <1>3, SameCalls DEF Sweep, Kinds, WorldKinds, HistoryKinds, world, ledger, past

\* A call ends, and writes nothing but its job, its slot and the oddities.
LEMMA EndKinds ==
  ASSUME FollowInv, Kinds, NEW a \in Actors, a \in Runners => Busy(a), NEW odd \in SUBSET OddThings,
         \/ Finish(a) /\ oddities' \subseteq OddThings /\ (Slip \/ UNCHANGED slips)
         \/ Fail(a, odd),
         UNCHANGED <<turn, activity, interview, booked>>, lastTouch' \in Turns \cup {0}, counted' \subseteq Touches,
         receipt' \in Turns \cup {0}
  PROVE  Kinds'
<1>1. ActorKinds' /\ TaskKinds' /\ oddities' \subseteq OddThings /\ slips' \in 0 .. MaxSlips
  BY FinishKind, FailKind, SlipKind DEF Kinds
<1> QED BY <1>1, SameWorld DEF Kinds, HistoryKinds

\* A call goes on.
LEMMA GoKinds ==
  ASSUME Kinds, ActorKinds', TaskKinds', oddities' \subseteq OddThings, Slip \/ UNCHANGED slips,
         UNCHANGED <<turn, activity, interview, booked>>, lastTouch' \in Turns \cup {0}, counted' \subseteq Touches,
         receipt' \in Turns \cup {0}
  PROVE  Kinds'
  BY SameWorld, SlipKind DEF Kinds, HistoryKinds

LEMMA OddHere ==
  /\ \A j : Late(j) \subseteq OddThings /\ Swept(j) \subseteq OddThings /\ GivenWay(j) \subseteq OddThings
  /\ \A r : Overlap(r) \subseteq OddThings
  /\ {} \in SUBSET OddThings /\ {"uncounted"} \in SUBSET OddThings /\ \A j : Dropped(j) \subseteq OddThings
  BY DEF Late, Swept, GivenWay, Overlap, OddThings, Dropped

LEMMA LookKinds == ASSUME FollowInv, Kinds, NEW a \in Actors, Look(a) PROVE Kinds'
<1>0. /\ ActorKinds /\ TaskKinds /\ oddities \subseteq OddThings /\ (a \in Runners => Busy(a))
      /\ UNCHANGED <<turn, activity, interview, booked>> /\ lastTouch' \in Turns \cup {0}
      /\ counted' \subseteq Touches /\ receipt' \in Turns \cup {0}
  BY DEF Look, Kinds, HistoryKinds, Busy, world, ledger
<1> DEFINE j == actor[a].add
<1>1. CASE /\ Finish(a) /\ (Slip \/ UNCHANGED slips)
           /\ UNCHANGED oddities \/ \E odd \in SUBSET OddThings : oddities' = oddities \cup odd
  BY <1>0, <1>1, OddHere, EndKinds
<1>2. CASE /\ Slip \/ UNCHANGED slips
           /\ Goes(a, "add") /\ task' = [i \in Tasks |-> IF i \in Removes(j) THEN Absent ELSE task[i]]
           /\ oddities' = oddities \cup Swept(j) \cup Late(j) \cup GivenWay(j)
  <2>1. ActorKinds'
    BY <1>0, <1>2, GoesKind DEF Points
  <2>2. \A i \in Tasks : (IF i \in Removes(j) THEN Absent ELSE task[i]) \in {Waiting, Absent, task[i]}
    OBVIOUS
  <2>3. TaskKinds'
    BY <1>0, <1>2, <2>2, NewJobKinds, Limits DEF TaskKinds
  <2> QED BY <1>0, <1>2, <2>1, <2>3, OddHere, GoKinds
<1>3. CASE Slip /\ Goes(a, "add") /\ UNCHANGED <<task, oddities>>
  BY <1>0, <1>3, GoesKind, SameJobs, GoKinds DEF Points
<1> QED BY <1>1, <1>2, <1>3, OddHere DEF Look

LEMMA AddKinds == ASSUME FollowInv, Kinds, NEW a \in Actors, Add(a) PROVE Kinds'
<1>0. /\ ActorKinds /\ TaskKinds /\ oddities \subseteq OddThings /\ (a \in Runners => Busy(a))
      /\ UNCHANGED <<turn, activity, interview, booked>> /\ lastTouch' \in Turns \cup {0}
      /\ counted' \subseteq Touches /\ receipt' \in Turns \cup {0}
  BY DEF Add, Kinds, HistoryKinds, Busy, world, ledger
<1> DEFINE j == actor[a].add
           added == IF task[j].st = "none" THEN [task EXCEPT ![j] = Waiting] ELSE task
<1>1. CASE /\ Rest(a) /\ UNCHANGED slips /\ oddities' = oddities \cup Late(j)
           /\ task' = IF a = Commander THEN added ELSE [added EXCEPT ![actor[a].task].st = "kept"]
  <2>1. ActorKinds'
    BY <1>0, <1>1, RestKind
  <2>2. j \in Tasks /\ actor[a].task \in Tasks
    BY <1>0 DEF ActorKinds, Entries
  <2>3. added \in [Tasks -> Jobs] /\ \A i \in Tasks : added[i].st \in {"waiting", "active"} => added[i].tries < MaxTries
    BY <1>0, <2>2, NewJobKinds, Limits DEF TaskKinds
  <2> HIDE DEF added
  <2>4. PICK x \in Jobs : x = added[actor[a].task]
    BY <2>2, <2>3
  <2>5. [x EXCEPT !.st = "kept"] \in Jobs /\ [x EXCEPT !.st = "kept"].st = "kept"
    BY <2>4 DEF Jobs
  <2>6. task' = added \/ task' = [added EXCEPT ![actor[a].task] = [x EXCEPT !.st = "kept"]]
    BY <1>1, <2>4
  <2>7. TaskKinds'
    BY <2>2, <2>3, <2>5, <2>6 DEF TaskKinds
  <2> QED BY <1>0, <1>1, <2>1, <2>7, OddHere, GoKinds
<1>2. CASE Fail(a, {})
  BY <1>0, <1>2, OddHere, EndKinds
<1>3. CASE Slip /\ Finish(a) /\ Odd("unscheduled")
  BY <1>0, <1>3, OddHere, EndKinds DEF Odd, OddThings
<1> QED BY <1>1, <1>2, <1>3 DEF Add

LEMMA RunCommandKinds == ASSUME FollowInv, RemindInv, Kinds, RunCommand PROVE Kinds'
<1>0. /\ ActorKinds /\ TaskKinds /\ oddities \subseteq OddThings /\ Commander \in Actors /\ Commander \notin Runners
      /\ UNCHANGED <<turn, interview, booked>> /\ lastTouch' \in Turns \cup {0}
      /\ counted' \subseteq Touches /\ receipt' \in Turns \cup {0}
  BY RunnersAct DEF RunCommand, Kinds, HistoryKinds, world, ledger
<1>1. PICK c \in Commands : c = Head(commands)
  BY DEF RunCommand, RemindInv, QueueInv
<1>2. /\ IsPre(c) => c \in Tasks
      /\ c[1] = "resolve" => c \in Tasks
      /\ c[2] \in Turns
  BY <1>1 DEF Commands, Resolves, IsPre, Pre, Resolve, Tasks, Touches
<1>3. CASE c[1] = "pre"
  <2>1. actor' = [actor EXCEPT ![Commander] = [Resting EXCEPT !.pc = "look", !.add = c]]
        /\ UNCHANGED <<activity, task, oddities, slips>>
    BY <1>1, <1>3 DEF RunCommand
  <2>2. PICK x \in Entries : x = Resting
    BY RestingKind
  <2>3. c \in Tasks
    BY <1>2, <1>3 DEF IsPre
  <2>4. [x EXCEPT !.pc = "look", !.add = c] \in Entries
    BY <2>2, <2>3 DEF Entries, Points
  <2>5. ActorKinds'
    BY <1>0, <2>1, <2>2, <2>4, CallKind
  <2> QED BY <1>0, <2>1, <2>5, SameJobs, GoKinds
<1>4. CASE c[1] # "pre"
  <2>1. CASE /\ activity' = IF c[1] = "activity" /\ c[2] > activity THEN c[2] ELSE activity
             /\ task' = (IF c[1] = "resolve" /\ task[c].st = "none" THEN [task EXCEPT ![c] = Waiting] ELSE task)
                \/ UNCHANGED task
             /\ UNCHANGED <<actor, slips>> /\ (UNCHANGED oddities \/ oddities' = oddities \cup Dropped(c))
    <3>1. TaskKinds'
      BY <1>0, <1>2, <2>1, NewJobKinds, Limits, JobKind, SameJobs
    <3>2. activity' \in Turns \cup {0}
      BY <1>2, <2>1 DEF Kinds, WorldKinds
    <3> QED BY <1>0, <2>1, <3>1, <3>2, SameCalls, OddHere DEF Kinds, WorldKinds, HistoryKinds
  <2>2. CASE Fail(Commander, {}) /\ UNCHANGED activity
    BY <1>0, <2>2, OddHere, EndKinds
  <2> QED BY <1>1, <1>4, <2>1, <2>2 DEF RunCommand
<1> QED BY <1>3, <1>4

LEMMA FireKinds == ASSUME Kinds, NEW r \in Runners, NEW j \in Tasks, FireTask(r, j) PROVE Kinds'
<1>0. ActorKinds /\ TaskKinds /\ r \in Actors /\ turn \in Turns \cup {0} /\ receipt \in Turns \cup {0}
  BY RunnersAct DEF Kinds, WorldKinds, HistoryKinds
<1>1. TaskKinds'
  BY <1>0, StateKind DEF FireTask, TaskKinds
<1>2. PICK x \in Entries : x = Resting
  BY RestingKind
<1>3. \A p \in {"recount", "judge"}, k \in Turns \cup {0} :
        [x EXCEPT !.pc = p, !.task = j, !.since = k] \in Entries /\ [x EXCEPT !.pc = p, !.task = j, !.since = k].pc = p
        /\ [x EXCEPT !.pc = p, !.task = j, !.since = k].task = j
  BY <1>2 DEF Entries, Points
<1>4. ActorKinds'
  <2>0. CASE UNCHANGED actor
    BY <1>0, <2>0, SameCalls
  <2>1. CASE j = Onboard /\ receipt # 0 /\ actor' # actor
    <3>1. actor' = [actor EXCEPT ![r] = [x EXCEPT !.pc = "recount", !.task = j, !.since = receipt]]
      BY <1>2, <2>1 DEF FireTask
    <3> QED BY <1>0, <1>3, <2>1, <3>1, CallKind, TasksHere
  <2>2. CASE ~(j = Onboard /\ receipt # 0) /\ actor' # actor
    <3>1. actor' = [actor EXCEPT ![r] = [x EXCEPT !.pc = "judge", !.task = j, !.since = turn]]
      BY <1>2, <2>2 DEF FireTask
    <3> QED BY <1>0, <1>3, <3>1, CallKind
  <2> QED BY <2>0, <2>1, <2>2
<1>5. oddities' \subseteq OddThings
  BY OddHere DEF FireTask, Kinds, HistoryKinds
<1> QED BY <1>1, <1>4, <1>5 DEF FireTask, Kinds, WorldKinds, HistoryKinds, world, ledger

\* What every step of a runner leaves alone.
LEMMA RunnerWorld ==
  ASSUME NEW r \in Runners,
         Judge(r) \/ Reserve(r) \/ Compose(r) \/ Deliver(r) \/ SaveReceipt(r) \/ MarkSent(r) \/ ScheduleOnboardingCheck(r)
  PROVE  UNCHANGED <<turn, activity, interview, booked>> /\ Busy(r)
  BY DEF Judge, Reserve, Compose, Deliver, SaveReceipt, MarkSent, ScheduleOnboardingCheck, world, Busy

LEMMA JudgeKinds == ASSUME FollowInv, RemindInv, Kinds, NEW r \in Runners, Judge(r) PROVE Kinds'
<1>0. /\ ActorKinds /\ TaskKinds /\ oddities \subseteq OddThings /\ r \in Actors /\ Busy(r)
      /\ UNCHANGED <<turn, activity, interview, booked>> /\ lastTouch' \in Turns \cup {0}
      /\ counted' \subseteq Touches /\ receipt' \in Turns \cup {0}
  BY RunnersAct, RunnerWorld DEF Judge, Kinds, HistoryKinds, ledger
<1> DEFINE j == actor[r].task
<1>1. j \in Tasks
  BY <1>0 DEF ActorKinds, Entries
<1>2. ASSUME Finish(r), oddities' \subseteq OddThings, UNCHANGED slips PROVE Kinds'
  BY <1>0, <1>2, OddHere, EndKinds
<1>3. ASSUME Gate(r), UNCHANGED slips, j \in Touches PROVE Kinds'
  <2>1. CASE Finish(r) /\ UNCHANGED oddities
    BY <1>0, <1>2, <1>3, <2>1
  <2>2. CASE Goes(r, "reserve") /\ UNCHANGED task /\ oddities' = oddities \cup Overlap(r)
    BY <1>0, <1>3, <2>2, GoesKind, SameJobs, OddHere, GoKinds DEF Points
  <2> QED BY <1>3, <2>1, <2>2 DEF Gate
<1>4. ASSUME Schedules(r, Remind(interview.at)), interview.st = "active", UNCHANGED <<oddities, slips>> PROVE Kinds'
  <2>1. PICK i \in Tasks : i = Remind(interview.at)
    BY <1>4 DEF RemindInv, WorldInv, Tasks, Touches
  <2>2. PICK x \in Entries : x = actor[r]
    BY <1>0 DEF ActorKinds
  <2>3. /\ [x EXCEPT !.pc = "look", !.add = i] \in Entries /\ [x EXCEPT !.pc = "look", !.add = i].pc = "look"
        /\ actor' = [actor EXCEPT ![r] = [x EXCEPT !.pc = "look", !.add = i]]
    BY <1>0, <1>4, <2>1, <2>2 DEF Schedules, Entries, Points, ActorKinds
  <2>4. ActorKinds'
    BY <1>0, <2>3, CallKind
  <2> QED BY <1>0, <1>4, <2>4, SameJobs, GoKinds DEF Schedules
<1>5. (IsPre(j) \/ j[1] = "remind" \/ j = Onboard) => j \in Touches
  BY <1>1 DEF Tasks, Touches, Resolve, CheckUp, IsPre
<1>6. CASE IsPre(j) /\ UNCHANGED slips /\ ((Finish(r) /\ UNCHANGED oddities) \/ Gate(r))
  BY <1>0, <1>2, <1>3, <1>5, <1>6
<1>7. CASE /\ j[1] = "resolve" /\ UNCHANGED <<slips, oddities>>
           /\ IF interview.st = "active" THEN Schedules(r, Remind(interview.at)) ELSE Finish(r)
  BY <1>0, <1>2, <1>4, <1>7
<1>8. CASE /\ j[1] = "remind" /\ UNCHANGED slips
           /\ \/ interview.st = "active" /\ Schedules(r, Remind(interview.at)) /\ UNCHANGED oddities
              \/ Gate(r)
              \/ Finish(r) /\ UNCHANGED oddities
  BY <1>0, <1>2, <1>3, <1>4, <1>5, <1>8
<1>9. CASE /\ j = Onboard /\ UNCHANGED slips
           /\ IF interview.st = "passed" THEN Gate(r) ELSE Finish(r) /\ UNCHANGED oddities
  BY <1>0, <1>2, <1>3, <1>5, <1>9
<1>10. CASE Finish(r) /\ UNCHANGED <<slips, oddities>>
  BY <1>0, <1>2, <1>10
<1>11. CASE Fail(r, {})
  BY <1>0, <1>11, OddHere, EndKinds
<1>12. CASE Finish(r) /\ oddities' = oddities \cup Dropped(j) /\ UNCHANGED slips
  BY <1>0, <1>2, <1>12, OddHere
<1> QED BY <1>6, <1>7, <1>8, <1>9, <1>10, <1>11, <1>12 DEF Judge

LEMMA SendingKinds ==
  ASSUME FollowInv, Kinds, NEW r \in Runners, Reserve(r) \/ Compose(r) \/ Deliver(r) \/ SaveReceipt(r)
  PROVE  Kinds'
<1>0. /\ ActorKinds /\ TaskKinds /\ oddities \subseteq OddThings /\ r \in Actors /\ Busy(r)
      /\ UNCHANGED <<turn, activity, interview, booked>> /\ lastTouch' \in Turns \cup {0}
      /\ counted' \subseteq Touches
  BY RunnersAct, RunnerWorld DEF Reserve, Compose, Deliver, SaveReceipt, Kinds, HistoryKinds
<1>1. PICK x \in Entries : x = actor[r]
  BY <1>0 DEF ActorKinds
<1>2. receipt' \in Turns \cup {0}
  BY <1>1 DEF Reserve, Compose, Deliver, SaveReceipt, Kinds, HistoryKinds, Entries
<1>3. actor[r].task \in Touches
  BY <1>0 DEF Reserve, Compose, Deliver, SaveReceipt, ActorKinds, Sending
<1>4. ASSUME NEW odd \in SUBSET OddThings, (Finish(r) /\ UNCHANGED <<oddities, slips>>) \/ Fail(r, odd) PROVE Kinds'
  BY <1>0, <1>2, <1>4, EndKinds
<1>5. ASSUME NEW p \in {"compose", "deliver", "count"}, Goes(r, p), UNCHANGED <<task, oddities, slips>> PROVE Kinds'
  BY <1>0, <1>2, <1>3, <1>5, GoesKind, SameJobs, GoKinds DEF Points
<1>6. ASSUME actor' = [actor EXCEPT ![r] = IF actor[r].task = Onboard THEN [@ EXCEPT !.pc = "receipt", !.since = turn]
                                           ELSE [@ EXCEPT !.pc = "count"]],
             UNCHANGED <<task, oddities, slips>>
      PROVE  Kinds'
  <2>1. /\ [x EXCEPT !.pc = "receipt", !.since = turn] \in Entries /\ [x EXCEPT !.pc = "count"] \in Entries
        /\ [x EXCEPT !.pc = "receipt", !.since = turn].task = x.task /\ [x EXCEPT !.pc = "count"].task = x.task
    BY <1>1 DEF Entries, Points, Kinds, WorldKinds
  <2>2. PICK c \in Entries : actor' = [actor EXCEPT ![r] = c] /\ c.task = x.task
    BY <1>0, <1>1, <1>6, <2>1 DEF ActorKinds
  <2>3. ActorKinds'
    BY <1>0, <1>1, <1>3, <2>2, CallKind
  <2> QED BY <1>0, <1>2, <1>6, <2>3, SameJobs, GoKinds
<1>7. CASE Reserve(r)
  BY <1>4, <1>5, <1>7, OddHere DEF Reserve
<1>8. CASE Compose(r)
  BY <1>4, <1>5, <1>8, OddHere DEF Compose
<1>9. CASE Deliver(r)
  BY <1>4, <1>6, <1>9, OddHere DEF Deliver
<1>10. CASE SaveReceipt(r)
  BY <1>4, <1>5, <1>10, OddHere DEF SaveReceipt
<1> QED BY <1>7, <1>8, <1>9, <1>10

LEMMA MarkSentKinds == ASSUME FollowInv, Kinds, NEW r \in Runners, MarkSent(r) PROVE Kinds'
<1>0. /\ ActorKinds /\ TaskKinds /\ oddities \subseteq OddThings /\ r \in Actors /\ Busy(r)
      /\ UNCHANGED <<turn, activity, interview, booked>> /\ receipt' \in Turns \cup {0}
  BY RunnersAct, RunnerWorld DEF MarkSent, Kinds, HistoryKinds
<1>1. actor[r].task \in Touches /\ actor[r].since \in Turns \cup {0}
  BY <1>0 DEF MarkSent, ActorKinds, Sending, Entries
<1>2. lastTouch' \in Turns \cup {0} /\ counted' \subseteq Touches
  BY <1>1 DEF MarkSent, Kinds, HistoryKinds
<1>3. CASE Finish(r) /\ UNCHANGED <<oddities, slips>>
  BY <1>0, <1>2, <1>3, OddHere, EndKinds
<1>4. CASE Fail(r, {"uncounted"})
  BY <1>0, <1>2, <1>4, OddHere, EndKinds
<1>5. CASE Goes(r, "check") /\ UNCHANGED <<task, oddities, slips>>
  BY <1>0, <1>2, <1>5, GoesKind, SameJobs, GoKinds DEF Points
<1> QED BY <1>3, <1>4, <1>5 DEF MarkSent

LEMMA CheckKinds == ASSUME FollowInv, Kinds, NEW r \in Runners, ScheduleOnboardingCheck(r) PROVE Kinds'
<1>0. /\ ActorKinds /\ TaskKinds /\ oddities \subseteq OddThings /\ r \in Actors /\ Busy(r)
      /\ UNCHANGED <<turn, activity, interview, booked>> /\ lastTouch' \in Turns \cup {0}
      /\ counted' \subseteq Touches /\ receipt' \in Turns \cup {0}
  BY RunnersAct, RunnerWorld DEF ScheduleOnboardingCheck, Kinds, HistoryKinds, ledger
<1>1. CASE Rest(r) /\ task' = WithCheckUp /\ UNCHANGED <<oddities, slips>>
  <2>1. PICK x \in Jobs : x = task[Onboard]
    BY <1>0, TasksHere DEF TaskKinds
  <2>2. [x EXCEPT !.st = "kept"] \in Jobs /\ [x EXCEPT !.st = "kept"].st = "kept"
    BY <2>1 DEF Jobs
  <2>3. PICK y \in Jobs : /\ y = (IF task[CheckUp].st = "none" THEN Waiting ELSE task[CheckUp])
                          /\ y.st \in {"waiting", "active"} => y.tries < MaxTries
    BY <1>0, TasksHere, NewJobKinds, Limits DEF TaskKinds
  <2>4. task' = [task EXCEPT ![Onboard] = [x EXCEPT !.st = "kept"], ![CheckUp] = y]
    BY <1>0, <1>1, <2>1, <2>3, TasksHere DEF WithCheckUp, TaskKinds
  <2>5. TaskKinds'
    BY <1>0, <2>2, <2>3, <2>4, TasksHere DEF TaskKinds
  <2> QED BY <1>0, <1>1, <2>5, RestKind, GoKinds
<1>2. CASE Fail(r, {}) \/ (Finish(r) /\ oddities' = oddities \cup Dropped(CheckUp) /\ UNCHANGED slips)
  BY <1>0, <1>2, OddHere, EndKinds
<1> QED BY <1>1, <1>2 DEF ScheduleOnboardingCheck

LEMMA DiesKinds == ASSUME Kinds, ProcessDies PROVE Kinds'
<1>1. ActorKinds'
  BY RestingKind, RunnersAct DEF ProcessDies, ActorKinds, Sending
<1>2. ASSUME NEW y \in Jobs, y.st \in {"waiting", "active"} => y.tries < MaxTries
      PROVE  LET x == IF y.st = "active" THEN Stalled(y) ELSE y
             IN  x \in Jobs /\ (x.st \in {"waiting", "active"} => x.tries < MaxTries)
  <2>1. CASE y.st = "active" /\ ~ (y.stalls >= MaxStalls)
    <3>1. PICK n \in 0 .. MaxStalls : n = y.stalls + 1
      BY <2>1, Limits DEF Jobs
    <3>2. /\ [y EXCEPT !.st = "waiting", !.stalls = n] \in Jobs
          /\ [y EXCEPT !.st = "waiting", !.stalls = n].tries = y.tries
      BY DEF Jobs
    <3>3. Stalled(y) = [y EXCEPT !.st = "waiting", !.stalls = n]
      BY <2>1, <3>1 DEF Stalled
    <3> QED BY <1>2, <2>1, <3>2, <3>3
  <2>2. CASE y.st = "active" /\ y.stalls >= MaxStalls
    <3>1. [y EXCEPT !.st = "kept"] \in Jobs /\ [y EXCEPT !.st = "kept"].st = "kept"
      BY DEF Jobs
    <3>2. Stalled(y) = [y EXCEPT !.st = "kept"]
      BY <2>2 DEF Stalled
    <3> QED BY <2>2, <3>1, <3>2
  <2>3. CASE y.st # "active"
    BY <1>2, <2>3
  <2> QED BY <2>1, <2>2, <2>3
<1>3. TaskKinds'
  BY <1>2 DEF ProcessDies, Kinds, TaskKinds
<1>4. oddities' \subseteq OddThings
  BY DEF ProcessDies, Kinds, HistoryKinds, OddThings
<1>5. Slip
  BY DEF ProcessDies
<1> QED BY <1>1, <1>3, <1>4, <1>5, GoKinds DEF ProcessDies, world, ledger, Kinds, HistoryKinds

LEMMA KindsStep == FollowInv /\ RemindInv /\ Kinds /\ [FollowNext]_followVars => Kinds'
<1> SUFFICES ASSUME FollowInv, RemindInv, Kinds, [FollowNext]_followVars PROVE Kinds'
  OBVIOUS
<1> QED BY TurnKinds, OutsideKinds, TimeKinds, SweepKinds, RunCommandKinds, LookKinds, AddKinds, FireKinds,
           JudgeKinds, SendingKinds, MarkSentKinds, CheckKinds, DiesKinds DEF FollowNext

\* FollowTypeOK for any turns, hours, runners and bounds: no job runs more often than its attempts
\* allow, and only touches get a slot, a delivery and a place in what the limit counts.
THEOREM FollowTypes == FollowSpec => []FollowTypeOK
<1>1. FollowInv /\ RemindInv /\ Kinds => FollowTypeOK
  BY DEF FollowInv, TouchInv, LedgerTypes, RemindInv, WorldInv, Kinds, ActorKinds, TaskKinds, WorldKinds,
         HistoryKinds, Entries, Jobs, Interviews, FollowTypeOK
<1> QED BY <1>1, FollowStart, FollowStep, RemindStart, RemindStep, KindsStart, KindsStep, PTL DEF FollowSpec

-----------------------------------------------------------------------------
(* The three background components side by side. *)

\* What TLC checks in the instance of MCBackground are behaviours of each component: the theorems
\* about a component hold there.
THEOREM SideBySide == Spec => SlotSpec /\ BookingSpec /\ FollowSpec
<1>1. Init => SlotInit /\ BookingInit /\ FollowInit
  BY DEF Init
<1>2. [Next]_vars => [SlotNext]_slotVars /\ [BookingNext]_bookingVars /\ [FollowNext]_followVars
  BY DEF Next, vars
<1> QED BY <1>1, <1>2, PTL DEF Spec, SlotSpec, BookingSpec, FollowSpec

\* TypeOK of the three for every value of the constants.
THEOREM BackgroundTypes == Spec => []TypeOK
<1>1. SlotTypeOK /\ BookingTypeOK /\ FollowTypeOK => TypeOK
  BY DEF TypeOK
<1> QED BY <1>1, SideBySide, SlotTypes, BookingTypes, FollowTypes, PTL
=============================================================================
