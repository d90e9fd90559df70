------------------------------ MODULE FollowUps ------------------------------
(***************************************************************************)
(* Proactive follow-ups of one session: turns put commands into a queue,   *)
(* the command worker and two runners schedule delayed jobs that replace   *)
(* each other, and a runner that finds a job due asks the provider for the *)
(* interview, passes the gates, and sends at most once through the touch   *)
(* ledger.  Pre-booking jobs are named after their turn, reminders after   *)
(* the hour of the interview, resolutions after the turn that booked.      *)
(* Staff may turn the follow-ups off and on at any time, so whoever reads  *)
(* the master switch may find it off, and drops what is due or scheduled.  *)
(***************************************************************************)
EXTENDS Integers, Sequences, FiniteSets

CONSTANTS
  Runners,      \* handlers of the follow-up queue, two in the code
  Commander,    \* the handler of the command queue
  Turns,        \* turns of the candidate, 1 .. their number
  Collecting,   \* those whose pre-booking job is booking_incomplete, which has priority
  Hours,        \* hours an interview may be at
  MaxTouches,   \* the code's 2 in 24 h; a behaviour lasts less
  MaxTries,     \* attempts of a follow-up job, the code's 2 (6 for a resolution)
  MaxStalls,    \* crashes a job survives, the code's 2
  MaxSlips      \* bound: failed calls, crashes and changes made by staff

ASSUME FollowAssumption ==
  /\ IsFiniteSet(Runners) /\ Runners # {} /\ Commander \notin Runners
  /\ Turns \subseteq Nat \ {0} /\ Collecting \subseteq Turns /\ Hours \subseteq Nat \ {0}
  /\ MaxTouches \in Nat /\ MaxTries \in Nat \ {0} /\ MaxStalls \in Nat /\ MaxSlips \in Nat

VARIABLES
  hour,        \* the time, as far as the interview is concerned
  interview,   \* the work order at the provider: status and hour
  turn,        \* the latest turn
  booked,      \* terminal state of the session
  activity,    \* lastCandidateMessageAt
  commands,    \* the reengagement-commands queue
  task,        \* the follow-up queue: per job id its state, failed attempts and crashes
  receipt,     \* onboardingTouchAcceptedAt on the onboarding job, as a turn, 0 for none
  touch,       \* touch ledger: per key its slot
  counted,     \* keys in the list that the frequency limit counts
  lastTouch,   \* turn in which the last touch that counts for the cooldown began, 0 for none
  actor,       \* per runner and the commander: the call it is in
  reached,     \* history: messages that reached the candidate, per key
  oddities,    \* history: what may cost a reminder or exceed the limit
  slips

world == <<hour, interview, turn, booked>>
ledger == <<touch, counted, lastTouch>>
past == <<reached, oddities, slips>>
followVars == <<world, activity, commands, task, receipt, ledger, actor, past>>

Pre(k) == <<"pre", k>>

\* Mutant: the resolution is named after the order only.
Resolve_ByOrder(k) == <<"resolve", 1>>

Resolve(k) == <<"resolve", k>>
Remind(v) == <<"remind", v>>
Onboard == <<"onboard", 0>>
CheckUp == <<"checkup", 0>>
Touches == {Pre(k) : k \in Turns} \cup {Remind(v) : v \in Hours} \cup {Onboard}
Tasks == Touches \cup {Resolve(k) : k \in Turns} \cup {CheckUp}
Actors == Runners \cup {Commander}

Absent == [st |-> "none", tries |-> 0, stalls |-> 0]
Waiting == [st |-> "waiting", tries |-> 0, stalls |-> 0]
Resting == [pc |-> "rest", task |-> CheckUp, add |-> CheckUp, since |-> 0]
OddThings == {"outside", "late", "swept", "again", "unscheduled", "exhausted", "overlap", "uncounted",
              "disabled", "halted", "unchecked"}
Points == {"rest", "judge", "look", "add", "reserve", "compose", "deliver", "receipt", "count",
           "recount", "check"}

FollowInit ==
  /\ hour = 0 /\ interview = [st |-> "none", at |-> 0] /\ turn = 0 /\ booked = FALSE
  /\ activity = 0 /\ commands = <<>> /\ task = [j \in Tasks |-> Absent] /\ receipt = 0
  /\ touch = [j \in Touches |-> "free"] /\ counted = {} /\ lastTouch = 0
  /\ actor = [a \in Actors |-> Resting]
  /\ reached = [j \in Touches |-> 0] /\ oddities = {} /\ slips = 0

-----------------------------------------------------------------------------
(* The world. *)

Slip == slips < MaxSlips /\ slips' = slips + 1
Odd(s) == oddities' = oddities \cup {s}

NextTurn(k) ==
  /\ k = turn + 1 /\ turn' = k
  /\ UNCHANGED <<hour, activity, task, receipt, ledger, actor, reached, slips>>

\* The candidate writes, and the reply presents jobs or collects data.
Talk(k) ==
  /\ NextTurn(k)
  /\ commands' = commands \o <<<<"activity", k>>>> \o (IF booked THEN <<>> ELSE <<Pre(k)>>)
  /\ UNCHANGED <<interview, booked, oddities>>

\* The turn books or moves the interview: from now on the hour is the turn's, and it has a
\* command of its own.
BookOrMove(k, v) ==
  /\ NextTurn(k) /\ v > hour /\ interview.st \in {"none", "active"} /\ v # interview.at
  /\ interview' = [st |-> "active", at |-> v] /\ booked' = TRUE
  /\ commands' = commands \o <<<<"activity", k>>, Resolve(k)>>
  /\ oddities' = oddities \ {"outside", "disabled"}

CancelOrder(k) ==
  /\ NextTurn(k) /\ interview.st = "active"
  /\ interview' = [interview EXCEPT !.st = "ended"] /\ booked' = FALSE
  /\ commands' = Append(commands, <<"activity", k>>)
  /\ UNCHANGED oddities

\* Staff or the provider change the order without a turn.
ChangedOutside(st, v) ==
  /\ interview.st = "active" /\ v > hour /\ Slip /\ Odd("outside")
  /\ interview' = [st |-> st, at |-> v]
  /\ UNCHANGED <<hour, turn, booked, activity, commands, task, receipt, ledger, actor, reached>>

HourPasses ==
  /\ \E v \in Hours : hour < v
  /\ hour' = hour + 1
  /\ interview' = IF interview.st = "active" /\ interview.at = hour'
                  THEN [interview EXCEPT !.st = "passed"] ELSE interview
  /\ UNCHANGED <<turn, booked, activity, commands, task, receipt, ledger, actor, past>>

CooldownEnds ==
  /\ lastTouch # 0 /\ lastTouch' = 0
  /\ UNCHANGED <<world, activity, commands, task, receipt, touch, counted, actor, past>>

\* The sweep finds that the interview was passed; the job it schedules ends pre-booking ones.
IsPre(j) == j[1] = "pre"
Sweep ==
  /\ interview.st = "passed" /\ task[Onboard].st = "none"
  /\ task' = [j \in Tasks |-> IF j = Onboard THEN Waiting
                              ELSE IF IsPre(j) /\ task[j].st = "waiting" THEN Absent ELSE task[j]]
  /\ UNCHANGED <<world, activity, commands, receipt, ledger, actor, past>>

-----------------------------------------------------------------------------
(* The end of a call. *)

Rest(a) == actor' = [actor EXCEPT ![a] = Resting]

\* Queue and job ids stay as they are: finished jobs are kept for days.
Finish(a) ==
  /\ Rest(a)
  /\ IF a = Commander THEN commands' = Tail(commands) /\ UNCHANGED task
     ELSE task' = [task EXCEPT ![actor[a].task].st = "kept"] /\ UNCHANGED commands

\* A failed command comes again after others; a failed job is retried or given up.
Fail(a, odd) ==
  /\ Rest(a) /\ Slip
  /\ IF a = Commander
     THEN commands' = Append(Tail(commands), Head(commands)) /\ UNCHANGED <<task, oddities>>
     ELSE LET j == actor[a].task
              last == task[j].tries + 1 >= MaxTries
          IN  /\ task' = [task EXCEPT ![j].st = IF last THEN "kept" ELSE "waiting", ![j].tries = @ + 1]
              /\ oddities' = oddities \cup odd \cup (IF last THEN {"exhausted"} ELSE {})
              /\ UNCHANGED commands

Goes(a, p) == actor' = [actor EXCEPT ![a].pc = p]

\* What is lost with job j when reengagementEnabled, read before it is scheduled or run, is off: the
\* wrap-up of an onboarding message, its check, or a reminder of the interview.
Dropped(j) ==
  CASE j = Onboard -> {"halted"}
    [] j = CheckUp -> {"unchecked"}
    [] IsPre(j) -> {}
    [] OTHER -> {"disabled"}

-----------------------------------------------------------------------------
(* scheduleFollowUp, for the commander and for runners. *)

Blocked(j) == /\ IsPre(j) /\ j[2] \notin Collecting
              /\ \E k \in Collecting : task[Pre(k)].st = "waiting"

\* Jobs that a new one replaces: pre-booking ones always, and for a reminder every other job of
\* the same order and scenario, whatever turn it is from.
Removes(j) ==
  {i \in Tasks \ {j} : /\ task[i].st = "waiting"
                       /\ IsPre(i) \/ (j[1] = "remind" /\ i[1] \in {"remind", "resolve"})}

Stale(j) == j[1] = "remind" /\ j # Remind(interview.at)
Late(j) == IF Stale(j) THEN {"late"} ELSE {}
Swept(j) == IF \E k \in Turns : Resolve(k) \in Removes(j) THEN {"swept"} ELSE {}

\* A reminder for this hour has given way to another one before, and finished jobs are kept.
GivenWay(j) ==
  IF j[1] = "remind" /\ task[j].st \in {"active", "kept"} /\ touch[j] = "free" THEN {"again"} ELSE {}

\* The switch is off, or it looks for the job itself and for those it replaces; a look that fails
\* finds nothing.
Look(a) ==
  LET j == actor[a].add
      exists == task[j].st # "none"
  IN  /\ actor[a].pc = "look"
      /\ \/ Finish(a) /\ oddities' = oddities \cup Dropped(j) /\ UNCHANGED slips
         \/ exists /\ Finish(a) /\ oddities' = oddities \cup GivenWay(j) /\ UNCHANGED slips
         \/ /\ IF exists THEN Slip ELSE UNCHANGED slips
            /\ \/ Blocked(j) /\ Finish(a) /\ UNCHANGED oddities
               \/ /\ ~Blocked(j) /\ Goes(a, "add")
                  /\ task' = [i \in Tasks |-> IF i \in Removes(j) THEN Absent ELSE task[i]]
                  /\ oddities' = oddities \cup Swept(j) \cup Late(j) \cup GivenWay(j)
                  /\ UNCHANGED commands
         \/ ~exists /\ Slip /\ Goes(a, "add") /\ UNCHANGED <<task, oddities, commands>>
      /\ UNCHANGED <<world, activity, receipt, ledger, reached>>

\* Adds the job.  The commander retries a failure, a runner does not look at the result.
Add(a) ==
  LET j == actor[a].add
      added == IF task[j].st = "none" THEN [task EXCEPT ![j] = Waiting] ELSE task
  IN  /\ actor[a].pc = "add"
      /\ \/ /\ Rest(a) /\ UNCHANGED slips
            /\ IF a = Commander THEN commands' = Tail(commands) /\ task' = added
               ELSE task' = [added EXCEPT ![actor[a].task].st = "kept"] /\ UNCHANGED commands
            /\ oddities' = oddities \cup Late(j)
         \/ a = Commander /\ Fail(a, {})
         \/ a # Commander /\ Slip /\ Finish(a) /\ Odd("unscheduled")
      /\ UNCHANGED <<world, activity, receipt, ledger, reached>>

\* The commander takes the first command: activity is recorded, a resolution is added unless the
\* switch is off, a follow-up scheduled.
RunCommand ==
  LET c == Head(commands)
      done == commands' = Tail(commands) /\ UNCHANGED <<actor, slips>>
      resolved == IF task[c].st = "none" THEN [task EXCEPT ![c] = Waiting] ELSE task
  IN  /\ actor[Commander].pc = "rest" /\ commands # <<>>
      /\ \/ /\ c[1] = "pre" /\ UNCHANGED <<activity, task, commands, oddities, slips>>
            /\ actor' = [actor EXCEPT ![Commander] = [Resting EXCEPT !.pc = "look", !.add = c]]
         \/ /\ c[1] = "activity" /\ done /\ UNCHANGED <<task, oddities>>
            /\ activity' = IF c[2] > activity THEN c[2] ELSE activity
         \/ /\ c[1] = "resolve" /\ done /\ UNCHANGED activity
            /\ \/ task' = resolved /\ UNCHANGED oddities
               \/ oddities' = oddities \cup Dropped(c) /\ UNCHANGED task
         \/ c[1] # "pre" /\ Fail(Commander, {}) /\ UNCHANGED activity
      /\ UNCHANGED <<world, receipt, ledger, reached>>

-----------------------------------------------------------------------------
(* process. *)

DueAt(j) == IF j[1] = "remind" THEN j[2] - 1 ELSE 0

\* With the switch off a due job ends here, also one whose message was accepted.
FireTask(r, j) ==
  /\ actor[r].pc = "rest" /\ task[j].st = "waiting" /\ hour >= DueAt(j)
  /\ \/ /\ task' = [task EXCEPT ![j].st = "kept"]
        /\ oddities' = oddities \cup Dropped(j) /\ UNCHANGED actor
     \/ /\ task' = [task EXCEPT ![j].st = "active"]
        /\ actor' = [actor EXCEPT ![r] = IF j = Onboard /\ receipt # 0
                       THEN [Resting EXCEPT !.pc = "recount", !.task = j, !.since = receipt]
                       ELSE [Resting EXCEPT !.pc = "judge", !.task = j, !.since = turn]]
        /\ UNCHANGED oddities
  /\ UNCHANGED <<world, activity, commands, receipt, ledger, reached, slips>>

\* A job that schedules another one.
Schedules(r, j) == /\ actor' = [actor EXCEPT ![r].pc = "look", ![r].add = j]
                   /\ UNCHANGED <<task, commands>>

Cooling == lastTouch # 0 /\ activity <= lastTouch

\* Mutant: off by one.
OverLimit_Above == Cardinality(counted) > MaxTouches

OverLimit == Cardinality(counted) >= MaxTouches
Sending(r) == actor[r].pc \in {"reserve", "compose", "deliver", "receipt", "count", "recount"}
Overlap(r) == IF \E s \in Runners \ {r} : Sending(s) THEN {"overlap"} ELSE {}

\* The gates of a touch.
Gate(r) ==
  LET j == actor[r].task
  IN  IF (j[1] # "remind" /\ Cooling) \/ OverLimit THEN Finish(r) /\ UNCHANGED oddities
      ELSE /\ Goes(r, "reserve") /\ UNCHANGED <<task, commands>>
           /\ oddities' = oddities \cup Overlap(r)

\* What is due by now decides: the permit, which reads the switch again, the state of the session for
\* a pre-booking job, the order as the provider shows it for the others.
Judge(r) ==
  LET j == actor[r].task
      active == interview.st = "active"
  IN  /\ actor[r].pc = "judge"
      /\ \/ /\ j \in Touches /\ Finish(r) /\ oddities' = oddities \cup Dropped(j)
            /\ UNCHANGED slips
         \/ /\ IsPre(j) /\ UNCHANGED slips
            /\ IF booked \/ activity > j[2] THEN Finish(r) /\ UNCHANGED oddities ELSE Gate(r)
         \/ /\ j[1] = "resolve" /\ UNCHANGED <<slips, oddities>>
            /\ IF active THEN Schedules(r, Remind(interview.at)) ELSE Finish(r)
         \/ /\ j[1] = "remind" /\ UNCHANGED slips
            /\ \/ /\ active /\ interview.at - 1 > hour
                  /\ Schedules(r, Remind(interview.at)) /\ UNCHANGED oddities
               \/ active /\ interview.at - 1 = hour /\ Gate(r)
               \/ ~active /\ Finish(r) /\ UNCHANGED oddities
         \/ /\ j = Onboard /\ UNCHANGED slips
            /\ IF interview.st = "passed" THEN Gate(r) ELSE Finish(r) /\ UNCHANGED oddities
         \/ j = CheckUp /\ Finish(r) /\ UNCHANGED <<slips, oddities>>
         \/ Fail(r, {})
      /\ UNCHANGED <<world, activity, receipt, ledger, reached>>

Mark(r, s) == touch' = [touch EXCEPT ![actor[r].task] = s]

\* Mutant: a slot whose outcome was never confirmed is taken again.
Reservable_Unconfirmed(j) == touch[j] # "sent"

Reservable(j) == touch[j] = "free"

\* SET NX of the slot; a call that failed may have taken it.
Reserve(r) ==
  LET free == Reservable(actor[r].task)
  IN  /\ actor[r].pc = "reserve"
      /\ \/ /\ free /\ Mark(r, "reserved") /\ Goes(r, "compose")
            /\ UNCHANGED <<task, commands, oddities, slips>>
         \/ ~free /\ Finish(r) /\ UNCHANGED <<touch, oddities, slips>>
         \/ Fail(r, {}) /\ (UNCHANGED touch \/ (free /\ Mark(r, "reserved")))
      /\ UNCHANGED <<world, activity, receipt, counted, lastTouch, reached>>

\* A failed composition leaves the slot reserved, so the retry will skip.
Compose(r) ==
  /\ actor[r].pc = "compose"
  /\ \/ Goes(r, "deliver") /\ UNCHANGED <<task, commands, touch, oddities, slips>>
     \/ Mark(r, "failed") /\ Finish(r) /\ UNCHANGED <<oddities, slips>>
     \/ Fail(r, {}) /\ UNCHANGED touch
  /\ UNCHANGED <<world, activity, receipt, counted, lastTouch, reached>>

Reach(r) == reached' = [reached EXCEPT ![actor[r].task] = @ + 1]

\* Sent, skipped, or not known.
Deliver(r) ==
  /\ actor[r].pc = "deliver"
  /\ \/ /\ Mark(r, "attempted") /\ Reach(r)
        /\ actor' = [actor EXCEPT ![r] =
             IF actor[r].task = Onboard THEN [@ EXCEPT !.pc = "receipt", !.since = turn]
             ELSE [@ EXCEPT !.pc = "count"]]
        /\ UNCHANGED <<task, commands, oddities, slips>>
     \/ Mark(r, "failed") /\ Finish(r) /\ UNCHANGED <<reached, oddities, slips>>
     \/ Mark(r, "unknown") /\ Fail(r, {"uncounted"}) /\ (Reach(r) \/ UNCHANGED reached)
  /\ UNCHANGED <<world, activity, receipt, counted, lastTouch>>

\* The onboarding job remembers that its message was accepted.
SaveReceipt(r) ==
  /\ actor[r].pc = "receipt"
  /\ \/ /\ receipt' = actor[r].since /\ Goes(r, "count")
        /\ UNCHANGED <<task, commands, touch, oddities, slips>>
     \/ Mark(r, "unknown") /\ Fail(r, {"uncounted"}) /\ UNCHANGED receipt
  /\ UNCHANGED <<world, activity, counted, lastTouch, reached>>

\* markSent counts a key once; if it fails, it may have counted.  A retry of the accepted
\* onboarding job does not mark the slot when it fails again.
MarkSent(r) ==
  LET j == actor[r].task
      first == actor[r].pc = "count"
      count == /\ counted' = counted \cup {j}
               /\ lastTouch' = IF actor[r].since > lastTouch THEN actor[r].since ELSE lastTouch
  IN  /\ actor[r].pc \in {"count", "recount"}
      /\ \/ /\ Mark(r, "sent") /\ count /\ UNCHANGED <<oddities, slips>>
            /\ IF j = Onboard THEN Goes(r, "check") /\ UNCHANGED <<task, commands>> ELSE Finish(r)
         \/ /\ Fail(r, {"uncounted"})
            /\ \/ count /\ Mark(r, IF first THEN "unknown" ELSE "sent")
               \/ /\ UNCHANGED <<counted, lastTouch>>
                  /\ IF first THEN Mark(r, "unknown") ELSE UNCHANGED touch
      /\ UNCHANGED <<world, activity, receipt, reached>>

WithCheckUp == [task EXCEPT ![Onboard].st = "kept",
                            ![CheckUp] = IF @.st = "none" THEN Waiting ELSE @]

\* Mutant: a check that could not be added is only logged.
ScheduleOnboardingCheck_Logged(r) ==
  /\ actor[r].pc = "check"
  /\ \/ Rest(r) /\ task' = WithCheckUp /\ UNCHANGED <<commands, oddities, slips>>
     \/ Finish(r) /\ oddities' = oddities \cup Dropped(CheckUp) /\ UNCHANGED slips
     \/ Slip /\ Finish(r) /\ UNCHANGED oddities
  /\ UNCHANGED <<world, activity, receipt, ledger, reached>>

\* The check two days later is scheduled before the onboarding job may end; with the switch off
\* there is none, and the job ends as if there were.
ScheduleOnboardingCheck(r) ==
  /\ actor[r].pc = "check"
  /\ \/ Rest(r) /\ task' = WithCheckUp /\ UNCHANGED <<commands, oddities, slips>>
     \/ Finish(r) /\ oddities' = oddities \cup Dropped(CheckUp) /\ UNCHANGED slips
     \/ Fail(r, {})
  /\ UNCHANGED <<world, activity, receipt, ledger, reached>>

\* A job found stalled is handed out again, but not forever.
Stalled(x) == IF x.stalls >= MaxStalls THEN [x EXCEPT !.st = "kept"]
              ELSE [x EXCEPT !.st = "waiting", !.stalls = @ + 1]

\* The process dies: its jobs are found stalled, the command stays first.
ProcessDies ==
  /\ Slip
  /\ task' = [j \in Tasks |-> IF task[j].st = "active" THEN Stalled(task[j]) ELSE task[j]]
  /\ actor' = [a \in Actors |-> Resting]
  /\ oddities' = oddities
       \cup (IF \E r \in Runners : actor[r].pc \in {"receipt", "count", "recount"}
             THEN {"uncounted"} ELSE {})
       \cup (IF \E j \in Tasks : task[j].st = "active" /\ task[j].stalls >= MaxStalls
             THEN {"exhausted"} ELSE {})
  /\ UNCHANGED <<world, activity, commands, receipt, ledger, reached>>

FollowNext ==
  \/ \E k \in Turns : Talk(k) \/ CancelOrder(k) \/ \E v \in Hours : BookOrMove(k, v)
  \/ \E v \in Hours : ChangedOutside("active", v) \/ ChangedOutside("ended", v)
  \/ HourPasses \/ CooldownEnds \/ Sweep \/ RunCommand
  \/ \E a \in Actors : Look(a) \/ Add(a)
  \/ \E r \in Runners : \/ \E j \in Tasks : FireTask(r, j)
                        \/ Judge(r) \/ Reserve(r) \/ Compose(r) \/ Deliver(r)
                        \/ SaveReceipt(r) \/ MarkSent(r) \/ ScheduleOnboardingCheck(r)
  \/ ProcessDies

FollowSpec == FollowInit /\ [][FollowNext]_followVars

-----------------------------------------------------------------------------
(* Properties. *)

FollowTypeOK ==
  /\ hour \in Nat /\ {turn, activity, lastTouch} \subseteq Turns \cup {0}
  /\ interview \in [st: {"none", "active", "passed", "ended"}, at: Hours \cup {0}]
  /\ task \in [Tasks -> [st: {"none", "waiting", "active", "kept"}, tries: 0 .. MaxTries,
                     stalls: 0 .. MaxStalls]]
  /\ touch \in [Touches -> {"free", "reserved", "attempted", "sent", "failed", "unknown"}]
  /\ counted \subseteq Touches /\ reached \in [Touches -> Nat] /\ oddities \subseteq OddThings
  /\ receipt \in Turns \cup {0} /\ booked \in BOOLEAN /\ slips \in 0 .. MaxSlips
  /\ actor \in [Actors -> [pc: Points, task: Tasks, add: Tasks, since: Turns \cup {0}]]

\* No follow-up reaches the candidate twice, whatever is retried, redelivered or scheduled anew.
TouchOnce == \A j \in Touches : reached[j] <= 1

\* The messages that reached the candidate: the n-th of key j is <<j, n>>.
Delivered == UNION {{<<j, n>> : n \in 1 .. reached[j]} : j \in Touches}

\* No more follow-ups than the limit reach the candidate in a window, save for one of each further
\* runner if they passed the gates at the same time, unless it was not known whether one arrived.
FrequencyKept ==
  "uncounted" \notin oddities =>
    Cardinality(Delivered) <=
      MaxTouches + (IF "overlap" \in oddities THEN Cardinality(Runners) - 1 ELSE 0)

\* Its runner has not read the order yet.
Undecided(j) == \/ task[j].st = "waiting"
                \/ \E r \in Runners : actor[r].task = j /\ actor[r].pc = "judge"

\* Somebody will remind of the interview: a turn's command, its resolution, a reminder that is
\* due before it, or a runner; or it was tried or the limit forbids it.
ReminderExpected ==
  LET j == Remind(interview.at)
  IN  \/ \E i \in 1 .. Len(commands) : commands[i][1] = "resolve"
      \/ \E k \in Turns : Undecided(Resolve(k))
      \/ \E v \in Hours : v <= interview.at /\ Undecided(Remind(v))
      \/ \E r \in Runners : \/ actor[r].pc \in {"look", "add"} /\ actor[r].add = j
                            \/ actor[r].pc = "reserve" /\ actor[r].task = j
      \/ touch[j] # "free" \/ OverLimit

\* An interview to come is not forgotten however its jobs replace each other, unless the order
\* was last changed outside the conversation, a runner scheduled what it had read before a
\* change, a job swept a resolution that still had to run, the interview moved back to an hour
\* whose reminder had given way, adding or running a job failed for good, or one of its jobs was
\* dropped with the switch off.
ReminderKept ==
  interview.st = "active"
      /\ oddities \cap {"outside", "late", "swept", "again", "unscheduled", "exhausted", "disabled"} = {} =>
    ReminderExpected

\* The reminders of a booking or a change in the conversation have to be scheduled: once nobody is at
\* work on it any more there is a job that is due before the interview, or one has run.
MovedIsScheduled ==
  LET idle == commands = <<>> /\ \A r \in Runners : actor[r].pc = "rest"
      excused == OverLimit \/ oddities \cap {"outside", "unscheduled", "exhausted", "disabled"} # {}
  IN  interview.st = "active" /\ idle /\ ~excused =>
        \/ \E k \in Turns : task[Resolve(k)].st = "waiting"
        \/ \E v \in Hours : \/ v <= interview.at /\ task[Remind(v)].st = "waiting"
                            \/ touch[Remind(v)] # "free"

\* A message that the provider accepted for an onboarding job ends as sent, with its check
\* scheduled, unless all attempts failed or the switch was off: when its job came back after a
\* failure, nothing more is done; when the check was to be scheduled, only the check is missing.
AcceptedRecorded ==
  receipt # 0 /\ task[Onboard].st = "kept" /\ oddities \cap {"exhausted", "halted"} = {} =>
    touch[Onboard] = "sent" /\ (task[CheckUp].st # "none" \/ "unchecked" \in oddities)
=============================================================================
