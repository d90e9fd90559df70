----------------------------- MODULE WorkerSlots -----------------------------
(***************************************************************************)
(* The execution slots of one worker process (MessageWorkerManagerService):*)
(* Bull runs at most as many handlers as the limit was at boot, a handler  *)
(* takes a slot or waits in line, and an operator resizes the limit while  *)
(* slots are held and awaited.                                             *)
(***************************************************************************)
EXTENDS Integers, Sequences, FiniteSets

CONSTANTS
  Handlers,            \* processor callbacks of the process
  Operators,           \* console calls that set the concurrency, each made once
  Requests,            \* concurrencies they ask for
  MaxConcurrency,      \* the code's 20; the minimum is 1
  DefaultConcurrency   \* the code's 4

ASSUME SlotAssumption ==
  /\ IsFiniteSet(Handlers)
  /\ Requests \subseteq Nat \ {0}
  /\ MaxConcurrency \in Nat \ {0} /\ DefaultConcurrency \in 1 .. MaxConcurrency

VARIABLES
  limit,        \* currentConcurrency
  activeJobs,   \* slots counted as taken
  resolvers,    \* pendingExecutionResolvers, the handlers in line
  slot,         \* per handler: "none", "waiting" or "held"
  registered,   \* the concurrency Bull was given at boot
  stored,       \* workerConcurrency in the stored configuration, 0 if there is none
  resize,       \* per console call: where it is and what it asks for
  drift         \* history: why limit and configuration may differ

slotVars == <<limit, activeJobs, resolvers, slot, registered, stored, resize, drift>>

Resizes == [at: {"ready", "sent", "written", "done"}, to: Requests \cup {0}]

InFlight(o) == resize[o].at \in {"sent", "written"}

\* Only a stored value outside the range is clamped; no value means the default.
Normalized(v) == IF v = 0 THEN DefaultConcurrency
                 ELSE IF v > MaxConcurrency THEN MaxConcurrency ELSE v

\* A process that runs no handler and has no console call in flight.
SlotsFree ==
  /\ stored \in Requests \cup {0} /\ limit = Normalized(stored)
  /\ activeJobs = 0 /\ resolvers = <<>> /\ slot = [h \in Handlers |-> "none"]
  /\ resize = [o \in Operators |-> [at |-> "ready", to |-> 0]]
  /\ drift = {}

SlotInit == SlotsFree /\ registered = limit

-----------------------------------------------------------------------------
(* Handlers. *)

InLine(h) == slot[h] # "none"

\* Mutant: one slot too many.
SlotFree_Inclusive == activeJobs <= limit

SlotFree == activeJobs < limit

\* Bull starts a handler, which asks for a slot.
AcquireExecutionSlot(h) ==
  /\ ~InLine(h) /\ Cardinality({g \in Handlers : InLine(g)}) < registered
  /\ \/ /\ SlotFree
        /\ activeJobs' = activeJobs + 1
        /\ slot' = [slot EXCEPT ![h] = "held"]
        /\ UNCHANGED resolvers
     \/ /\ ~SlotFree
        /\ resolvers' = Append(resolvers, h)
        /\ slot' = [slot EXCEPT ![h] = "waiting"]
        /\ UNCHANGED activeJobs
  /\ UNCHANGED <<limit, registered, stored, resize, drift>>

\* Mutant: an if instead of the while loop.
Served_Once(a, l) == IF a >= l \/ resolvers = <<>> THEN 0 ELSE 1

\* How many calls in line get a slot when a slots are taken and l is the limit.
Served(a, l) == IF a >= l THEN 0
                ELSE IF l - a < Len(resolvers) THEN l - a ELSE Len(resolvers)

\* Mutant: the slot handed over is not counted.
DrainExecutionResolvers_Uncounted(a, l, s) ==
  /\ activeJobs' = a
  /\ resolvers' = SubSeq(resolvers, Served(a, l) + 1, Len(resolvers))
  /\ slot' = [h \in Handlers |-> IF \E i \in 1 .. Served(a, l) : resolvers[i] = h
                                 THEN "held" ELSE s[h]]

\* The while loop: hands slots to the head of the line, starting from a taken slots.
DrainExecutionResolvers(a, l, s) ==
  LET n == Served(a, l)
  IN  /\ activeJobs' = a + n
      /\ resolvers' = SubSeq(resolvers, n + 1, Len(resolvers))
      /\ slot' = [h \in Handlers |-> IF \E i \in 1 .. n : resolvers[i] = h THEN "held" ELSE s[h]]

ReleaseExecutionSlot(h) ==
  /\ slot[h] = "held"
  /\ DrainExecutionResolvers(IF activeJobs > 0 THEN activeJobs - 1 ELSE 0, limit,
                             [slot EXCEPT ![h] = "none"])
  /\ UNCHANGED <<limit, registered, stored, resize, drift>>

-----------------------------------------------------------------------------
(* Console calls. *)

Refused(n) == n > MaxConcurrency

\* An operator asks for n: refused above the maximum, nothing to do if it is the limit.
SetConcurrency(o, n) ==
  /\ resize[o].at = "ready"
  /\ resize' = [resize EXCEPT ![o] =
                  [at |-> IF Refused(n) \/ n = limit THEN "done" ELSE "sent", to |-> n]]
  /\ drift' = IF resize'[o].at = "sent" /\ \E p \in Operators : InFlight(p)
              THEN drift \cup {"overlapped"} ELSE drift
  /\ UNCHANGED <<limit, activeJobs, resolvers, slot, registered, stored>>

\* updateSystemConfig writes the configuration ...
StoreConcurrency(o) ==
  /\ resize[o].at = "sent"
  /\ resize' = [resize EXCEPT ![o].at = "written"]
  /\ stored' = resize[o].to
  /\ UNCHANGED <<limit, activeJobs, resolvers, slot, registered, drift>>

\* ... or only logs that it could not; the limit follows either way.
ApplyConcurrency(o) ==
  /\ InFlight(o)
  /\ resize' = [resize EXCEPT ![o].at = "done"]
  /\ limit' = resize[o].to
  /\ DrainExecutionResolvers(activeJobs, limit', slot)
  /\ drift' = IF resize[o].at = "written" THEN drift ELSE drift \cup {"unsaved"}
  /\ UNCHANGED <<registered, stored>>

\* The process restarts with the stored configuration, or with the default if reading fails;
\* calls in flight are gone.
Restart(readable) ==
  /\ limit' = IF readable THEN Normalized(stored) ELSE DefaultConcurrency
  /\ registered' = limit'
  /\ activeJobs' = 0 /\ resolvers' = <<>> /\ slot' = [h \in Handlers |-> "none"]
  /\ resize' = [o \in Operators |-> IF InFlight(o)
                                    THEN [resize[o] EXCEPT !.at = "done"] ELSE resize[o]]
  /\ drift' = IF readable THEN {} ELSE {"unread"}
  /\ UNCHANGED stored

Console ==
  \E o \in Operators : \/ \E n \in Requests : SetConcurrency(o, n)
                       \/ StoreConcurrency(o)
                       \/ ApplyConcurrency(o)

SlotNext ==
  \/ \E h \in Handlers : AcquireExecutionSlot(h) \/ ReleaseExecutionSlot(h)
  \/ Console
  \/ \E readable \in BOOLEAN : Restart(readable)

SlotSpec == SlotInit /\ [][SlotNext]_slotVars

-----------------------------------------------------------------------------
(* Properties. *)

SlotTypeOK ==
  /\ limit \in 1 .. MaxConcurrency /\ registered \in 1 .. MaxConcurrency
  /\ activeJobs \in Nat /\ resolvers \in Seq(Handlers)
  /\ slot \in [Handlers -> {"none", "waiting", "held"}]
  /\ stored \in Requests \cup {0}
  /\ resize \in [Operators -> Resizes]
  /\ drift \subseteq {"overlapped", "unsaved", "unread"}

\* The counter is the number of handlers that hold a slot and the line is exactly the handlers
\* that wait, each once: resolvers increment the counter themselves, outside the call that
\* releases or resizes, so a double or lost hand-over would show here.
SlotsAccounted ==
  /\ activeJobs = Cardinality({h \in Handlers : slot[h] = "held"})
  /\ \A h \in Handlers : slot[h] = "waiting" <=> \E i \in 1 .. Len(resolvers) : resolvers[i] = h
  /\ \A i, k \in 1 .. Len(resolvers) : resolvers[i] = resolvers[k] => i = k

\* Nobody waits while a slot is free, whatever order releases and resizes come in: there is no
\* later event that would wake a call forgotten in line.
NoIdleSlot == resolvers # <<>> => activeJobs >= limit

\* A slot is only granted within the limit of that moment, and never to a handler that comes
\* later than one in line: acquireExecutionSlot does not look at the line.
FairGrant ==
  [][\A h \in Handlers :
       slot'[h] = "held" /\ slot[h] # "held" =>
         /\ activeJobs' <= limit'
         /\ slot[h] = "none" => resolvers = <<>>]_slotVars

\* With no console call in flight the limit in force is the one a restart would load, unless
\* two calls overlapped, a write failed, or the configuration could not be read at boot.
LimitIsStored ==
  (\A o \in Operators : ~InFlight(o)) /\ drift = {} => limit = Normalized(stored)
=============================================================================
