----------------------------- MODULE BookingSync -----------------------------
(***************************************************************************)
(* How one candidate's booking pointers follow the work orders of the      *)
(* provider: succeeded actions are projected by ToolActionService.sync in  *)
(* any order and more than once, the booking tool links an order it finds  *)
(* to exist already, and readers fill a cache.                             *)
(***************************************************************************)
EXTENDS BookingProjection

CONSTANTS
  Events,       \* sponge actions of the candidate, 1 .. their number
  Syncers,      \* callers, repair jobs and recovery workers that project
  Readers,      \* readers that go through the cache
  MaxCalls      \* bound: actions, reads, relinks, resets, breaks and outside changes together

ASSUME SyncAssumption ==
  Events \subseteq Nat \ {0} /\ IsFiniteSet(Events) /\ 1 \in Times /\ MaxCalls \in Nat

VARIABLES
  event,     \* per action: kind, order, input time and how far it is
  order,     \* the provider's work orders
  shown,     \* the provider's list of them, which may lag
  row,       \* the row of agent_long_term_memories
  cache,     \* active-booking:<corp>:<user>: nothing, the current list or an old one
  syncer,    \* per syncer: the call it is in
  reader,    \* per reader: what it read and has yet to cache
  clock,     \* the latest moment so far
  upset,     \* history: per order, why its pointer may disagree
  blurred,   \* history: the cache may hold an old view until it expires
  calls

provider == <<order, shown>>
readers == <<reader, clock>>
bookingVars == <<event, provider, row, cache, syncer, readers, upset, blurred, calls>>

NoEvent == [kind |-> "booking", order |-> 0, at |-> 0, st |-> "none"]
NoOrder == [st |-> "none", visit |-> 0]
EmptyRow == [at |-> [o \in Orders |-> 0], deleted |-> [o \in Orders |-> FALSE],
             linked |-> [o \in Orders |-> 0], seen |-> [o \in Orders |-> 0], reset |-> 0]
Views == {"none", "current", "old"}
View(r) == [o \in Listed(r) |-> r.seen[o]]
Aged(v) == IF v = "current" /\ View(row') # View(row) THEN "old" ELSE v

\* e: the action, 0 for a relink or reset; then: where the call goes on if it is not superseded.
NoCall == [pc |-> "idle", e |-> 0, op |-> "set", order |-> 0, at |-> 0, seen |-> 0, then |-> "idle"]

BookingInit ==
  /\ event = [e \in Events |-> NoEvent]
  /\ order = [o \in Orders |-> NoOrder] /\ shown = order
  /\ row = EmptyRow /\ cache = "none"
  /\ syncer = [s \in Syncers |-> NoCall] /\ reader = [r \in Readers |-> "none"]
  /\ clock = 1 /\ upset = [o \in Orders |-> {}] /\ blurred = FALSE /\ calls = 0

-----------------------------------------------------------------------------
(* The actions and the provider. *)

Call == calls < MaxCalls /\ calls' = calls + 1
Upset(o, why) == upset' = [upset EXCEPT ![o] = @ \cup {why}]

Of(o) == {e \in Events : event[e].order = o /\ event[e].st # "none"}
Recorded(e) == event[e].st \in {"succeeded", "synced"}

\* A turn's action is carried out: it books an order, or changes or cancels an active one.  Its
\* input may be older than those of actions carried out before.  The provider numbers its orders
\* as they come.
CarryOut(e, kind, o, t) ==
  /\ Call /\ event[e].st = "none" /\ \A f \in Events : event[f].st = "none" => e <= f
  /\ t <= clock + 1 /\ clock' = Greatest(clock, t)
  /\ IF kind = "booking"
     THEN order[o].st = "none" /\ \A p \in Orders : order[p].st = "none" => o <= p
     ELSE order[o].st = "active"
  /\ event' = [event EXCEPT ![e] = [kind |-> kind, order |-> o, at |-> t, st |-> "landed"]]
  /\ order' = [order EXCEPT ![o] = IF kind = "cancel" THEN [@ EXCEPT !.st = "ended"]
                                   ELSE [st |-> "active", visit |-> @.visit + 1]]
  /\ upset' = [upset EXCEPT ![o] = @
       \cup (IF \E f \in Of(o) : event[f].at > t THEN {"disorder"} ELSE {})
       \cup (IF \E f \in Of(o) : event[f].at = t THEN {"tie"} ELSE {})]
  /\ UNCHANGED <<shown, row, cache, syncer, reader, blurred>>

\* The ledger records the success, which makes the action due for projection.
Record(e) ==
  /\ event[e].st = "landed" /\ event' = [event EXCEPT ![e].st = "succeeded"]
  /\ UNCHANGED <<provider, row, cache, syncer, readers, upset, blurred, calls>>

ListCatchesUp(o) ==
  /\ shown[o] # order[o] /\ shown' = [shown EXCEPT ![o] = order[o]]
  /\ UNCHANGED <<event, order, row, cache, syncer, readers, upset, blurred, calls>>

\* Staff or the provider end an order; no action of the runtime tells.
EndedOutside(o) ==
  /\ order[o].st = "active" /\ Call
  /\ order' = [order EXCEPT ![o].st = "ended"] /\ Upset(o, "outside")
  /\ UNCHANGED <<event, shown, row, cache, syncer, readers, blurred>>

-----------------------------------------------------------------------------
(* sync of a succeeded action. *)

At(s, p) == syncer[s].pc = p
Newer(o, t) == \E f \in Of(o) : Recorded(f) /\ event[f].at > t

\* Mutant: a cancellation relies on what the provider shows.
Opening_Read(e) == "read"

Opening(e) == IF event[e].kind = "cancel" THEN "write" ELSE "read"

\* A cancellation clears the pointer before the provider is asked.
BeginSync(s, e) ==
  /\ At(s, "idle") /\ event[e].st = "succeeded"
  /\ syncer' = [syncer EXCEPT ![s] =
       [NoCall EXCEPT !.e = e, !.op = "clear", !.order = event[e].order, !.at = event[e].at,
                      !.pc = Opening(e), !.then = "read"]]
  /\ UNCHANGED <<event, provider, row, cache, readers, upset, blurred, calls>>

Synced(s) == /\ event' = IF syncer[s].e = 0 THEN event ELSE [event EXCEPT ![syncer[s].e].st = "synced"]
             /\ syncer' = [syncer EXCEPT ![s] = NoCall]

\* What the provider shows decides between set and clear; an order it does not show, or shows
\* as active after a cancellation, leaves the action pending.
FetchSignupWorkOrders(s) ==
  LET o == event[syncer[s].e].order
      cancel == event[syncer[s].e].kind = "cancel"
  IN  /\ At(s, "read")
      /\ IF shown[o].st = "none" \/ (cancel /\ shown[o].st = "active")
         THEN syncer' = [syncer EXCEPT ![s] = NoCall] /\ UNCHANGED <<event, upset>>
         ELSE IF cancel THEN Synced(s) /\ UNCHANGED upset
         ELSE /\ syncer' = [syncer EXCEPT ![s] = [@ EXCEPT !.pc = "write", !.order = o,
                   !.at = event[syncer[s].e].at, !.seen = shown[o].visit, !.then = "synced",
                   !.op = IF shown[o].st = "active" THEN "set" ELSE "clear"]]
              /\ IF shown[o] = order[o] THEN UNCHANGED upset ELSE Upset(o, "lag")
              /\ UNCHANGED event
      /\ UNCHANGED <<provider, row, cache, readers, blurred, calls>>

\* The RPC; it answers whether it was superseded.
ApplyBookingProjection(s) ==
  LET c == syncer[s]
      late == Superseded(row, c.op, c.order, c.at, Newer(c.order, c.at))
      pushed == (Listed(row) \cup {c.order}) \ Listed(row')
  IN  /\ At(s, "write")
      /\ IF c.op = "reset" THEN row' = ApplyReset(row, c.at)
         ELSE row' = Apply(row, c.op, c.order, c.at, c.seen, Newer(c.order, c.at))
      /\ syncer' = [syncer EXCEPT ![s] = [NoCall EXCEPT
           !.pc = "uncache", !.e = c.e, !.then = IF c.op # "reset" /\ late THEN "synced" ELSE c.then]]
      /\ upset' = [o \in Orders |-> IF c.op = "set" /\ ~late /\ o \in pushed
                                     THEN upset[o] \cup {"pushed"} ELSE upset[o]]
      /\ cache' = Aged(cache) /\ reader' = [r \in Readers |-> Aged(reader[r])]
      /\ UNCHANGED <<event, provider, clock, blurred, calls>>

\* Mutant: the cache is left to its TTL.
DeleteCache_Kept(s) ==
  /\ At(s, "uncache") /\ UNCHANGED <<cache, blurred>>
  /\ IF syncer[s].then = "read" THEN syncer' = [syncer EXCEPT ![s].pc = "read"] /\ UNCHANGED event
     ELSE Synced(s)
  /\ UNCHANGED <<provider, row, readers, upset, calls>>

DeleteCache(s) ==
  /\ At(s, "uncache") /\ cache' = "none" /\ blurred' = FALSE
  /\ IF syncer[s].then = "read" THEN syncer' = [syncer EXCEPT ![s].pc = "read"] /\ UNCHANGED event
     ELSE Synced(s)
  /\ UNCHANGED <<provider, row, readers, upset, calls>>

Due(s) == syncer[s].e # 0 /\ event[syncer[s].e].st = "succeeded"

\* A call fails, with or without effect, or the process dies: the action stays pending.  A
\* relink or reset is only logged, even if just the cache was not deleted, and nobody repeats
\* the projection of an action that another worker finished meanwhile.
BreakOff(s) ==
  /\ ~At(s, "idle") /\ Call
  /\ syncer' = [syncer EXCEPT ![s] = NoCall]
  /\ blurred' = (blurred \/ (At(s, "uncache") /\ ~Due(s)))
  /\ UNCHANGED <<event, provider, row, cache, readers, upset>>

-----------------------------------------------------------------------------
(* Writers that bring no input time: theirs is that of the clock. *)

Now(s, o, op, seen) ==
  /\ At(s, "idle") /\ clock + 1 \in Times /\ clock' = clock + 1 /\ Call
  /\ syncer' = [syncer EXCEPT ![s] =
       [pc |-> "write", e |-> 0, op |-> op, order |-> o, at |-> clock', seen |-> seen, then |-> "synced"]]

\* The booking tool is refused as a duplicate and links the order that exists.
Relink(s, o) ==
  /\ shown[o].st = "active" /\ Now(s, o, "set", shown[o].visit) /\ Upset(o, "relink")
  /\ UNCHANGED <<event, provider, row, cache, reader, blurred>>

\* The fixture of the test suite clears everything.
Reset(s) ==
  /\ Now(s, 0, "reset", 0) /\ upset' = [o \in Orders |-> upset[o] \cup {"reset"}]
  /\ UNCHANGED <<event, provider, row, cache, reader, blurred>>

-----------------------------------------------------------------------------
(* Readers: getActiveBookingRow, which a strict or bypassing caller uses with the cache full. *)

ReadRow(r) ==
  /\ Call /\ reader[r] = "none" /\ reader' = [reader EXCEPT ![r] = "current"]
  /\ UNCHANGED <<event, provider, row, cache, syncer, clock, upset, blurred>>

FillCache(r) ==
  /\ reader[r] # "none" /\ reader' = [reader EXCEPT ![r] = "none"]
  /\ cache' = reader[r] /\ blurred' = (reader[r] = "old")
  /\ UNCHANGED <<event, provider, row, syncer, clock, upset, calls>>

CacheExpires ==
  /\ cache # "none" /\ cache' = "none" /\ blurred' = FALSE
  /\ UNCHANGED <<event, provider, row, syncer, readers, upset, calls>>

BookingNext ==
  \/ \E e \in Events : \/ \E kind \in {"booking", "modify", "cancel"}, o \in Orders, t \in Times :
                            CarryOut(e, kind, o, t)
                       \/ Record(e)
                       \/ \E s \in Syncers : BeginSync(s, e)
  \/ \E o \in Orders : ListCatchesUp(o) \/ EndedOutside(o) \/ \E s \in Syncers : Relink(s, o)
  \/ \E s \in Syncers : \/ FetchSignupWorkOrders(s) \/ ApplyBookingProjection(s) \/ DeleteCache(s)
                        \/ BreakOff(s) \/ Reset(s)
  \/ \E r \in Readers : ReadRow(r) \/ FillCache(r)
  \/ CacheExpires

BookingSpec == BookingInit /\ [][BookingNext]_bookingVars

-----------------------------------------------------------------------------
(* Properties. *)

Reasons == {"disorder", "tie", "lag", "outside", "relink", "reset", "pushed"}

BookingTypeOK ==
  /\ \A e \in Events : /\ event[e].kind \in {"booking", "modify", "cancel"}
                       /\ event[e].order \in Orders \cup {0} /\ event[e].at \in Moments
                       /\ event[e].st \in {"none", "landed", "succeeded", "synced"}
  /\ order \in [Orders -> [st: {"none", "active", "ended"}, visit: Nat]]
  /\ shown \in [Orders -> [st: {"none", "active", "ended"}, visit: Nat]]
  /\ row \in Rows /\ Cardinality(Listed(row)) <= MaxListed
  /\ cache \in Views /\ reader \in [Readers -> Views]
  /\ \A s \in Syncers : /\ syncer[s].pc \in {"idle", "read", "write", "uncache"}
                        /\ syncer[s].e \in Events \cup {0} /\ syncer[s].order \in Orders \cup {0}
                        /\ syncer[s].at \in Moments /\ syncer[s].then \in {"idle", "read", "synced"}
  /\ clock \in Times /\ upset \in [Orders -> SUBSET Reasons] /\ blurred \in BOOLEAN

\* What the row knows of an order never gets older, and an order enters the list only with a
\* time later than everything the row knew of it: no repeated or late projection revives an
\* entry that was cleared or pushed out.
NeverRevived ==
  [][\A o \in Orders :
       /\ Version(row', o) >= Version(row, o)
       /\ row'.linked[o] # 0 /\ row'.linked[o] # row.linked[o] =>
            row'.linked[o] > Version(row, o)]_bookingVars

\* Once a cancellation is projected its order is out of the list for good, whatever is still
\* projected later, unless the provider carried actions out against the order of their inputs
\* or the booking tool linked the order with the time of its own clock.
CancelledStaysGone ==
  \A e \in Events : event[e].kind = "cancel" /\ event[e].st = "synced" =>
    LET o == event[e].order IN row.linked[o] = 0 \/ upset[o] \cap {"disorder", "relink"} # {}

Settled(o) == /\ \A e \in Of(o) : event[e].st = "synced"
              /\ \A s \in Syncers : syncer[s].pc = "idle"

\* When all actions of an order are projected, in whatever order and how often, the row lists
\* it exactly if it is active, with its current interview, unless the cap once pushed it out.
PointersAgree ==
  \A o \in Orders : Settled(o) /\ upset[o] = {} =>
    /\ o \in Listed(row) <=> order[o].st = "active"
    /\ o \in Listed(row) => row.seen[o] = order[o].visit

\* An old view stays in the cache only while an action is still to be projected, unless a reader
\* that had read earlier filled it late or a relink could not delete it.
CacheAgrees ==
  cache # "old" \/ blurred
    \/ (\E e \in Events : event[e].st = "succeeded")
    \/ (\E s \in Syncers : syncer[s].pc = "uncache")
=============================================================================
