----------------------------- MODULE ReplyTurn ------------------------------
(***************************************************************************)
(* One row of public.agent_reply_turns under the delivery policy           *)
(* single_pass, and what the stored procedure transition_agent_reply_turn  *)
(* does to it.  Every call is one transaction under the advisory lock of   *)
(* the chat.  A call is either refused (a conflict, which the service      *)
(* turns into a ReplyDeferredError) or returns the row after it.           *)
(*                                                                         *)
(* Time is abstract: live says that generation_until is in the future, due *)
(* that next_check_at is reached.  The uuid that open writes as owner is   *)
(* unique to the call, so it is the worker that made it; no transition of  *)
(* this policy ever gives a turn to another owner, so fence never changes.       *)
(***************************************************************************)
EXTENDS Naturals

CONSTANTS
  Messages,   \* inbound messages of one chat (message_id)
  Workers     \* concurrent jobs and direct calls that answer the chat

TurnStatuses == {"preparing", "planned", "settled", "acked"}

Projections == {"none", "pending", "complete"}

Outcomes == {"none", "complete", "incomplete", "unknown", "skipped", "interrupted"}

Turns == [inputs: SUBSET Messages, status: TurnStatuses, owner: Workers, live: BOOLEAN,
          proj: Projections, outcome: Outcomes, accepted: Nat, due: BOOLEAN]

\* open inserts a turn for the messages of a batch.
NewTurn(w, b) == [inputs |-> b, status |-> "preparing", owner |-> w, live |-> TRUE,
                  proj |-> "none", outcome |-> "none", accepted |-> 0, due |-> FALSE]

Unfinished(r) == r.status \in {"preparing", "planned"}

OwnedLive(r, w) == r.owner = w /\ r.live

CanSave(r, w) == r.status = "preparing" /\ OwnedLive(r, w)

EffectsSaved(r) == [r EXCEPT !.proj = "pending"]

CanStart(r, w) == r.status = "preparing" /\ OwnedLive(r, w)

Started(r) == [r EXCEPT !.status = "planned", !.live = TRUE, !.due = FALSE]

CanDeliver(r, w) == r.status = "planned" /\ OwnedLive(r, w)

\* A finished turn answers any settle with itself.
CanSettle(r, w) == Unfinished(r) => OwnedLive(r, w)

\* Mutant: the last result wins.
Settled_LastWins(r, o, n) == [r EXCEPT !.status = IF @ = "acked" THEN @ ELSE "settled",
                                       !.outcome = o, !.accepted = n, !.due = TRUE]

Settled(r, o, n) ==
  IF Unfinished(r)
  THEN [r EXCEPT !.status = "settled", !.outcome = o, !.accepted = n, !.due = TRUE]
  ELSE r

\* Mutant: recovery does not wait for generation_until.
CanInterrupt_Always(r) == TRUE

\* Mutant: a delivery that was started is never closed for its worker.
CanInterrupt_Preparing(r) == r.status # "planned" /\ (Unfinished(r) => ~r.live)

CanInterrupt(r) == Unfinished(r) => ~r.live

\* Mutant: the outcome is stored as the status.
Interrupted_RawStatus(r) ==
  IF Unfinished(r) THEN [r EXCEPT !.status = "interrupted", !.due = TRUE] ELSE r

\* A turn whose time has passed is closed without a count of what it sent.
Interrupted(r) ==
  IF Unfinished(r)
  THEN [r EXCEPT !.status = "settled", !.outcome = "interrupted", !.due = TRUE]
  ELSE r

CanProject(r, w) == Unfinished(r) => OwnedLive(r, w)

Projected(r) == [r EXCEPT !.proj = IF @ = "pending" THEN "complete" ELSE @]

CanAck(r) == r.proj # "pending" /\ ~Unfinished(r)

Acked(r) == [r EXCEPT !.status = "acked", !.due = FALSE]

\* defer moves the next check into the future: past generation_until, or by a minute.
Deferred(r) == IF r.status = "acked" THEN r ELSE [r EXCEPT !.due = FALSE]
=============================================================================
