---------------------------- MODULE ActionLedger ----------------------------
(***************************************************************************)
(* One row of public.agent_action_records and the transitions the stored   *)
(* procedures transition_agent_action and review_agent_action apply to it. *)
(* Every procedure runs as one transaction under the advisory lock of the  *)
(* row's resource, so each transition is a function from row to row; the   *)
(* guards that look at other rows are in module ActionExecution.           *)
(*                                                                         *)
(* Time is abstract.  next_check_at is "none" (null), "running" (in the    *)
(* future) or "due" (reached); lapsed says that recovery_deadline is past. *)
(* The uuid a claim writes into owner and dispatch_attempt_id is the fence *)
(* value of that claim, which no other claim of the row has; 0 is null.    *)
(***************************************************************************)
EXTENDS Naturals

CONSTANT AttemptLimit   \* automatic recovery attempts before review (6 in the code)

ASSUME AttemptLimitAssumption == AttemptLimit \in Nat

Modes == {"off", "observe", "execute"}

\* "absent" stands for a row that is not in the table yet.
Statuses == {"absent", "registered", "executing", "succeeded", "failed", "unknown", "cancelled"}

Timers == {"none", "running", "due"}

(***************************************************************************)
(* What a dispatch, a callback or an operator may conclude.  "retryable"   *)
(* is a failure with retryable = true; "soft" is a claimed success without *)
(* requestTerminated, or a claimed failure without definitive evidence.    *)
(***************************************************************************)
Completions == {"succeeded", "failed", "retryable", "unknown", "soft"}

Terminal(c) == c \in {"succeeded", "failed", "retryable"}

Rows == [mode: Modes, status: Statuses, owner: Nat, attempt: Nat, fence: Nat, tries: Nat,
         retryable: BOOLEAN, synced: BOOLEAN, timer: Timers, lapsed: BOOLEAN, review: BOOLEAN]

Leases == [owner: Nat, fence: Nat, attempt: Nat]

NoRow == [mode |-> "off", status |-> "absent", owner |-> 0, attempt |-> 0, fence |-> 0,
          tries |-> 0, retryable |-> FALSE, synced |-> TRUE, timer |-> "none",
          lapsed |-> FALSE, review |-> FALSE]

NoLease == [owner |-> 0, fence |-> 0, attempt |-> 0]

-----------------------------------------------------------------------------

\* The ownership fields a caller sends back with every later transition.
LeaseOf(r) == [owner |-> r.owner, fence |-> r.fence, attempt |-> r.attempt]

Holds(r, l) == r.owner # 0 /\ r.owner = l.owner /\ r.fence = l.fence

InDoubt(r) == r.status \in {"executing", "unknown"}

Unresolved(r) == r.mode = "execute" /\ InDoubt(r)

PendingSync(r) == r.status = "succeeded" /\ ~r.synced

\* Mutant: any failure may be tried again.
Open_AnyFailure(r) == r.status \in {"registered", "failed"}

\* A row that a dispatch may still be claimed for.
Open(r) == r.status = "registered" \/ (r.status = "failed" /\ r.retryable)

\* attempts is only ever compared with the limit, so it saturates just above it.
Bump(n) == IF n > AttemptLimit THEN n ELSE n + 1

Exhausted(r, tries) == tries > AttemptLimit \/ r.lapsed

-----------------------------------------------------------------------------

\* prepare: register the action unless it exists or actions are off.
Registered(r, m) ==
  IF r.status = "absent" /\ m # "off" THEN [r EXCEPT !.status = "registered", !.mode = m] ELSE r

\* Mutant: an expired dispatch lease may be claimed for dispatch again.
Claimable_Expired(r) == (Open(r) \/ (r.status = "executing" /\ r.timer = "due")) /\ ~r.lapsed

\* claim: the right to dispatch, granted only to an open row before its deadline.
Claimable(r) == Open(r) /\ ~r.lapsed

\* Mutant: the claim puts no expiry on its lease.
Claimed_NoTimer(r) ==
  [r EXCEPT !.status = "executing", !.owner = r.fence + 1, !.attempt = r.fence + 1,
            !.fence = @ + 1, !.tries = Bump(@)]

Claimed(r) ==
  [r EXCEPT !.status = "executing", !.owner = r.fence + 1, !.attempt = r.fence + 1,
            !.fence = @ + 1, !.tries = Bump(@), !.timer = "running"]

ClaimValid(r, l) == Holds(r, l) /\ r.status = "executing" /\ r.timer = "running" /\ ~r.lapsed

\* Mutant: a late cancel also stops an action that is being dispatched.
Cancelled_AnyTime(r) ==
  IF r.status \in {"registered", "executing"}
  THEN [r EXCEPT !.status = "cancelled", !.timer = "none"] ELSE r

Cancelled(r) ==
  IF r.status = "registered" THEN [r EXCEPT !.status = "cancelled", !.timer = "none"] ELSE r

\* reconcile_claim: an expired lease gives the right to verify, never to dispatch again.
RecoveryDue(r) == r.timer = "due" /\ (InDoubt(r) \/ PendingSync(r))

\* Mutant: a takeover of an unrepaired success puts it back in doubt.
TakenOver_AllUnknown(r) ==
  [r EXCEPT !.status = "unknown", !.owner = r.fence + 1, !.fence = @ + 1, !.tries = Bump(@),
            !.timer = "running"]

\* Mutant: a takeover takes the row off the clock until it is deferred again.
TakenOver_NoTimer(r) ==
  [r EXCEPT !.status = IF @ = "executing" THEN "unknown" ELSE @,
            !.owner = r.fence + 1, !.fence = @ + 1, !.tries = Bump(@), !.timer = "none"]

TakenOver(r) ==
  [r EXCEPT !.status = IF @ = "executing" THEN "unknown" ELSE @,
            !.owner = r.fence + 1, !.fence = @ + 1, !.tries = Bump(@), !.timer = "running"]

\* Mutant: a success is believed without requestTerminated.
Normalised_TrustSuccess(c) == IF c = "soft" THEN "succeeded" ELSE c

\* Terminal conclusions without terminal evidence are kept in doubt.
Normalised(c) == IF c = "soft" THEN "unknown" ELSE c

\* Mutant: the raw completion is stored as the status.
Concluded_RawStatus(r, c) ==
  [r EXCEPT !.status = c, !.review = FALSE, !.synced = c # "succeeded",
            !.retryable = c = "retryable", !.timer = "running"]

\* Mutant: a success is stored without its pending projection.
Concluded_NoPending(r, c) ==
  [r EXCEPT !.status = IF c = "retryable" THEN "failed" ELSE c, !.review = FALSE,
            !.retryable = c = "retryable",
            !.timer = IF c \in {"failed", "retryable"} THEN "none" ELSE "running"]

Concluded(r, c) ==
  [r EXCEPT !.status = IF c = "retryable" THEN "failed" ELSE c,
            !.review = FALSE,
            !.synced = c # "succeeded",
            !.retryable = c = "retryable",
            !.timer = IF c \in {"failed", "retryable"} THEN "none" ELSE "running"]

\* Mutant: any worker that saw a completion may conclude the row.
Settled_AnyOwner(r, l, c) == IF InDoubt(r) THEN Concluded(r, Normalised(c)) ELSE r

\* settle: only the current owner of an unresolved row concludes it.
Settled(r, l, c) == IF Holds(r, l) /\ InDoubt(r) THEN Concluded(r, Normalised(c)) ELSE r

MarkedSynced(r, l) ==
  IF Holds(r, l) /\ r.status = "succeeded" THEN [r EXCEPT !.synced = TRUE, !.timer = "none"] ELSE r

\* schedule and manual look at the owner and the fence only, not at the status.
Scheduled(r, l) == IF Holds(r, l) THEN [r EXCEPT !.timer = "running"] ELSE r

Parked(r, l) == IF Holds(r, l) THEN [r EXCEPT !.review = TRUE, !.timer = "none"] ELSE r

-----------------------------------------------------------------------------
(* review_agent_action: the conclusions of an operator. *)

ReopenedSync(r) ==
  [r EXCEPT !.review = FALSE, !.tries = 0, !.timer = "due", !.lapsed = FALSE]

Reviewed(r, c) ==
  [r EXCEPT !.status = c, !.synced = c # "succeeded", !.retryable = FALSE,
            !.owner = 0, !.fence = @ + 1, !.review = FALSE, !.tries = 0,
            !.timer = IF c = "succeeded" THEN "due" ELSE "none",
            !.lapsed = IF c = "succeeded" THEN FALSE ELSE @]

LeftUnknown(r) ==
  [r EXCEPT !.status = "unknown", !.review = TRUE, !.timer = "none",
            !.owner = 0, !.fence = @ + 1]

\* append_agent_reply_callback wakes the recovery of a row that is still in doubt.
Woken(r) == IF InDoubt(r) THEN [r EXCEPT !.timer = "due"] ELSE r
=============================================================================
