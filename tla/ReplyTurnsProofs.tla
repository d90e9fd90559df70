-------------------------- MODULE ReplyTurnsProofs ---------------------------
(***************************************************************************)
(* Theorems about ReplyTurns for every set of messages, workers and        *)
(* recovery scans, every length of a reply and every bound.                *)
(***************************************************************************)
EXTENDS ReplyTurns, SequenceTheorems, TLAPS

-----------------------------------------------------------------------------
(* The transitions of a row: they keep it a row of the same messages, never *)
(* reopen an acknowledged turn and never forget saved effects.              *)

\* What every transition does to a row.
Moves(r, s) ==
  /\ s \in Turns
  /\ s.inputs = r.inputs
  /\ r.status = "acked" => s.status = "acked"
  /\ r.proj # "none" => s.proj # "none"

\* What the transitions do that neither acknowledge nor complete the projection.
Keeps(r, s) ==
  /\ Moves(r, s)
  /\ s.status = "acked" => r.status = "acked" /\ s.proj = r.proj
  /\ s.proj = "complete" => r.proj = "complete"

LEMMA RowSteps ==
  ASSUME NEW r \in Turns
  PROVE  /\ Keeps(r, r)
         /\ \A w : CanSave(r, w) => Keeps(r, EffectsSaved(r)) /\ EffectsSaved(r).proj # "none"
         /\ \A w : CanStart(r, w) => Keeps(r, Started(r))
         /\ \A o \in Outcomes, n \in Nat : Keeps(r, Settled(r, o, n))
         /\ Keeps(r, Interrupted(r))
         /\ Keeps(r, Deferred(r))
         /\ Keeps(r, [r EXCEPT !.live = FALSE])
         /\ r.status # "acked" => Keeps(r, [r EXCEPT !.due = TRUE])
  <1>1. Keeps(r, r)
    BY DEF Keeps, Moves
  <1>2. \A w : CanSave(r, w) => Keeps(r, EffectsSaved(r)) /\ EffectsSaved(r).proj # "none"
    BY DEF CanSave, EffectsSaved, Keeps, Moves, Turns, TurnStatuses, Projections
  <1>3. \A w : CanStart(r, w) => Keeps(r, Started(r))
    BY DEF CanStart, Started, Keeps, Moves, Turns, TurnStatuses
  <1>4. ASSUME NEW o \in Outcomes, NEW n \in Nat
        PROVE  Keeps(r, Settled(r, o, n))
    BY DEF Settled, Unfinished, Keeps, Moves, Turns, TurnStatuses
  <1>5. Keeps(r, Interrupted(r))
    BY DEF Interrupted, Unfinished, Keeps, Moves, Turns, TurnStatuses, Outcomes
  <1>6. Keeps(r, Deferred(r))
    BY DEF Deferred, Keeps, Moves, Turns
  <1>7. Keeps(r, [r EXCEPT !.live = FALSE]) /\ Keeps(r, [r EXCEPT !.due = TRUE])
    BY DEF Keeps, Moves, Turns
  <1> QED
    BY <1>1, <1>2, <1>3, <1>4, <1>5, <1>6, <1>7

LEMMA ProjectedRow == ASSUME NEW r \in Turns
                      PROVE  /\ Moves(r, Projected(r))
                             /\ Projected(r).status = r.status
                             /\ r.status = "acked" /\ r.proj = "complete" => Projected(r).proj = "complete"
  BY DEF Projected, Moves, Turns, Projections

LEMMA AckedRow == ASSUME NEW r \in Turns
                  PROVE  Moves(r, Acked(r)) /\ Acked(r).proj = r.proj
  BY DEF Acked, Moves, Turns, TurnStatuses

-----------------------------------------------------------------------------
(* The inductive invariant.  That an acknowledged turn had its effects      *)
(* handled holds because a caller reaches the acknowledgement only with a   *)
(* copy that showed saved effects, and saved effects are never forgotten.   *)

Works == [pc: Points, turn: Nat, batch: SUBSET Messages, direct: BOOLEAN,
          kind: {"reply", "receipt", "silent"}, copy: Projections,
          res: Outcomes, k: Nat, last: BOOLEAN]

\* What a call in state s may rely on.
Aware(s, ts) ==
  /\ s.pc \notin {"idle", "open"} => s.turn \in DOMAIN ts
  /\ s.pc \in {"idle", "open"} => s.copy = "none"
  /\ s.pc \in {"remove", "mark", "ack"} => s.copy # "none"
  /\ s.copy # "none" => s.turn \in DOMAIN ts /\ ts[s.turn].proj # "none"

AllAware == \A w \in Actors : Aware(work[w], turns)

Handled ==
  \A i \in DOMAIN turns :
    /\ turns[i].proj = "complete" => i \in repaired
    /\ turns[i].status = "acked" => turns[i].proj = "complete"

IInv == TypeOK /\ OneTurnAtATime /\ AllAware /\ Handled

LEMMA IdleType == Idle \in Works /\ \A ts : Aware(Idle, ts)
  BY DEF Idle, Works, Points, Projections, Outcomes, Aware

LEMMA TurnType ==
  ASSUME TypeOK, NEW w \in Actors, work[w].pc \notin {"idle", "open"}
  PROVE  work[w].turn \in DOMAIN turns /\ Turn(w) \in Turns
  <1>1. work[w].turn \in DOMAIN turns
    BY DEF TypeOK
  <1>2. DOMAIN turns = 1..Len(turns) /\ turns \in Seq(Turns)
    BY LenProperties DEF TypeOK
  <1> QED
    BY <1>1, <1>2, ElementOfSeq DEF Turn

\* A transition of one row keeps the turns of the chat apart and what calls rely on.
LEMMA RowChange ==
  ASSUME TypeOK, OneTurnAtATime, NEW k \in DOMAIN turns, NEW s, Moves(turns[k], s),
         turns' = [turns EXCEPT ![k] = s]
  PROVE  /\ turns' \in Seq(Turns) /\ Len(turns') = Len(turns) /\ DOMAIN turns' = DOMAIN turns
         /\ \A i \in DOMAIN turns : turns'[i] = IF i = k THEN s ELSE turns[i]
         /\ OneTurnAtATime'
         /\ \A x : Aware(x, turns) => Aware(x, turns')
  <1>1. DOMAIN turns = 1..Len(turns) /\ turns \in Seq(Turns) /\ s \in Turns
    BY LenProperties DEF TypeOK, Moves
  <1>2. turns' \in Seq(Turns) /\ Len(turns') = Len(turns)
    BY <1>1, ExceptSeq
  <1>3. DOMAIN turns' = DOMAIN turns
    OBVIOUS
  <1>4. \A i \in DOMAIN turns : turns'[i] = IF i = k THEN s ELSE turns[i]
    BY <1>1, ExceptSeq
  <1>5. \A i \in DOMAIN turns : /\ turns'[i].inputs = turns[i].inputs
                                /\ turns[i].status = "acked" => turns'[i].status = "acked"
                                /\ turns[i].proj # "none" => turns'[i].proj # "none"
    BY <1>4 DEF Moves
  <1>6. OneTurnAtATime'
    BY <1>3, <1>5 DEF OneTurnAtATime
  <1>7. \A x : Aware(x, turns) => Aware(x, turns')
    BY <1>3, <1>5 DEF Aware
  <1> QED
    BY <1>2, <1>3, <1>4, <1>6, <1>7

\* ... and what the invariant says of effects, if it neither acknowledges nor projects.
LEMMA KeptRow ==
  ASSUME TypeOK, Handled, NEW k \in DOMAIN turns, NEW s, Keeps(turns[k], s),
         turns' = [turns EXCEPT ![k] = s], repaired \subseteq repaired'
  PROVE  Handled'
  <1>1. DOMAIN turns' = DOMAIN turns
    OBVIOUS
  <1>2. \A i \in DOMAIN turns : turns'[i] = IF i = k THEN s ELSE turns[i]
    OBVIOUS
  <1> QED
    BY <1>1, <1>2 DEF Handled, Keeps, Moves

-----------------------------------------------------------------------------
(* Steps of one call. *)

ErrorPoints == Points \ {"idle", "check", "wire", "lease"}

\* Where OnError leaves the call: ended, or at a point before any acknowledgement.
Fallback(old, s) ==
  \/ s = Idle
  \/ /\ s \in Works /\ s.turn = old.turn /\ s.copy = old.copy
     /\ s.pc \in {"resave", "giveup", "refinish", "project", "defer"}
     /\ old.pc \notin {"idle", "open"}

LEMMA Errors ==
  ASSUME TypeOK, NEW w \in Actors, work[w].pc \in ErrorPoints, OnError(w)
  PROVE  /\ pending' \subseteq Messages /\ lock' \in Actors \cup {None}
         /\ \E s : work' = [work EXCEPT ![w] = s] /\ Fallback(work[w], s)
  <1>1. work[w] \in Works /\ work \in [Actors -> Works]
    BY DEF TypeOK, Works
  <1>2. Defers(w) \/ Done(w) => /\ pending' \subseteq Messages /\ lock' \in Actors \cup {None}
                               /\ work' = [work EXCEPT ![w] = Idle]
    BY <1>1 DEF Defers, Done, Release, TypeOK, Works
  <1>3. \A p \in {"resave", "giveup", "refinish", "project", "defer"} :
          /\ Stays(w, p)
          /\ work[w].pc # "open"
          => /\ pending' \subseteq Messages /\ lock' \in Actors \cup {None}
             /\ work' = [work EXCEPT ![w] = [work[w] EXCEPT !.pc = p]]
             /\ Fallback(work[w], [work[w] EXCEPT !.pc = p])
    BY <1>1 DEF Stays, Goto, TypeOK, Works, Fallback, Points, ErrorPoints
  <1>4. ASSUME AfterFailure(w), work[w].pc # "open"
        PROVE  /\ pending' \subseteq Messages /\ lock' \in Actors \cup {None}
               /\ \E s : work' = [work EXCEPT ![w] = s] /\ Fallback(work[w], s)
    <2> DEFINE f == work[w].kind = "receipt"
               s == [work[w] EXCEPT !.pc = IF f THEN "project" ELSE "giveup",
                                    !.res = IF f THEN "none" ELSE @, !.k = IF f THEN 0 ELSE @]
    <2>1. work' = [work EXCEPT ![w] = s]
      BY <1>1, <1>4 DEF AfterFailure, Works
    <2>2. Fallback(work[w], s)
      BY <1>1, <1>4 DEF Works, Fallback, Points, Outcomes, ErrorPoints
    <2> QED
      BY <1>4, <2>1, <2>2 DEF AfterFailure, TypeOK
  <1>5. \/ Defers(w) \/ Done(w)
        \/ AfterFailure(w) /\ work[w].pc # "open"
        \/ \E p \in {"resave", "giveup", "refinish", "defer"} : Stays(w, p) /\ work[w].pc # "open"
    BY DEF OnError, ErrorPoints, Points
  <1> QED
    BY <1>2, <1>3, <1>4, <1>5 DEF Fallback

\* A new state of one call keeps the types and what calls rely on.
LEMMA WorkChange ==
  ASSUME TypeOK, NEW ts, \A v \in Actors : Aware(work[v], ts),
         NEW w \in Actors, NEW s, s \in Works, Aware(s, ts), work' = [work EXCEPT ![w] = s]
  PROVE  work' \in [Actors -> Works] /\ \A v \in Actors : Aware(work'[v], ts)
  BY DEF TypeOK, Works

LEMMA FallbackAware ==
  ASSUME NEW ts, NEW x \in Works, Aware(x, ts), NEW s, Fallback(x, s)
  PROVE  s \in Works /\ Aware(s, ts)
  BY IdleType DEF Fallback, Aware, Works, Points

\* One call of the stored procedure.
LEMMA Calls ==
  ASSUME IInv, NEW w \in Actors, work[w].pc \in ErrorPoints \ {"open"},
         NEW g, NEW r, NEW s, Call(w, g, r, s),
         g => /\ Moves(Turn(w), r) /\ s \in Works
              /\ \A ts : /\ DOMAIN ts = DOMAIN turns /\ Aware(work[w], ts) /\ ts[work[w].turn] = r
                         => Aware(s, ts)
  PROVE  /\ pending' \subseteq Messages /\ lock' \in Actors \cup {None} /\ faults' \in Nat
         /\ turns' = turns \/ (g /\ turns' = [turns EXCEPT ![work[w].turn] = r])
         /\ turns' \in Seq(Turns) /\ Len(turns') = Len(turns) /\ DOMAIN turns' = DOMAIN turns
         /\ OneTurnAtATime'
         /\ work' \in [Actors -> Works] /\ AllAware'
  <1>0. TypeOK /\ OneTurnAtATime /\ AllAware /\ work[w] \in Works
    BY DEF IInv, TypeOK, Works
  <1>1. work[w].turn \in DOMAIN turns /\ Turn(w) = turns[work[w].turn]
    BY <1>0, TurnType DEF ErrorPoints, Turn
  <1>2. turns' = turns \/ (g /\ turns' = [turns EXCEPT ![work[w].turn] = r])
    BY DEF Call, Store
  <1>3. /\ turns' \in Seq(Turns) /\ Len(turns') = Len(turns) /\ DOMAIN turns' = DOMAIN turns
        /\ OneTurnAtATime'
        /\ \A x : Aware(x, turns) => Aware(x, turns')
    <2>1. CASE turns' = turns
      BY <1>0, <2>1 DEF TypeOK, OneTurnAtATime
    <2>2. CASE g /\ turns' = [turns EXCEPT ![work[w].turn] = r]
      BY <1>0, <1>1, <2>2, RowChange
    <2> QED
      BY <1>2, <2>1, <2>2
  <1>4. \A v \in Actors : Aware(work[v], turns')
    BY <1>0, <1>3 DEF AllAware
  <1>5. CASE OnError(w) /\ (Fault \/ UNCHANGED faults)
    <2>1. PICK s1 : work' = [work EXCEPT ![w] = s1] /\ Fallback(work[w], s1)
      BY <1>0, <1>5, Errors
    <2>2. s1 \in Works /\ Aware(s1, turns')
      BY <1>0, <1>4, <2>1, FallbackAware
    <2>3. work' \in [Actors -> Works] /\ \A v \in Actors : Aware(work'[v], turns')
      BY <1>0, <1>4, <2>1, <2>2, WorkChange
    <2>4. pending' \subseteq Messages /\ lock' \in Actors \cup {None}
      BY <1>0, <1>5, Errors
    <2>5. faults' \in Nat
      BY <1>0, <1>5 DEF Fault, TypeOK
    <2> QED
      BY <1>2, <1>3, <2>3, <2>4, <2>5 DEF AllAware
  <1>6. CASE g /\ Store(w, r) /\ work' = [work EXCEPT ![w] = s] /\ UNCHANGED <<pending, lock, faults>>
    <2>1. turns'[work[w].turn] = r
      BY <1>0, <1>1, <1>6 DEF Store
    <2>2. s \in Works /\ Aware(s, turns')
      BY <1>3, <1>4, <1>6, <2>1
    <2>3. work' \in [Actors -> Works] /\ \A v \in Actors : Aware(work'[v], turns')
      BY <1>0, <1>4, <1>6, <2>2, WorkChange
    <2> QED
      BY <1>0, <1>2, <1>3, <1>6, <2>3 DEF AllAware, TypeOK
  <1> QED
    BY <1>5, <1>6 DEF Call

-----------------------------------------------------------------------------
(* Putting the invariant together. *)

\* The part of the type invariant that calls leave alone.
RestOK ==
  /\ marked \subseteq Messages
  /\ arrivals \in [Messages -> Nat] /\ gens \in [Messages -> Nat]
  /\ sends \in Seq(Nat) /\ Len(sends) = Len(turns)
  /\ repaired \subseteq DOMAIN turns /\ noticed \subseteq DOMAIN turns

LEMMA Parts ==
  ASSUME IInv
  PROVE  RestOK /\ work \in [Actors -> Works] /\ \A w \in Actors : work[w] \in Works
  BY DEF IInv, RestOK, TypeOK, Works

LEMMA Assembled ==
  ASSUME RestOK', pending' \subseteq Messages, lock' \in Actors \cup {None}, faults' \in Nat,
         turns' \in Seq(Turns), work' \in [Actors -> Works], AllAware'
  PROVE  TypeOK'
  BY DEF RestOK, TypeOK, Works, AllAware, Aware

\* Steps that leave the turns alone.
LEMMA NoTurnChange ==
  ASSUME IInv, UNCHANGED turns, repaired \subseteq repaired'
  PROVE  OneTurnAtATime' /\ Handled' /\ turns' \in Seq(Turns)
  BY DEF IInv, TypeOK, OneTurnAtATime, Handled

\* A step of one caller, or of none, that leaves the turns alone.
LEMMA LocalStep ==
  ASSUME IInv, NEW w \in Actors, NEW s, s \in Works, Aware(s, turns),
         work' = [work EXCEPT ![w] = s] \/ work' = work,
         UNCHANGED turns, repaired \subseteq repaired',
         RestOK', pending' \subseteq Messages, lock' \in Actors \cup {None}, faults' \in Nat
  PROVE  IInv'
  <1>1. work' \in [Actors -> Works] /\ \A v \in Actors : Aware(work'[v], turns)
    <2>1. TypeOK /\ \A v \in Actors : Aware(work[v], turns)
      BY DEF IInv, AllAware
    <2>2. CASE work' = work
      BY <2>1, <2>2, Parts
    <2>3. CASE work' = [work EXCEPT ![w] = s]
      BY <2>1, <2>3, WorkChange
    <2> QED
      BY <2>2, <2>3
  <1>2. AllAware'
    BY <1>1 DEF AllAware
  <1>3. OneTurnAtATime' /\ Handled' /\ turns' \in Seq(Turns)
    BY NoTurnChange
  <1>4. TypeOK'
    BY <1>1, <1>2, <1>3, Assembled
  <1> QED
    BY <1>2, <1>3, <1>4 DEF IInv

LEMMA IdleStep ==
  ASSUME IInv, UNCHANGED <<turns, work>>, repaired \subseteq repaired',
         RestOK', pending' \subseteq Messages, lock' \in Actors \cup {None}, faults' \in Nat
  PROVE  IInv'
  <1>1. work' \in [Actors -> Works] /\ AllAware'
    BY Parts DEF AllAware, IInv
  <1>2. OneTurnAtATime' /\ Handled' /\ turns' \in Seq(Turns)
    BY NoTurnChange
  <1>3. TypeOK'
    BY <1>1, <1>2, Assembled
  <1> QED
    BY <1>1, <1>2, <1>3 DEF IInv

-----------------------------------------------------------------------------
(* Arrivals, clocks and crashes. *)

LEMMA ArrivalSteps ==
  ASSUME IInv, ReplyAssumption,
         \/ \E m \in Messages : Arrive(m) \/ MarkExpires(m) \/ \E w \in Workers : ArriveDirect(w, m)
         \/ \E w \in Workers : StartJob(w)
         \/ PendingExpires \/ LockExpires
         \/ \E w \in Actors : Crash(w)
  PROVE  IInv'
  <1>0. TypeOK /\ RestOK
    BY Parts DEF IInv
  <1>1. CASE \/ \E m \in Messages : Arrive(m) \/ MarkExpires(m)
             \/ PendingExpires \/ LockExpires
    <2>1. /\ UNCHANGED <<turns, work, gens, sends, repaired, noticed>>
          /\ pending' \subseteq Messages /\ lock' \in Actors \cup {None} /\ faults' \in Nat
          /\ marked' \subseteq Messages /\ arrivals' \in [Messages -> Nat]
      BY <1>0, <1>1 DEF Arrive, MarkExpires, PendingExpires, LockExpires, Fault, TypeOK, history, inbox
    <2>2. RestOK'
      BY <1>0, <2>1 DEF RestOK
    <2> QED
      BY <2>1, <2>2, IdleStep
  <1>2. ASSUME NEW w \in Workers, NEW m, (ArriveDirect(w, m) /\ m \in Messages) \/ StartJob(w)
        PROVE  IInv'
    <2>1. w \in Actors
      BY DEF Actors
    <2>2. /\ UNCHANGED <<turns, gens, sends, repaired, noticed>>
          /\ pending' \subseteq Messages /\ lock' \in Actors \cup {None} /\ faults' \in Nat
          /\ marked' \subseteq Messages /\ arrivals' \in [Messages -> Nat]
      <3>1. CASE ArriveDirect(w, m) /\ m \in Messages
        <4>1. /\ UNCHANGED <<turns, gens, sends, repaired, noticed, pending, lock, faults>>
              /\ marked' = marked \cup {m} /\ arrivals' = [arrivals EXCEPT ![m] = @ + 1]
          BY <3>1 DEF ArriveDirect, history
        <4> QED
          BY <1>0, <3>1, <4>1 DEF TypeOK
      <3>2. CASE StartJob(w)
        BY <1>0, <2>1, <3>2 DEF StartJob, TypeOK, history, inbox
      <3> QED
        BY <1>2, <3>1, <3>2
    <2>3. RestOK'
      BY <1>0, <2>2 DEF RestOK
    <2>4. PICK s \in Works : Aware(s, turns) /\ work' = [work EXCEPT ![w] = s]
      <3>1. \A b \in SUBSET Messages :
              /\ [Idle EXCEPT !.pc = "open", !.batch = b] \in Works
              /\ [Idle EXCEPT !.pc = "open", !.batch = b, !.direct = TRUE] \in Works
              /\ Aware([Idle EXCEPT !.pc = "open", !.batch = b], turns)
              /\ Aware([Idle EXCEPT !.pc = "open", !.batch = b, !.direct = TRUE], turns)
        BY DEF Idle, Works, Points, Projections, Outcomes, Aware
      <3>2. CASE ArriveDirect(w, m) /\ m \in Messages
        <4>1. work' = [work EXCEPT ![w] = [Idle EXCEPT !.pc = "open", !.batch = {m}, !.direct = TRUE]]
          BY <3>2 DEF ArriveDirect
        <4> QED
          BY <3>1, <3>2, <4>1
      <3>3. CASE StartJob(w)
        <4>1. work' = [work EXCEPT ![w] = [Idle EXCEPT !.pc = "open", !.batch = pending]]
          BY <3>3 DEF StartJob
        <4> QED
          BY <1>0, <3>1, <4>1 DEF TypeOK
      <3> QED
        BY <1>2, <3>2, <3>3
    <2> QED
      BY <2>1, <2>2, <2>3, <2>4, LocalStep
  <1>3. ASSUME NEW w \in Actors, Crash(w)
        PROVE  IInv'
    <2>1. /\ UNCHANGED <<turns, gens, sends, repaired, noticed, marked, arrivals, pending, lock>>
          /\ faults' \in Nat /\ work' = [work EXCEPT ![w] = Idle]
      BY <1>0, <1>3 DEF Crash, Fault, TypeOK, history, inbox
    <2>2. RestOK' /\ pending' \subseteq Messages /\ lock' \in Actors \cup {None}
      BY <1>0, <2>1 DEF RestOK, TypeOK
    <2> QED
      BY <2>1, <2>2, IdleType, LocalStep
  <1> QED
    BY <1>1, <1>2, <1>3

\* Clocks change one row each.
LEMMA ClockSteps ==
  ASSUME IInv, NEW i \in DOMAIN turns, Lapse(i) \/ FallsDue(i)
  PROVE  IInv'
  <1>0. TypeOK /\ RestOK /\ OneTurnAtATime /\ Handled /\ AllAware /\ work \in [Actors -> Works]
    BY Parts DEF IInv
  <1>1. turns[i] \in Turns
    BY <1>0, LenProperties, ElementOfSeq DEF TypeOK
  <1>2. PICK s : Keeps(turns[i], s) /\ turns' = [turns EXCEPT ![i] = s]
    <2>1. CASE Lapse(i)
      BY <1>1, <2>1, RowSteps DEF Lapse
    <2>2. CASE FallsDue(i)
      BY <1>1, <2>2, RowSteps DEF FallsDue
    <2> QED
      BY <2>1, <2>2
  <1>3. UNCHANGED <<pending, marked, arrivals, lock, work, gens, sends, repaired, noticed, faults>>
    BY DEF Lapse, FallsDue, inbox, history
  <1>4. /\ turns' \in Seq(Turns) /\ Len(turns') = Len(turns) /\ DOMAIN turns' = DOMAIN turns
        /\ OneTurnAtATime'
        /\ \A x : Aware(x, turns) => Aware(x, turns')
    BY <1>0, <1>2, RowChange DEF Keeps
  <1>5. Handled'
    BY <1>0, <1>2, <1>3, KeptRow
  <1>6. AllAware' /\ work' \in [Actors -> Works]
    BY <1>0, <1>3, <1>4 DEF AllAware
  <1>7. RestOK'
    BY <1>0, <1>3, <1>4 DEF RestOK
  <1>8. TypeOK'
    BY <1>0, <1>3, <1>4, <1>6, <1>7, Assembled DEF TypeOK
  <1> QED
    BY <1>4, <1>5, <1>6, <1>8 DEF IInv

-----------------------------------------------------------------------------
(* Steps of a call that touch no turn. *)

\* Moving on within a turn, to a point that relies on nothing but the turn.
LEMMA MovesOn ==
  ASSUME NEW x \in Works, x.pc \notin {"idle", "open"},
         NEW p \in Points, p \notin {"idle", "open"},
         p \in {"remove", "mark", "ack"} => x.copy # "none"
  PROVE  /\ [x EXCEPT !.pc = p] \in Works
         /\ \A ts : Aware(x, ts) => Aware([x EXCEPT !.pc = p], ts)
  <1>1. [x EXCEPT !.pc = p] \in Works
    BY DEF Works
  <1>2. /\ [x EXCEPT !.pc = p].pc = p /\ [x EXCEPT !.pc = p].turn = x.turn
        /\ [x EXCEPT !.pc = p].copy = x.copy
    BY DEF Works
  <1> QED
    BY <1>1, <1>2 DEF Aware

LEMMA ReplySteps ==
  ASSUME IInv, ReplyAssumption, NEW w \in Workers,
         Generate(w) \/ CheckDelivery(w) \/ SendSegment(w)
  PROVE  IInv'
  <1>0. /\ TypeOK /\ RestOK /\ AllAware /\ work[w] \in Works /\ w \in Actors
        /\ Aware(work[w], turns) /\ work \in [Actors -> Works]
    BY Parts DEF IInv, Actors, AllAware
  <1>1. /\ UNCHANGED <<turns, marked, arrivals, repaired, noticed, faults>>
        /\ pending' \subseteq Messages /\ lock' \in Actors \cup {None}
    <2>1. CASE Generate(w)
      BY <1>0, <2>1 DEF Generate, Defers, Release, TypeOK, Works
    <2>2. CASE CheckDelivery(w) \/ SendSegment(w)
      BY <1>0, <2>2 DEF CheckDelivery, SendSegment, inbox, history, TypeOK
    <2> QED
      BY <2>1, <2>2
  <1>2. RestOK' /\ faults' \in Nat
    <2>1. CASE Generate(w)
      <3>1. gens' \in [Messages -> Nat] /\ sends' = sends
        BY <1>0, <2>1 DEF Generate, RestOK
      <3> QED
        BY <1>0, <1>1, <3>1 DEF RestOK, TypeOK
    <2>2. CASE CheckDelivery(w)
      BY <1>0, <1>1, <2>2 DEF CheckDelivery, history, RestOK, TypeOK
    <2>3. CASE SendSegment(w)
      <3>1. work[w].turn \in DOMAIN turns
        BY <1>0, <2>3 DEF SendSegment, TypeOK
      <3>2. work[w].turn \in 1..Len(sends)
        BY <1>0, <3>1, LenProperties DEF TypeOK
      <3>3. sends[work[w].turn] + 1 \in Nat
        BY <1>0, <3>2, ElementOfSeq DEF TypeOK
      <3>4. sends' = sends \/ sends' = [sends EXCEPT ![work[w].turn] = sends[work[w].turn] + 1]
        BY <2>3 DEF SendSegment
      <3>5. sends' \in Seq(Nat) /\ Len(sends') = Len(sends)
        BY <1>0, <3>2, <3>3, <3>4, ExceptSeq DEF TypeOK
      <3>6. gens' = gens
        BY <2>3 DEF SendSegment
      <3> QED
        BY <1>0, <1>1, <3>5, <3>6 DEF RestOK, TypeOK
    <2> QED
      BY <2>1, <2>2, <2>3
  <1>3. PICK s \in Works : Aware(s, turns) /\ work' = [work EXCEPT ![w] = s]
    <2>1. CASE Generate(w)
      <3>1. ASSUME NEW kind \in Kinds, work' = [work EXCEPT ![w].pc = "save", ![w].kind = kind]
            PROVE  \E s \in Works : Aware(s, turns) /\ work' = [work EXCEPT ![w] = s]
        <4>1. [work[w] EXCEPT !.pc = "save", !.kind = kind] \in Works
          BY <1>0, ReplyAssumption DEF Works, Points, ReplyAssumption
        <4>2. Aware([work[w] EXCEPT !.pc = "save", !.kind = kind], turns)
          BY <1>0, <2>1 DEF Aware, Works, Generate
        <4>3. work' = [work EXCEPT ![w] = [work[w] EXCEPT !.pc = "save", !.kind = kind]]
          BY <1>0, <3>1
        <4> QED
          BY <4>1, <4>2, <4>3
      <3>2. CASE Defers(w)
        BY <3>2, IdleType DEF Defers
      <3> QED
        BY <2>1, <3>1, <3>2 DEF Generate
    <2>2. ASSUME CheckDelivery(w) \/ SendSegment(w)
          PROVE  \E s \in Works : Aware(s, turns) /\ work' = [work EXCEPT ![w] = s]
      <3>0. work[w].pc \in {"check", "wire"}
        BY <2>2 DEF CheckDelivery, SendSegment
      <3>1. ASSUME NEW o \in Outcomes, Results(w, o)
            PROVE  \E s \in Works : Aware(s, turns) /\ work' = [work EXCEPT ![w] = s]
        <4>1. /\ [work[w] EXCEPT !.pc = "finish", !.res = o] \in Works
              /\ Aware([work[w] EXCEPT !.pc = "finish", !.res = o], turns)
          BY <1>0, <3>0 DEF Works, Points, Aware
        <4>2. work' = [work EXCEPT ![w] = [work[w] EXCEPT !.pc = "finish", !.res = o]]
          BY <1>0, <3>1 DEF Results
        <4> QED
          BY <4>1, <4>2
      <3>2. CASE Goto(w, "wire")
        <4>1. work' = [work EXCEPT ![w] = [work[w] EXCEPT !.pc = "wire"]]
          BY <1>0, <3>2 DEF Goto
        <4>2. /\ [work[w] EXCEPT !.pc = "wire"] \in Works
              /\ Aware([work[w] EXCEPT !.pc = "wire"], turns)
          BY <1>0, <3>0, MovesOn DEF Points
        <4> QED
          BY <4>1, <4>2
      <3>3. CASE work' = [work EXCEPT ![w].pc = "check", ![w].k = @ + 1]
        <4>0. work[w].k + 1 \in Nat
          BY <1>0 DEF Works
        <4>1. /\ [work[w] EXCEPT !.pc = "check", !.k = work[w].k + 1] \in Works
              /\ Aware([work[w] EXCEPT !.pc = "check", !.k = work[w].k + 1], turns)
          BY <1>0, <3>0, <4>0 DEF Works, Points, Aware
        <4>2. work' = [work EXCEPT ![w] = [work[w] EXCEPT !.pc = "check", !.k = work[w].k + 1]]
          BY <1>0, <3>3
        <4> QED
          BY <4>1, <4>2
      <3>4. {"complete", "skipped", "incomplete", "unknown"} \subseteq Outcomes
        BY DEF Outcomes
      <3> QED
        BY <2>2, <3>1, <3>2, <3>3, <3>4 DEF CheckDelivery, SendSegment
    <2> QED
      BY <2>1, <2>2
  <1> QED
    BY <1>0, <1>1, <1>2, <1>3, LocalStep

LEMMA ErrorStep ==
  ASSUME IInv, NEW w \in Actors, work[w].pc \in ErrorPoints, OnError(w)
  PROVE  /\ pending' \subseteq Messages /\ lock' \in Actors \cup {None}
         /\ \E s \in Works : Aware(s, turns) /\ work' = [work EXCEPT ![w] = s]
  <1>0. TypeOK /\ work[w] \in Works /\ Aware(work[w], turns)
    BY Parts DEF IInv, AllAware
  <1>1. PICK s : work' = [work EXCEPT ![w] = s] /\ Fallback(work[w], s)
    BY <1>0, Errors
  <1>2. s \in Works /\ Aware(s, turns)
    BY <1>0, <1>1, FallbackAware
  <1> QED
    BY <1>0, <1>1, <1>2, Errors

\* The steps of an acknowledgement and of a scan that touch no turn.
LEMMA AckSteps ==
  ASSUME IInv, NEW w \in Actors,
         \/ RepairFails(w) \/ RemovePending(w) \/ MarkProcessed(w)
         \/ LeaseLost(w) \/ Lease(w) \/ Scan(w)
  PROVE  IInv'
  <1>0. /\ TypeOK /\ RestOK /\ work[w] \in Works /\ Aware(work[w], turns)
        /\ work \in [Actors -> Works]
    BY Parts DEF IInv, AllAware
  <1>1. ASSUME NEW p \in Points \ {"idle", "open"}, Goto(w, p), work[w].pc \notin {"idle", "open"},
               p \in {"remove", "mark", "ack"} => work[w].copy # "none"
        PROVE  \E s \in Works : Aware(s, turns) /\ work' = [work EXCEPT ![w] = s]
    <2>1. work' = [work EXCEPT ![w] = [work[w] EXCEPT !.pc = p]]
      BY <1>0, <1>1 DEF Goto
    <2> QED
      BY <1>0, <1>1, <2>1, MovesOn
  <1>2. UNCHANGED <<turns, repaired, noticed, gens, sends, arrivals>> /\ faults' \in Nat
    <2>1. UNCHANGED <<turns, repaired, noticed, gens, sends, arrivals>>
      BY DEF RepairFails, RemovePending, MarkProcessed, LeaseLost, Lease, Scan, history, inbox
    <2>2. faults' = faults \/ Fault
      BY DEF RepairFails, RemovePending, MarkProcessed, LeaseLost, Lease, Scan
    <2> QED
      BY <1>0, <2>1, <2>2 DEF Fault, TypeOK
  <1>3. marked' \subseteq Messages
    <2>1. CASE MarkProcessed(w)
      <3>1. Turn(w).inputs \subseteq Messages
        BY <1>0, <2>1, TurnType DEF MarkProcessed, Turns
      <3> QED
        BY <1>0, <2>1, <3>1 DEF MarkProcessed, TypeOK
    <2>2. CASE marked' = marked
      BY <1>0, <2>2 DEF TypeOK
    <2> QED
      BY <2>1, <2>2 DEF RepairFails, RemovePending, LeaseLost, Lease, Scan, inbox
  <1>4. RestOK'
    BY <1>0, <1>2, <1>3 DEF RestOK
  <1>5. /\ pending' \subseteq Messages /\ lock' \in Actors \cup {None}
        /\ \E s \in Works : Aware(s, turns) /\ work' = [work EXCEPT ![w] = s]
    <2>1. CASE OnError(w) /\ work[w].pc \in {"project", "repair", "remove", "mark"}
      BY <2>1, ErrorStep DEF ErrorPoints, Points
    <2>2. CASE RemovePending(w) /\ ~OnError(w)
      <3>1. work[w].pc = "remove" /\ work[w].copy # "none"
        BY <1>0, <2>2 DEF RemovePending, Aware
      <3>2. Goto(w, "mark") /\ lock' = lock /\ pending' \subseteq pending
        BY <2>2 DEF RemovePending
      <3> QED
        BY <1>0, <1>1, <3>1, <3>2 DEF Points, TypeOK
    <2>3. CASE MarkProcessed(w) /\ ~OnError(w)
      <3>1. work[w].pc = "mark" /\ work[w].copy # "none"
        BY <1>0, <2>3 DEF MarkProcessed, Aware
      <3>2. Goto(w, "ack") /\ lock' = lock /\ pending' = pending
        BY <2>3 DEF MarkProcessed, Stays
      <3> QED
        BY <1>0, <1>1, <3>1, <3>2 DEF Points, TypeOK
    <2>4. CASE LeaseLost(w)
      <3>1. Goto(w, "defer") /\ lock' = lock /\ pending' = pending /\ work[w].pc \notin {"idle", "open"}
        BY <2>4 DEF LeaseLost, Stays
      <3> QED
        BY <1>0, <1>1, <3>1 DEF Points, TypeOK
    <2>5. CASE Lease(w)
      <3>1. pending' = pending /\ work[w].pc = "lease"
        BY <2>5 DEF Lease, inbox
      <3>2. CASE lock = None /\ lock' = w /\ Goto(w, "resume")
        BY <1>0, <1>1, <3>1, <3>2 DEF Points, TypeOK
      <3>3. CASE work' = [work EXCEPT ![w] = Idle] /\ UNCHANGED lock
        BY <1>0, <3>1, <3>3, IdleType DEF TypeOK
      <3> QED
        BY <2>5, <3>2, <3>3 DEF Lease
    <2>6. CASE Scan(w)
      <3>1. PICK i \in DOMAIN turns :
              work' = [work EXCEPT ![w] = [Idle EXCEPT !.pc = "lease", !.turn = i, !.copy = turns[i].proj]]
        BY <2>6 DEF Scan
      <3>2. turns[i] \in Turns /\ i \in Nat
        BY <1>0, LenProperties, ElementOfSeq DEF TypeOK
      <3>3. [Idle EXCEPT !.pc = "lease", !.turn = i, !.copy = turns[i].proj] \in Works
        BY <3>2 DEF Idle, Works, Points, Outcomes, Turns
      <3>4. Aware([Idle EXCEPT !.pc = "lease", !.turn = i, !.copy = turns[i].proj], turns)
        BY DEF Idle, Aware
      <3>5. pending' = pending /\ lock' = lock
        BY <2>6 DEF Scan, inbox
      <3> QED
        BY <1>0, <3>1, <3>3, <3>4, <3>5 DEF TypeOK
    <2>7. RepairFails(w) => OnError(w) /\ work[w].pc \in {"project", "repair"}
      BY DEF RepairFails
    <2>8. RemovePending(w) => work[w].pc = "remove"
      BY DEF RemovePending
    <2>9. MarkProcessed(w) => work[w].pc = "mark"
      BY DEF MarkProcessed
    <2> QED
      BY <2>1, <2>2, <2>3, <2>4, <2>5, <2>6, <2>7, <2>8, <2>9
  <1> QED
    BY <1>0, <1>2, <1>4, <1>5, LocalStep

-----------------------------------------------------------------------------
(* The calls of the stored procedure that keep a row. *)

\* A call that keeps its row leaves the invariant.
LEMMA KeptCall ==
  ASSUME IInv, NEW w \in Actors, work[w].pc \in ErrorPoints \ {"open"},
         NEW g, NEW r, NEW s, Call(w, g, r, s),
         g => /\ Keeps(Turn(w), r) /\ s \in Works
              /\ \A ts : /\ DOMAIN ts = DOMAIN turns /\ Aware(work[w], ts) /\ ts[work[w].turn] = r
                         => Aware(s, ts),
         UNCHANGED <<marked, arrivals, gens, sends>>,
         repaired \subseteq repaired', repaired' \subseteq repaired \cup {work[w].turn},
         noticed' \subseteq noticed \cup {work[w].turn}
  PROVE  IInv'
  <1>0. /\ TypeOK /\ RestOK /\ Handled
        /\ work[w].turn \in DOMAIN turns /\ Turn(w) = turns[work[w].turn]
    BY Parts, TurnType DEF IInv, ErrorPoints, Turn
  <1>1. /\ pending' \subseteq Messages /\ lock' \in Actors \cup {None} /\ faults' \in Nat
        /\ turns' = turns \/ (g /\ turns' = [turns EXCEPT ![work[w].turn] = r])
        /\ turns' \in Seq(Turns) /\ Len(turns') = Len(turns) /\ DOMAIN turns' = DOMAIN turns
        /\ OneTurnAtATime'
        /\ work' \in [Actors -> Works] /\ AllAware'
    BY Calls DEF Keeps
  <1>2. RestOK'
    BY <1>0, <1>1 DEF RestOK
  <1>3. Handled'
    <2>1. CASE turns' = turns
      BY <1>0, <2>1 DEF Handled
    <2>2. CASE g /\ turns' = [turns EXCEPT ![work[w].turn] = r]
      BY <1>0, <2>2, KeptRow
    <2> QED
      BY <1>1, <2>1, <2>2
  <1> QED
    BY <1>1, <1>2, <1>3, Assembled DEF IInv

LEMMA DeliverySteps ==
  ASSUME IInv, NEW w \in Workers, SaveEffects(w) \/ StartDelivery(w) \/ FinishOrdinary(w)
  PROVE  IInv'
  <1>0. /\ TypeOK /\ work[w] \in Works /\ w \in Actors
        /\ UNCHANGED <<marked, arrivals, gens, sends, repaired, noticed>>
        /\ work[w].pc \in {"save", "resave", "start", "finish", "refinish"}
    BY Parts DEF IInv, Actors, SaveEffects, StartDelivery, FinishOrdinary, history
  <1>1. work[w].pc \in ErrorPoints \ {"open"} /\ work[w].pc \notin {"idle", "open"}
    BY <1>0 DEF ErrorPoints, Points
  <1>2. Turn(w) \in Turns
    BY <1>0, <1>1, TurnType
  <1>3. \A p \in {"giveup", "start", "project", "check", "close"} :
          At(w, p) \in Works /\ \A ts : Aware(work[w], ts) => Aware(At(w, p), ts)
    BY <1>0, <1>1, MovesOn DEF At, Points
  <1>4. CASE SaveEffects(w)
    <2> DEFINE s == At(w, IF work[w].pc = "resave" THEN "giveup"
                          ELSE IF work[w].kind = "receipt" THEN "start" ELSE "project")
    <2>1. s \in Works /\ \A ts : Aware(work[w], ts) => Aware(s, ts)
      BY <1>3
    <2>2. CanSave(Turn(w), w) => Keeps(Turn(w), EffectsSaved(Turn(w)))
      BY <1>2, RowSteps
    <2>3. Call(w, CanSave(Turn(w), w), EffectsSaved(Turn(w)), s)
      BY <1>4 DEF SaveEffects
    <2> QED
      BY <1>0, <1>1, <2>1, <2>2, <2>3, KeptCall
  <1>5. CASE StartDelivery(w)
    <2>1. CanStart(Turn(w), w) => Keeps(Turn(w), Started(Turn(w)))
      BY <1>2, RowSteps
    <2>2. Call(w, CanStart(Turn(w), w), Started(Turn(w)), At(w, "check"))
      BY <1>5 DEF StartDelivery
    <2> QED
      BY <1>0, <1>1, <1>3, <2>1, <2>2, KeptCall
  <1>6. CASE FinishOrdinary(w)
    <2>1. Keeps(Turn(w), Settled(Turn(w), work[w].res, work[w].k))
      BY <1>0, <1>2, RowSteps DEF Works
    <2>2. Delivered(w) \in Works /\ \A ts : Aware(work[w], ts) => Aware(Delivered(w), ts)
      <3>1. CASE work[w].kind # "receipt"
        BY <1>3, <3>1 DEF Delivered
      <3>2. CASE work[w].kind = "receipt"
        <4> DEFINE x == [At(w, "project") EXCEPT !.res = "none", !.k = 0]
        <4>1. x \in Works
          BY <1>3 DEF Works, Outcomes
        <4>2. x.pc = "project" /\ x.turn = work[w].turn /\ x.copy = work[w].copy
          BY <1>0 DEF At, Works
        <4>3. \A ts : Aware(work[w], ts) => Aware(x, ts)
          BY <1>1, <4>2 DEF Aware
        <4>4. Delivered(w) = x
          BY <3>2 DEF Delivered
        <4> QED
          BY <4>1, <4>3, <4>4
      <3> QED
        BY <3>1, <3>2
    <2>3. Call(w, CanSettle(Turn(w), w), Settled(Turn(w), work[w].res, work[w].k), Delivered(w))
      BY <1>6 DEF FinishOrdinary
    <2> QED
      BY <1>0, <1>1, <2>1, <2>2, <2>3, KeptCall
  <1> QED
    BY <1>4, <1>5, <1>6

\* Closing a turn: the caller goes on with the projection status of the row returned.
LEMMA AckPathAware ==
  ASSUME NEW w \in Actors, work[w] \in Works, NEW i \in Nat, NEW p \in Projections, NEW l \in BOOLEAN
  PROVE  /\ AckPath(w, i, p, l) \in Works
         /\ \A ts : i \in DOMAIN ts /\ ts[i].proj = p => Aware(AckPath(w, i, p, l), ts)
  <1>1. AckPath(w, i, p, l) \in Works
    BY DEF AckPath, Works, Points
  <1>2. /\ AckPath(w, i, p, l).pc = "repair" /\ AckPath(w, i, p, l).turn = i
        /\ AckPath(w, i, p, l).copy = p
    BY DEF AckPath, Works
  <1> QED
    BY <1>1, <1>2 DEF Aware

LEMMA CloseSteps ==
  ASSUME IInv, NEW w \in Actors, GiveUp(w) \/ Close(w) \/ Resume(w)
  PROVE  IInv'
  <1>0. /\ TypeOK /\ work[w] \in Works /\ Aware(work[w], turns)
        /\ work[w].pc \in {"giveup", "close", "resume"}
    BY Parts DEF IInv, AllAware, GiveUp, Close, Resume
  <1>1. work[w].pc \in ErrorPoints \ {"open"} /\ work[w].pc \notin {"idle", "open"}
    BY <1>0 DEF ErrorPoints, Points
  <1>2. Turn(w) \in Turns /\ work[w].turn \in DOMAIN turns
    BY <1>0, <1>1, TurnType
  <1>3. ASSUME NEW g, NEW r, Keeps(Turn(w), r), NEW l \in BOOLEAN,
               Call(w, g, r, AckPath(w, work[w].turn, r.proj, l)),
               UNCHANGED <<marked, arrivals, gens, sends, repaired>>,
               noticed' \subseteq noticed \cup {work[w].turn}
        PROVE  IInv'
    <2>1. r.proj \in Projections /\ work[w].turn \in Nat
      BY <1>0, <1>3 DEF Keeps, Moves, Turns, Works
    <2> QED
      BY <1>0, <1>1, <1>2, <1>3, <2>1, AckPathAware, KeptCall DEF Aware
  <1>4. CASE GiveUp(w)
    <2> DEFINE o == IF work[w].res = "unknown" THEN "unknown" ELSE "incomplete"
               r == Settled(Turn(w), o, Counted(w))
    <2>1. Keeps(Turn(w), r)
      BY <1>0, <1>2, RowSteps DEF Works, Counted, Outcomes
    <2>2. /\ Call(w, CanSettle(Turn(w), w), r, AckPath(w, work[w].turn, r.proj, TRUE))
          /\ UNCHANGED <<marked, arrivals, gens, sends, repaired, noticed>>
      BY <1>4 DEF GiveUp, history
    <2> QED
      BY <1>3, <2>1, <2>2
  <1>5. CASE Close(w)
    <2> DEFINE r == Settled(Turn(w), "skipped", 0)
    <2>1. Keeps(Turn(w), r)
      BY <1>2, RowSteps DEF Outcomes
    <2>2. /\ Call(w, CanSettle(Turn(w), w), r, AckPath(w, work[w].turn, r.proj, FALSE))
          /\ UNCHANGED <<marked, arrivals, gens, sends, repaired, noticed>>
      BY <1>5 DEF Close, history
    <2> QED
      BY <1>3, <2>1, <2>2
  <1>6. CASE Resume(w)
    <2> DEFINE r == Interrupted(Turn(w))
    <2>0. UNCHANGED <<marked, arrivals, gens, sends, repaired>>
          /\ noticed' \subseteq noticed \cup {work[w].turn}
      BY <1>6 DEF Resume
    <2>1. CASE work[w].copy = "none"
      <3>1. Stays(w, "defer") /\ UNCHANGED <<turns, faults>>
        BY <1>6, <2>1 DEF Resume
      <3>2. RestOK' /\ pending' \subseteq Messages /\ lock' \in Actors \cup {None} /\ faults' \in Nat
        BY <1>0, <1>2, <2>0, <3>1, Parts DEF RestOK, Stays, TypeOK
      <3>3. work' = [work EXCEPT ![w] = [work[w] EXCEPT !.pc = "defer"]]
        BY <1>0, <3>1 DEF Stays, Goto, TypeOK
      <3>4. [work[w] EXCEPT !.pc = "defer"] \in Works /\ Aware([work[w] EXCEPT !.pc = "defer"], turns)
        BY <1>0, <1>1, MovesOn DEF Points
      <3> QED
        BY <2>0, <3>1, <3>2, <3>3, <3>4, LocalStep
    <2>2. CASE work[w].copy # "none"
      <3>1. Keeps(Turn(w), r)
        BY <1>2, RowSteps
      <3>2. Call(w, CanInterrupt(Turn(w)), r, AckPath(w, work[w].turn, r.proj, TRUE))
        BY <1>6, <2>2 DEF Resume
      <3> QED
        BY <1>3, <2>0, <3>1, <3>2
    <2> QED
      BY <2>1, <2>2
  <1> QED
    BY <1>4, <1>5, <1>6

-----------------------------------------------------------------------------
(* Completing the projection, acknowledging and deferring. *)

LEMMA ProjectionSteps ==
  ASSUME IInv, NEW w \in Actors, CompleteProjection(w) \/ RepairEffects(w)
  PROVE  IInv'
  <1>0. /\ TypeOK /\ RestOK /\ Handled /\ work[w] \in Works /\ Aware(work[w], turns)
        /\ work[w].pc \in {"project", "repair"}
    BY Parts DEF IInv, AllAware, CompleteProjection, RepairEffects
  <1>1. work[w].pc \in ErrorPoints \ {"open"} /\ work[w].pc \notin {"idle", "open"}
    BY <1>0 DEF ErrorPoints, Points
  <1>2. Turn(w) \in Turns /\ work[w].turn \in DOMAIN turns /\ Turn(w) = turns[work[w].turn]
    BY <1>0, <1>1, TurnType DEF Turn
  <1>3. \A p \in {"start", "close", "remove"} :
          (p = "remove" => work[w].copy # "none")
          => At(w, p) \in Works /\ \A ts : Aware(work[w], ts) => Aware(At(w, p), ts)
    BY <1>0, <1>1, MovesOn DEF At, Points
  <1>4. ASSUME NEW s \in Works, \A ts : Aware(work[w], ts) => Aware(s, ts),
               Call(w, CanProject(Turn(w), w), Projected(Turn(w)), s),
               repaired' = repaired \cup {work[w].turn},
               UNCHANGED <<marked, arrivals, gens, sends, noticed>>
        PROVE  IInv'
    <2>1. /\ Moves(Turn(w), Projected(Turn(w))) /\ Projected(Turn(w)).status = Turn(w).status
          /\ Turn(w).status = "acked" /\ Turn(w).proj = "complete" => Projected(Turn(w)).proj = "complete"
      BY <1>2, ProjectedRow
    <2>2. /\ pending' \subseteq Messages /\ lock' \in Actors \cup {None} /\ faults' \in Nat
          /\ \/ turns' = turns
             \/ turns' = [turns EXCEPT ![work[w].turn] = Projected(Turn(w))]
          /\ turns' \in Seq(Turns) /\ Len(turns') = Len(turns) /\ DOMAIN turns' = DOMAIN turns
          /\ OneTurnAtATime'
          /\ work' \in [Actors -> Works] /\ AllAware'
      BY <1>1, <1>4, <2>1, Calls
    <2>3. RestOK'
      BY <1>0, <1>2, <1>4, <2>2 DEF RestOK
    <2>4. \A i \in DOMAIN turns :
            turns'[i] = turns[i] \/ (i = work[w].turn /\ turns'[i] = Projected(Turn(w)))
      BY <1>2, <2>2
    <2>5. Handled'
      BY <1>0, <1>2, <1>4, <2>1, <2>2, <2>4 DEF Handled
    <2> QED
      BY <2>2, <2>3, <2>5, Assembled DEF IInv
  <1>5. CASE CompleteProjection(w)
    <2> DEFINE s == At(w, IF work[w].kind = "reply" THEN "start" ELSE "close")
    <2>1. Call(w, CanProject(Turn(w), w), Projected(Turn(w)), s)
      BY <1>5 DEF CompleteProjection
    <2>2. s \in Works /\ \A ts : Aware(work[w], ts) => Aware(s, ts)
      BY <1>3
    <2>3. /\ repaired' = repaired \cup {work[w].turn}
          /\ UNCHANGED <<marked, arrivals, gens, sends, noticed>>
      BY <1>5 DEF CompleteProjection
    <2> QED
      BY <1>4, <2>1, <2>2, <2>3
  <1>6. CASE RepairEffects(w)
    <2>1. CASE work[w].copy = "pending"
      BY <1>3, <1>4, <1>6, <2>1 DEF RepairEffects
    <2>2. CASE work[w].copy # "pending"
      <3>1. /\ Call(w, Confirmed(w), Turn(w), At(w, "remove"))
            /\ UNCHANGED <<marked, arrivals, gens, sends, repaired, noticed>>
        BY <1>6, <2>2 DEF RepairEffects
      <3>2. Keeps(Turn(w), Turn(w))
        BY <1>2, RowSteps
      <3> QED
        BY <1>1, <1>3, <3>1, <3>2, KeptCall DEF Confirmed
    <2> QED
      BY <2>1, <2>2
  <1> QED
    BY <1>5, <1>6

\* A step that changes at most one row, and the state of one call.
LEMMA RowStep ==
  ASSUME IInv, NEW w \in Actors, NEW s \in Works, Aware(s, turns), work' = [work EXCEPT ![w] = s],
         NEW k \in DOMAIN turns, NEW r, Moves(turns[k], r),
         turns' = turns \/ turns' = [turns EXCEPT ![k] = r],
         Handled', UNCHANGED <<marked, arrivals, gens, sends, repaired, noticed>>,
         pending' \subseteq Messages, lock' \in Actors \cup {None}, faults' \in Nat
  PROVE  IInv'
  <1>0. TypeOK /\ OneTurnAtATime /\ RestOK /\ \A v \in Actors : Aware(work[v], turns)
    BY Parts DEF IInv, AllAware
  <1>1. /\ turns' \in Seq(Turns) /\ Len(turns') = Len(turns) /\ DOMAIN turns' = DOMAIN turns
        /\ OneTurnAtATime'
        /\ \A x : Aware(x, turns) => Aware(x, turns')
    <2>1. CASE turns' = turns
      BY <1>0, <2>1 DEF TypeOK, OneTurnAtATime
    <2>2. CASE turns' = [turns EXCEPT ![k] = r]
      BY <1>0, <2>2, RowChange
    <2> QED
      BY <2>1, <2>2
  <1>2. work' \in [Actors -> Works] /\ AllAware'
    BY <1>0, <1>1, WorkChange DEF AllAware
  <1>3. RestOK'
    BY <1>0, <1>1 DEF RestOK
  <1> QED
    BY <1>1, <1>2, <1>3, Assembled DEF IInv

LEMMA AckStep ==
  ASSUME IInv, NEW w \in Actors, Ack(w)
  PROVE  IInv'
  <1>0. /\ TypeOK /\ Handled /\ work[w] \in Works /\ Aware(work[w], turns)
        /\ work[w].pc = "ack"
        /\ UNCHANGED <<marked, arrivals, gens, sends, repaired, noticed>>
    BY Parts DEF IInv, AllAware, Ack, history
  <1>1. work[w].pc \in ErrorPoints /\ work[w].pc \notin {"idle", "open"}
    BY <1>0 DEF ErrorPoints, Points
  <1>2. Turn(w) \in Turns /\ work[w].turn \in DOMAIN turns /\ Turn(w) = turns[work[w].turn]
    BY <1>0, <1>1, TurnType DEF Turn
  <1>3. Moves(Turn(w), Acked(Turn(w))) /\ Acked(Turn(w)).proj = Turn(w).proj
    BY <1>2, AckedRow
  <1>4. turns' = turns \/ (CanAck(Turn(w)) /\ turns' = [turns EXCEPT ![work[w].turn] = Acked(Turn(w))])
    BY DEF Ack, Store
  <1>5. Handled'
    <2>1. CASE turns' = turns
      BY <1>0, <2>1 DEF Handled
    <2>2. CASE CanAck(Turn(w)) /\ turns' = [turns EXCEPT ![work[w].turn] = Acked(Turn(w))]
      <3>1. Turn(w).proj = "complete"
        BY <1>0, <1>2, <2>2 DEF CanAck, Aware, Turns, Projections
      <3>2. DOMAIN turns' = DOMAIN turns
        BY <2>2
      <3>3. \A i \in DOMAIN turns :
              turns'[i] = turns[i] \/ (i = work[w].turn /\ turns'[i] = Acked(Turn(w)))
        BY <1>2, <2>2
      <3> QED
        BY <1>0, <1>2, <1>3, <3>1, <3>2, <3>3 DEF Handled
    <2> QED
      BY <1>4, <2>1, <2>2
  <1>6. /\ pending' \subseteq Messages /\ lock' \in Actors \cup {None} /\ faults' \in Nat
        /\ \E s \in Works : Aware(s, turns) /\ work' = [work EXCEPT ![w] = s]
    <2>1. CASE OnError(w) /\ (Fault \/ UNCHANGED faults)
      BY <1>0, <1>1, <2>1, ErrorStep DEF Fault, TypeOK
    <2>2. CASE Stays(w, "defer") /\ UNCHANGED faults
      <3>1. work' = [work EXCEPT ![w] = [work[w] EXCEPT !.pc = "defer"]]
        BY <1>0, <2>2 DEF Stays, Goto, TypeOK
      <3>2. [work[w] EXCEPT !.pc = "defer"] \in Works /\ Aware([work[w] EXCEPT !.pc = "defer"], turns)
        BY <1>0, <1>1, MovesOn DEF Points
      <3> QED
        BY <1>0, <2>2, <3>1, <3>2 DEF Stays, TypeOK
    <2>3. CASE Done(w) /\ UNCHANGED faults
      BY <1>0, <2>3, IdleType DEF Done, Release, TypeOK
    <2> QED
      BY <2>1, <2>2, <2>3 DEF Ack
  <1> QED
    BY <1>2, <1>3, <1>4, <1>5, <1>6, <1>0, RowStep

LEMMA DeferStep ==
  ASSUME IInv, NEW v \in Actors, Defer(v)
  PROVE  IInv'
  <1>0. /\ TypeOK /\ Handled /\ work[v].pc \notin {"idle", "open"}
        /\ UNCHANGED <<marked, arrivals, gens, sends, repaired, noticed, faults>>
    BY DEF IInv, Defer, history
  <1>1. Turn(v) \in Turns /\ work[v].turn \in DOMAIN turns /\ Turn(v) = turns[work[v].turn]
    BY <1>0, TurnType DEF Turn
  <1>2. Keeps(Turn(v), Deferred(Turn(v)))
    BY <1>1, RowSteps
  <1>3. turns' = turns \/ turns' = [turns EXCEPT ![work[v].turn] = Deferred(Turn(v))]
    BY DEF Defer, Store
  <1>4. Handled'
    <2>1. CASE turns' = turns
      BY <1>0, <2>1 DEF Handled
    <2>2. CASE turns' = [turns EXCEPT ![work[v].turn] = Deferred(Turn(v))]
      BY <1>0, <1>1, <1>2, <2>2, KeptRow
    <2> QED
      BY <1>3, <2>1, <2>2
  <1>5. /\ work' = [work EXCEPT ![v] = Idle]
        /\ pending' \subseteq Messages /\ lock' \in Actors \cup {None} /\ faults' \in Nat
    BY <1>0 DEF Defer, Done, Release, TypeOK
  <1> QED
    BY <1>0, <1>1, <1>2, <1>3, <1>4, <1>5, IdleType, RowStep DEF Keeps

-----------------------------------------------------------------------------
(* Opening a turn: only when no turn has a message of the batch and all of  *)
(* them are acknowledged.                                                   *)

LEMMA InsertStep ==
  ASSUME IInv, NEW w \in Workers, work[w].pc = "open",
         Owners(work[w].batch) = {}, Blocking = {}, Insert(w)
  PROVE  /\ turns' \in Seq(Turns) /\ Len(turns') = Len(turns) + 1
         /\ sends' \in Seq(Nat) /\ Len(sends') = Len(turns')
         /\ DOMAIN turns' = DOMAIN turns \cup {Len(turns) + 1}
         /\ OneTurnAtATime' /\ (UNCHANGED repaired => Handled')
         /\ \A x : Aware(x, turns) => Aware(x, turns')
  <1> DEFINE n == NewTurn(w, work[w].batch)
  <1>0. /\ turns \in Seq(Turns) /\ sends \in Seq(Nat) /\ Len(sends) = Len(turns)
        /\ work[w] \in Works /\ OneTurnAtATime /\ Handled
    BY Parts DEF IInv, TypeOK, Actors
  <1>1. n \in Turns
    BY <1>0 DEF NewTurn, Turns, TurnStatuses, Projections, Outcomes, Works
  <1>2. /\ turns' \in Seq(Turns) /\ Len(turns') = Len(turns) + 1
        /\ turns'[Len(turns) + 1] = n
        /\ \A i \in 1..Len(turns) : turns'[i] = turns[i]
    BY <1>0, <1>1, AppendProperties DEF Insert
  <1>3. sends' \in Seq(Nat) /\ Len(sends') = Len(turns')
    BY <1>0, <1>2, AppendProperties DEF Insert
  <1>4. Len(turns) \in Nat /\ DOMAIN turns = 1..Len(turns) /\ DOMAIN turns' = 1..(Len(turns) + 1)
    BY <1>0, <1>2, LenProperties
  <1>5. DOMAIN turns' = DOMAIN turns \cup {Len(turns) + 1} /\ Len(turns) + 1 \notin DOMAIN turns
    BY <1>4
  <1>6. \A i \in DOMAIN turns : turns[i].inputs \cap n.inputs = {} /\ turns[i].status = "acked"
    BY DEF Owners, Sharing, Blocking, NewTurn
  <1>7. \A i \in DOMAIN turns : turns'[i] = turns[i]
    BY <1>2, <1>4
  <1>8. OneTurnAtATime'
    <2> SUFFICES ASSUME NEW i \in DOMAIN turns', NEW j \in DOMAIN turns', i # j
                 PROVE  /\ turns'[i].inputs \cap turns'[j].inputs = {}
                        /\ turns'[i].status = "acked" \/ turns'[j].status = "acked"
      BY DEF OneTurnAtATime
    <2>1. CASE i \in DOMAIN turns /\ j \in DOMAIN turns
      BY <1>0, <1>7, <2>1 DEF OneTurnAtATime
    <2>2. CASE i = Len(turns) + 1 /\ j \in DOMAIN turns
      BY <1>2, <1>6, <1>7, <2>2
    <2>3. CASE i \in DOMAIN turns /\ j = Len(turns) + 1
      BY <1>2, <1>6, <1>7, <2>3
    <2> QED
      BY <1>5, <2>1, <2>2, <2>3
  <1>9. UNCHANGED repaired => Handled'
    <2>1. n.proj = "none" /\ n.status = "preparing"
      BY DEF NewTurn
    <2> QED
      BY <1>0, <1>2, <1>5, <1>7, <2>1 DEF Handled
  <1>10. \A x : Aware(x, turns) => Aware(x, turns')
    BY <1>5, <1>7 DEF Aware
  <1> QED
    BY <1>2, <1>3, <1>5, <1>8, <1>9, <1>10

LEMMA OpenStep ==
  ASSUME IInv, NEW w \in Workers, Open(w)
  PROVE  IInv'
  <1>0. /\ TypeOK /\ RestOK /\ Handled /\ OneTurnAtATime /\ work[w] \in Works
        /\ w \in Actors /\ work \in [Actors -> Works]
        /\ Aware(work[w], turns) /\ \A v \in Actors : Aware(work[v], turns)
        /\ work[w].pc = "open"
        /\ UNCHANGED <<marked, arrivals, gens, repaired, noticed>>
    BY Parts DEF IInv, AllAware, Open, Actors
  <1>1. Defers(w) => /\ work' = [work EXCEPT ![w] = Idle]
                     /\ pending' \subseteq Messages /\ lock' \in Actors \cup {None}
    BY <1>0 DEF Defers, Release, TypeOK, Works
  <1>2. Fault \/ UNCHANGED faults => faults' \in Nat
    BY <1>0 DEF Fault, TypeOK
  <1>3. CASE Owners(work[w].batch) = {} /\ Blocking = {} /\ Insert(w)
             /\ \/ /\ work' = [work EXCEPT ![w].pc = "generate", ![w].turn = Len(turns) + 1]
                   /\ UNCHANGED <<pending, lock, faults>>
                \/ Fault /\ Defers(w)
    <2>1. /\ turns' \in Seq(Turns) /\ Len(turns') = Len(turns) + 1
          /\ sends' \in Seq(Nat) /\ Len(sends') = Len(turns')
          /\ DOMAIN turns' = DOMAIN turns \cup {Len(turns) + 1}
          /\ OneTurnAtATime' /\ Handled'
          /\ \A x : Aware(x, turns) => Aware(x, turns')
      BY <1>0, <1>3, InsertStep
    <2>2. RestOK'
      BY <1>0, <2>1 DEF RestOK
    <2> DEFINE x == [work[w] EXCEPT !.pc = "generate", !.turn = Len(turns) + 1]
    <2>3. x \in Works /\ Aware(x, turns')
      <3>1. Len(turns) + 1 \in Nat
        BY <1>0, LenProperties DEF TypeOK
      <3>2. x \in Works
        BY <1>0, <3>1 DEF Works, Points
      <3>3. x.pc = "generate" /\ x.turn = Len(turns) + 1 /\ x.copy = "none"
        BY <1>0 DEF Works, Aware
      <3> QED
        BY <2>1, <3>2, <3>3 DEF Aware
    <2>4. CASE work' = [work EXCEPT ![w].pc = "generate", ![w].turn = Len(turns) + 1]
               /\ UNCHANGED <<pending, lock, faults>>
      <3>1. work' = [work EXCEPT ![w] = x]
        BY <1>0, <2>4
      <3>2. work' \in [Actors -> Works] /\ AllAware'
        BY <1>0, <2>1, <2>3, <3>1, WorkChange DEF AllAware
      <3> QED
        BY <1>0, <2>1, <2>2, <2>4, <3>2, Assembled DEF IInv, TypeOK
    <2>5. CASE Fault /\ Defers(w)
      <3>1. work' \in [Actors -> Works] /\ AllAware'
        BY <1>0, <1>1, <2>1, <2>5, IdleType, WorkChange DEF AllAware
      <3> QED
        BY <1>1, <1>2, <2>1, <2>2, <2>5, <3>1, Assembled DEF IInv
    <2> QED
      BY <1>3, <2>4, <2>5
  <1>4. CASE Defers(w) /\ UNCHANGED <<turns, sends>> /\ (Fault \/ UNCHANGED faults)
    <2>1. RestOK'
      BY <1>0, <1>4 DEF RestOK
    <2> QED
      BY <1>0, <1>1, <1>2, <1>4, <2>1, IdleType, LocalStep
  <1>5. ASSUME NEW i \in Oldest(Owners(work[w].batch)),
               turns' = [turns EXCEPT ![i] = Interrupted(@)], UNCHANGED sends,
               \/ /\ work' = [work EXCEPT ![w] = AckPath(w, i, turns[i].proj, TRUE)]
                  /\ UNCHANGED <<pending, lock, faults>>
               \/ Fault /\ Defers(w)
        PROVE  IInv'
    <2>1. i \in DOMAIN turns
      BY DEF Oldest, Owners, Sharing
    <2>2. turns[i] \in Turns /\ i \in Nat
      BY <1>0, <2>1, LenProperties, ElementOfSeq DEF TypeOK
    <2>3. Keeps(turns[i], Interrupted(turns[i]))
      BY <2>2, RowSteps
    <2>4. turns' = [turns EXCEPT ![i] = Interrupted(turns[i])]
      BY <1>5
    <2>5. Handled'
      BY <1>0, <2>1, <2>3, <2>4, KeptRow
    <2>6. \E s \in Works : Aware(s, turns) /\ work' = [work EXCEPT ![w] = s]
      <3>1. turns[i].proj \in Projections
        BY <2>2 DEF Turns
      <3>2. /\ AckPath(w, i, turns[i].proj, TRUE) \in Works
            /\ Aware(AckPath(w, i, turns[i].proj, TRUE), turns)
        BY <1>0, <2>1, <2>2, <3>1, AckPathAware
      <3> QED
        BY <1>1, <1>5, <3>2, IdleType
    <2>7. pending' \subseteq Messages /\ lock' \in Actors \cup {None} /\ faults' \in Nat
      BY <1>0, <1>1, <1>2, <1>5 DEF TypeOK
    <2> QED
      BY <1>0, <1>5, <2>1, <2>3, <2>4, <2>5, <2>6, <2>7, RowStep DEF Keeps
  <1> QED
    BY <1>3, <1>4, <1>5 DEF Open

-----------------------------------------------------------------------------
(* The invariant. *)

LEMMA InitIInv == ASSUME ReplyAssumption, Init PROVE IInv
  <1>1. turns = <<>> /\ sends = <<>> /\ DOMAIN turns = {} /\ Len(sends) = Len(turns)
    BY DEF Init
  <1>2. turns \in Seq(Turns) /\ sends \in Seq(Nat)
    BY <1>1, EmptySeq
  <1>3. work \in [Actors -> Works] /\ \A w \in Actors : work[w] = Idle
    BY IdleType DEF Init
  <1>4. AllAware
    BY <1>3, IdleType DEF AllAware
  <1>5. OneTurnAtATime /\ Handled
    BY <1>1 DEF OneTurnAtATime, Handled
  <1>6. TypeOK
    BY <1>1, <1>2, <1>3 DEF Init, TypeOK, Works, Idle
  <1> QED
    BY <1>4, <1>5, <1>6 DEF IInv

LEMMA NextIInv == ASSUME ReplyAssumption, IInv, [Next]_vars PROVE IInv'
  <1>2. ASSUME NEW w \in Actors, Acknowledge(w)
        PROVE  IInv'
    BY <1>2, ProjectionSteps, AckSteps, AckStep DEF Acknowledge
  <1>3. ASSUME NEW w \in Workers, Respond(w)
        PROVE  IInv'
    <2>1. w \in Actors
      BY DEF Actors
    <2> QED
      BY <1>3, <2>1, OpenStep, ReplySteps, DeliverySteps, ProjectionSteps, CloseSteps DEF Respond
  <1>4. ASSUME NEW v \in Recoverers, Recover(v)
        PROVE  IInv'
    <2>1. v \in Actors
      BY DEF Actors
    <2> QED
      BY <1>2, <1>4, <2>1, AckSteps, CloseSteps, DeferStep DEF Recover
  <1>5. ASSUME NEW i \in DOMAIN turns, Lapse(i) \/ FallsDue(i)
        PROVE  IInv'
    BY <1>5, ClockSteps
  <1>6. CASE UNCHANGED vars
    <2>1. RestOK' /\ TypeOK
      BY <1>6, Parts DEF IInv, RestOK, vars
    <2> QED
      BY <1>6, <2>1, IdleStep DEF vars, TypeOK
  <1>7. CASE \/ \E m \in Messages : Arrive(m) \/ MarkExpires(m) \/ \E w \in Workers : ArriveDirect(w, m)
             \/ \E w \in Workers : StartJob(w)
             \/ PendingExpires \/ LockExpires
             \/ \E w \in Actors : Crash(w)
    BY <1>7, ArrivalSteps
  <1>8. Workers \subseteq Actors
    BY DEF Actors
  <1> QED
    BY <1>2, <1>3, <1>4, <1>5, <1>6, <1>7, <1>8 DEF Next

\* Every reachable state has the inductive invariant.
LEMMA Invariant == ASSUME ReplyAssumption PROVE Spec => []IInv
  BY InitIInv, NextIInv, PTL DEF Spec

\* The variables of ReplyTurns keep their types.
THEOREM Typing == Spec => []TypeOK
  <1>1. IInv => TypeOK
    BY DEF IInv
  <1> QED
    BY <1>1, Invariant, ReplyAssumption, PTL

\* OneTurnAtATime for every set of messages, workers and scans, and however often callbacks,
\* jobs and scans are repeated, fail or lose their lock: a message is a member of one turn for
\* ever and a chat has at most one turn that is not acknowledged (open's conflict checks).
THEOREM OneTurn == Spec => []OneTurnAtATime
  <1>1. IInv => OneTurnAtATime
    BY DEF IInv
  <1> QED
    BY <1>1, Invariant, ReplyAssumption, PTL

\* EffectsBeforeAck for every instance: no order of attempts, no stale read of a scan and no
\* unconfirmed call leads to an acknowledged turn whose business effects were not handled
\* (ack refuses a pending projection, ackDurableTurn one that was never saved).
THEOREM AckedAfterEffects == Spec => []EffectsBeforeAck
  <1>1. IInv => EffectsBeforeAck
    BY DEF IInv, Handled, EffectsBeforeAck
  <1> QED
    BY <1>1, Invariant, ReplyAssumption, PTL

=============================================================================
