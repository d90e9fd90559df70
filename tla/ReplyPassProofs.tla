--------------------------- MODULE ReplyPassProofs ---------------------------
(***************************************************************************)
(* Theorems about the one pass of a turn in ReplyTurns, for every instance *)
(* of its constants: who runs the model, who may settle, what the stored   *)
(* result counts, and that the turns implement ReplyOutcome.               *)
(***************************************************************************)
EXTENDS ReplyTurnsProofs

-----------------------------------------------------------------------------
(***************************************************************************)
(* One pass, and an honest result.  The worker that opened a turn is the   *)
(* only one that generates, delivers and settles it while its time lasts;  *)
(* others close the turn of a worker whose time has passed, complete the   *)
(* projection and acknowledge.  What the worker at each point of its way   *)
(* may rely on, whatever the others do meanwhile, is Fine.                 *)
(***************************************************************************)

AckPoints == {"repair", "remove", "mark", "ack"}

\* The points of a call at which it works on the turn it opened.
OwnPoints == {"generate", "save", "resave", "project", "start", "check", "wire",
              "finish", "refinish", "giveup", "close"}

Answers(x) == x.pc \in OwnPoints \/ (x.pc \in AckPoints /\ ~x.last)

\* Before the call asks to settle the turn.
Early(x) ==
  \/ x.pc \in {"generate", "save", "resave", "start", "check", "wire"}
  \/ x.pc = "project" /\ x.kind = "reply"

Ran(r, c, gs) == \A m \in r.inputs : gs[m] = c

Unsettled(r) == r.outcome \in {"none", "interrupted"}

\* What call x, which sends no receipts, knows of the n segments sent for its turn r.
Counts(x, r, n) ==
  /\ x.kind # "receipt"
  /\ x.pc \in {"open", "generate", "save", "resave", "project", "start"} => x.k = 0
  /\ x.pc \in {"generate", "save", "resave", "project", "start", "check", "wire"} =>
       Unsettled(r) /\ n = x.k
  /\ x.pc \in {"finish", "refinish"} => x.res = "unknown" \/ n = x.k
  /\ x.pc = "giveup" /\ Unfinished(r) => x.res = "unknown" \/ n = x.k
  /\ x.pc = "close" /\ Unfinished(r) => n = 0 /\ x.k = 0

\* What call x of w may rely on about its turn r, n segments of which were sent.
Fine(w, x, r, n, gs) ==
  /\ Answers(x) => r.owner = w
  /\ Early(x) /\ r.live => Unfinished(r)
  /\ x.pc \in AckPoints =>
       ~Unfinished(r) /\ (x.copy = "complete" \/ x.pc # "repair" => r.proj = "complete")
  /\ x.pc = "open" => x.batch # {}
  /\ x.pc = "generate" => r.proj = "none" /\ Ran(r, 0, gs)
  /\ Answers(x) /\ x.pc # "generate" => Ran(r, 1, gs)
  /\ x.pc \in {"finish", "refinish"} => x.res # "none"
  /\ "receipt" \notin Kinds => Counts(x, r, n)

Honest(r, n) == r.outcome \in {"complete", "incomplete", "skipped"} => r.accepted = n

RowFine(r, n, gs) ==
  /\ r.inputs # {}
  /\ Unfinished(r) <=> r.outcome = "none"
  /\ r.proj # "none" => Ran(r, 1, gs)
  /\ "receipt" \notin Kinds => Honest(r, n)

CallsFine == \A w \in Actors : Fine(w, work[w], turns[work[w].turn], sends[work[w].turn], gens)

RowsFine == \A i \in DOMAIN turns : RowFine(turns[i], sends[i], gens)

RanOwned ==
  \A m \in Messages : /\ gens[m] <= 1
                      /\ gens[m] # 0 => \E i \in DOMAIN turns : m \in turns[i].inputs

TurnInv == CallsFine /\ RowsFine /\ RanOwned

-----------------------------------------------------------------------------
(* What the transitions do to a row. *)

\* Any of them.
Advances(r, s) ==
  /\ s \in Turns /\ s.inputs = r.inputs /\ s.owner = r.owner
  /\ Unfinished(s) <=> s.outcome = "none"
  /\ ~Unfinished(r) => /\ ~Unfinished(s) /\ (s.live => r.live)
                       /\ s.outcome = r.outcome /\ s.accepted = r.accepted
                       /\ r.proj = "complete" => s.proj = "complete"

\* Those that others than the owner may make.
Foreign(r, s) ==
  /\ Advances(r, s)
  /\ s.live => r.live /\ (Unfinished(r) => Unfinished(s))
  /\ s.proj # "none" => r.proj # "none"
  /\ \/ s.outcome = r.outcome /\ s.accepted = r.accepted
     \/ s.outcome = "interrupted" /\ ~r.live

LEMMA ForeignRows ==
  ASSUME NEW r \in Turns, Unfinished(r) <=> r.outcome = "none"
  PROVE  /\ Foreign(r, r)
         /\ CanInterrupt(r) => Foreign(r, Interrupted(r)) /\ ~Unfinished(Interrupted(r))
         /\ Foreign(r, Projected(r)) /\ (r.proj # "none" => Projected(r).proj = "complete")
         /\ CanAck(r) => Foreign(r, Acked(r))
         /\ Foreign(r, Deferred(r))
         /\ Foreign(r, [r EXCEPT !.live = FALSE])
         /\ Foreign(r, [r EXCEPT !.due = TRUE])
         /\ \A o, n : ~Unfinished(r) => Settled(r, o, n) = r
<1> USE DEF Turns, Foreign, Advances, Unfinished
<1>1. Foreign(r, r) /\ \A o, n : ~Unfinished(r) => Settled(r, o, n) = r
  BY DEF Settled
<1>2. CanInterrupt(r) => Foreign(r, Interrupted(r)) /\ ~Unfinished(Interrupted(r))
  BY DEF CanInterrupt, Interrupted, TurnStatuses, Outcomes
<1>3. Foreign(r, Projected(r)) /\ (r.proj # "none" => Projected(r).proj = "complete")
  BY DEF Projected, Projections
<1>4. CanAck(r) => Foreign(r, Acked(r))
  BY DEF CanAck, Acked, TurnStatuses
<1>5. Foreign(r, Deferred(r))
  BY DEF Deferred
<1>6. Foreign(r, [r EXCEPT !.live = FALSE]) /\ Foreign(r, [r EXCEPT !.due = TRUE])
  OBVIOUS
<1> QED BY <1>1, <1>2, <1>3, <1>4, <1>5, <1>6

LEMMA OwnRows ==
  ASSUME NEW r \in Turns, Unfinished(r) <=> r.outcome = "none"
  PROVE  /\ \A w : CanSave(r, w) => Advances(r, EffectsSaved(r)) /\ r.owner = w
                                    /\ EffectsSaved(r).outcome = r.outcome
         /\ \A w : CanStart(r, w) => Advances(r, Started(r)) /\ r.owner = w
                                     /\ Started(r).outcome = r.outcome /\ Started(r).proj = r.proj
                                     /\ Unfinished(Started(r))
         /\ \A o \in Outcomes \ {"none"}, n \in Nat :
              /\ Advances(r, Settled(r, o, n)) /\ ~Unfinished(Settled(r, o, n))
              /\ Settled(r, o, n).proj = r.proj
              /\ Unfinished(r) => Settled(r, o, n).outcome = o /\ Settled(r, o, n).accepted = n
<1> USE DEF Turns, Advances, Unfinished, OwnedLive
<1>1. ASSUME NEW w, CanSave(r, w)
      PROVE  Advances(r, EffectsSaved(r)) /\ r.owner = w /\ EffectsSaved(r).outcome = r.outcome
  BY <1>1 DEF CanSave, EffectsSaved, Projections
<1>2. ASSUME NEW w, CanStart(r, w)
      PROVE  /\ Advances(r, Started(r)) /\ r.owner = w /\ Unfinished(Started(r))
             /\ Started(r).outcome = r.outcome /\ Started(r).proj = r.proj
  BY <1>2 DEF CanStart, Started, TurnStatuses
<1>3. ASSUME NEW o \in Outcomes \ {"none"}, NEW n \in Nat
      PROVE  /\ Advances(r, Settled(r, o, n)) /\ ~Unfinished(Settled(r, o, n))
             /\ Settled(r, o, n).proj = r.proj
             /\ Unfinished(r) => Settled(r, o, n).outcome = o /\ Settled(r, o, n).accepted = n
  BY <1>3 DEF Settled, TurnStatuses
<1> QED BY <1>1, <1>2, <1>3

\* A call between turns relies on none.
LEMMA FineAnyway ==
  ASSUME NEW w, NEW x, x.pc \notin OwnPoints \cup AckPoints, NEW r, NEW n, NEW gs, Fine(w, x, r, n, gs)
  PROVE  \A s, m, hs : Fine(w, x, s, m, hs)
  BY DEF Fine, Answers, Early, Counts, OwnPoints, AckPoints

LEMMA FineIdle == \A w, r, n, gs : Fine(w, Idle, r, n, gs)
  BY DEF Fine, Answers, Early, Counts, OwnPoints, AckPoints, Idle

\* What a call relies on outlasts the transitions of others.
LEMMA FineKept ==
  ASSUME NEW w, NEW x, NEW r, NEW n, NEW gs, Fine(w, x, r, n, gs),
         NEW s, Advances(r, s), Foreign(r, s) \/ r.owner # w
  PROVE  Fine(w, x, s, n, gs)
<1> USE DEF Advances
<1>1. Answers(x) => s.owner = w
  BY DEF Fine
<1>2. ASSUME Early(x), s.live PROVE Unfinished(s)
  <2>1. Answers(x) /\ (r.live => Unfinished(r))
    BY <1>2 DEF Fine, Early, Answers, OwnPoints
  <2>2. Foreign(r, s)
    BY <2>1 DEF Fine
  <2> QED BY <1>2, <2>1, <2>2 DEF Foreign
<1>3. x.pc \in AckPoints => ~Unfinished(s) /\ (x.copy = "complete" \/ x.pc # "repair" => s.proj = "complete")
  BY DEF Fine
<1>4. x.pc = "open" => x.batch # {}
  BY DEF Fine
<1>5. ASSUME x.pc = "generate" PROVE s.proj = "none" /\ Ran(s, 0, gs)
  BY <1>5 DEF Fine, Foreign, Answers, OwnPoints, Ran
<1>6. Answers(x) /\ x.pc # "generate" => Ran(s, 1, gs)
  BY DEF Fine, Ran
<1>7. x.pc \in {"finish", "refinish"} => x.res # "none"
  BY DEF Fine
<1>8. ASSUME "receipt" \notin Kinds PROVE Counts(x, s, n)
  <2>1. Counts(x, r, n)
    BY <1>8 DEF Fine
  <2>2. x.pc \in OwnPoints => Foreign(r, s)
    BY DEF Fine, Answers
  <2>3. x.pc \in {"generate", "save", "resave", "project", "start", "check", "wire"} => Unsettled(s)
    BY <2>1, <2>2 DEF Counts, OwnPoints, Foreign, Unsettled
  <2> QED BY <2>1, <2>3 DEF Counts
<1> QED BY <1>1, <1>2, <1>3, <1>4, <1>5, <1>6, <1>7, <1>8 DEF Fine

LEMMA RowKept ==
  ASSUME NEW r, NEW n, NEW gs, RowFine(r, n, gs), NEW s, Foreign(r, s)
  PROVE  RowFine(s, n, gs)
  BY DEF RowFine, Foreign, Advances, Ran, Honest

-----------------------------------------------------------------------------
(* Steps keep the invariant of the turns if they keep what the call that    *)
(* makes them relies on.                                                    *)

LEMMA Onto ==
  ASSUME TypeOK, NEW w \in Actors, NEW s, work' = [work EXCEPT ![w] = s]
  PROVE  work'[w] = s /\ \A v \in Actors \ {w} : work'[v] = work[v]
  BY DEF TypeOK

LEMMA InTurn ==
  ASSUME TypeOK, NEW w \in Actors, work[w].pc \in OwnPoints \cup AckPoints
  PROVE  work[w].turn \in DOMAIN turns
  BY DEF TypeOK, OwnPoints, AckPoints

\* One call moves, or none; the turns stay.
LEMMA OneCall ==
  ASSUME TypeOK, TurnInv, NEW w \in Actors, NEW s,
         work' = work \/ (work' = [work EXCEPT ![w] = s] /\ Fine(w, s, turns[s.turn], sends[s.turn], gens)),
         UNCHANGED <<turns, sends, gens>>
  PROVE  TurnInv'
<1>1. CallsFine'
  <2>1. CASE work' = work
    BY <2>1 DEF TurnInv, CallsFine
  <2>2. CASE work' = [work EXCEPT ![w] = s] /\ Fine(w, s, turns[s.turn], sends[s.turn], gens)
    BY <2>2, Onto DEF TurnInv, CallsFine
  <2> QED BY <2>1, <2>2
<1>2. RowsFine' /\ RanOwned'
  BY DEF TurnInv, RowsFine, RanOwned
<1> QED BY <1>1, <1>2 DEF TurnInv

\* One call moves and makes a transition of a row.
LEMMA OneRow ==
  ASSUME TypeOK, TurnInv, NEW w \in Actors, NEW s,
         NEW k \in DOMAIN turns, NEW r, turns' = [turns EXCEPT ![k] = r],
         \/ work' = work /\ Foreign(turns[k], r)
         \/ work' = [work EXCEPT ![w] = s] /\ Fine(w, s, turns'[s.turn], sends[s.turn], gens),
         Advances(turns[k], r), RowFine(r, sends[k], gens),
         Foreign(turns[k], r) \/ turns[k].owner = w,
         UNCHANGED <<sends, gens>>
  PROVE  TurnInv'
<1>1. DOMAIN turns' = DOMAIN turns /\ \A i \in DOMAIN turns : turns'[i] = IF i = k THEN r ELSE turns[i]
  OBVIOUS
<1>2. ASSUME NEW v \in Actors, work'[v] = work[v], v # w \/ Foreign(turns[k], r)
      PROVE  Fine(v, work'[v], turns'[work'[v].turn], sends'[work'[v].turn], gens')
  <2>1. Fine(v, work[v], turns[work[v].turn], sends[work[v].turn], gens)
    BY DEF TurnInv, CallsFine
  <2>2. CASE work[v].pc \notin OwnPoints \cup AckPoints
    BY <1>2, <2>1, <2>2, FineAnyway
  <2>3. CASE work[v].pc \in OwnPoints \cup AckPoints /\ work[v].turn = k
    <3>1. Foreign(turns[k], r) \/ turns[k].owner # v
      BY <1>2
    <3>2. Fine(v, work[v], r, sends[work[v].turn], gens)
      BY <2>1, <2>3, <3>1, FineKept
    <3> QED BY <1>1, <1>2, <2>3, <3>2
  <2>4. CASE work[v].pc \in OwnPoints \cup AckPoints /\ work[v].turn # k
    BY <1>1, <1>2, <2>1, <2>4, InTurn
  <2> QED BY <2>2, <2>3, <2>4
<1>3. CallsFine'
  <2>1. CASE work' = work /\ Foreign(turns[k], r)
    BY <1>2, <2>1 DEF CallsFine
  <2>2. CASE work' = [work EXCEPT ![w] = s] /\ Fine(w, s, turns'[s.turn], sends[s.turn], gens)
    <3>1. work'[w] = s /\ \A v \in Actors \ {w} : work'[v] = work[v]
      BY <2>2, Onto
    <3>2. \A v \in Actors \ {w} : Fine(v, work'[v], turns'[work'[v].turn], sends'[work'[v].turn], gens')
      BY <1>2, <3>1
    <3> QED BY <2>2, <3>1, <3>2 DEF CallsFine
  <2> QED BY <2>1, <2>2
<1>4. RowsFine'
  BY <1>1 DEF TurnInv, RowsFine
<1>5. RanOwned'
  <2>1. \A i \in DOMAIN turns : turns'[i].inputs = turns[i].inputs
    BY <1>1 DEF Advances
  <2> QED BY <1>1, <2>1 DEF TurnInv, RanOwned
<1> QED BY <1>3, <1>4, <1>5 DEF TurnInv

\* Where a refused or failed call goes on it may rely on the same.
LEMMA ErrorFine ==
  ASSUME TypeOK, NEW w \in Actors, work[w].pc \in ErrorPoints, OnError(w)
  PROVE  \E s : /\ work' = [work EXCEPT ![w] = s]
                /\ s = Idle \/ s.turn = work[w].turn
                /\ \A r, n, gs : Fine(w, work[w], r, n, gs) => Fine(w, s, r, n, gs)
<1> DEFINE x == work[w]
           to(s) == /\ work' = [work EXCEPT ![w] = s]
                    /\ s = Idle \/ s.turn = x.turn
                    /\ \A r, n, gs : Fine(w, x, r, n, gs) => Fine(w, s, r, n, gs)
<1>0. x \in Works /\ work \in [Actors -> Works]
  BY DEF TypeOK, Works
<1>1. Defers(w) \/ Done(w) => to(Idle)
  BY FineIdle DEF Defers, Done
<1>2. ASSUME NEW p \in {"resave", "giveup", "refinish", "defer"}, Stays(w, p),
             p = "resave" => x.pc = "save",
             p = "refinish" => x.pc = "finish",
             p = "giveup" => x.pc \in {"start", "project", "close"} \/ (x.pc \in AckPoints /\ ~x.last)
      PROVE  to([x EXCEPT !.pc = p])
  <2> DEFINE s == [x EXCEPT !.pc = p]
  <2>1. /\ work' = [work EXCEPT ![w] = s]
        /\ s.pc = p /\ s.turn = x.turn /\ s.k = x.k /\ s.res = x.res /\ s.kind = x.kind /\ s.batch = x.batch
    BY <1>0, <1>2 DEF Stays, Goto, Works
  <2> HIDE DEF s
  <2>2. ASSUME NEW r, NEW n, NEW gs, Fine(w, x, r, n, gs) PROVE Fine(w, s, r, n, gs)
    <3>1. Answers(s) => Answers(x)
      BY <1>2, <2>1 DEF Answers, OwnPoints, AckPoints
    <3>2. Early(s) => Early(x)
      BY <1>2, <2>1 DEF Early
    <3>3. s.pc \notin AckPoints \cup {"open", "generate"} /\ (Answers(s) => x.pc # "generate")
      BY <1>2, <2>1 DEF Answers, OwnPoints, AckPoints
    <3>4. s.pc \in {"finish", "refinish"} => s.res # "none"
      BY <1>2, <2>1, <2>2 DEF Fine
    <3>5. Counts(x, r, n) => Counts(s, r, n)
      BY <1>2, <2>1, <2>2 DEF Counts, Fine, AckPoints
    <3> QED BY <2>2, <3>1, <3>2, <3>3, <3>4, <3>5 DEF Fine
  <2> QED BY <2>1, <2>2 DEF s
<1>3. ASSUME AfterFailure(w), x.pc \in {"finish", "refinish"},
             x.pc = "finish" => x.res \notin {"complete", "skipped"}
      PROVE  \E s : to(s)
  <2> DEFINE f == x.kind = "receipt"
             s == [x EXCEPT !.pc = IF f THEN "project" ELSE "giveup",
                            !.res = IF f THEN "none" ELSE @, !.k = IF f THEN 0 ELSE @]
  <2>1. work' = [work EXCEPT ![w] = s]
    BY <1>0, <1>3 DEF AfterFailure, Works
  <2>2. /\ s.pc = (IF f THEN "project" ELSE "giveup") /\ s.turn = x.turn /\ s.kind = x.kind
        /\ ~f => s.k = x.k /\ s.res = x.res
    BY <1>0 DEF Works
  <2> HIDE DEF s
  <2>3. ASSUME NEW r, NEW n, NEW gs, Fine(w, x, r, n, gs) PROVE Fine(w, s, r, n, gs)
    <3>1. Answers(s) => Answers(x)
      BY <1>3, <2>2 DEF Answers, OwnPoints, AckPoints
    <3>2. ~Early(s)
      BY <1>3, <2>2 DEF Early
    <3>3. s.pc \notin AckPoints \cup {"open", "generate", "finish", "refinish"} /\ x.pc # "generate"
      BY <1>3, <2>2 DEF AckPoints
    <3>4. Counts(x, r, n) => Counts(s, r, n)
      BY <1>3, <2>2 DEF Counts
    <3> QED BY <2>3, <3>1, <3>2, <3>3, <3>4 DEF Fine
  <2>4. to(s)
    BY <2>1, <2>2, <2>3
  <2> QED BY <2>4
<1>4. \/ Defers(w) \/ Done(w)
      \/ \E p \in {"resave", "giveup", "refinish", "defer"} :
           /\ Stays(w, p) /\ (p = "resave" => x.pc = "save") /\ (p = "refinish" => x.pc = "finish")
           /\ p = "giveup" => x.pc \in {"start", "project", "close"} \/ (x.pc \in AckPoints /\ ~x.last)
      \/ /\ AfterFailure(w) /\ x.pc \in {"finish", "refinish"}
         /\ x.pc = "finish" => x.res \notin {"complete", "skipped"}
  BY DEF OnError, ErrorPoints, Points, AckPoints
<1> HIDE DEF to
<1>5. \E s : to(s)
  BY <1>1, <1>2, <1>3, <1>4
<1> QED BY <1>5 DEF to

\* A refused or failed call with the row as it was.
LEMMA ErrorKeeps ==
  ASSUME TypeOK, TurnInv, NEW w \in Actors, work[w].pc \in ErrorPoints, OnError(w),
         UNCHANGED <<turns, sends, gens>>
  PROVE  TurnInv'
<1>1. PICK s : /\ work' = [work EXCEPT ![w] = s]
               /\ s = Idle \/ s.turn = work[w].turn
               /\ \A r, n, gs : Fine(w, work[w], r, n, gs) => Fine(w, s, r, n, gs)
  BY ErrorFine
<1>2. Fine(w, work[w], turns[work[w].turn], sends[work[w].turn], gens)
  BY DEF TurnInv, CallsFine
<1>3. Fine(w, s, turns[s.turn], sends[s.turn], gens)
  BY <1>1, <1>2, FineIdle
<1> QED BY <1>1, <1>3, OneCall

\* One call of the stored procedure.
LEMMA CallFine ==
  ASSUME TypeOK, TurnInv, NEW w \in Actors, work[w].pc \in ErrorPoints \ {"open"},
         NEW g, NEW r, NEW s, UNCHANGED <<sends, gens>>,
         \/ g /\ Store(w, r) /\ work' = [work EXCEPT ![w] = s]
         \/ OnError(w) /\ (UNCHANGED turns \/ (g /\ Store(w, r))),
         g => /\ Advances(Turn(w), r)
              /\ Foreign(Turn(w), r) \/ (Turn(w).owner = w /\ Fine(w, work[w], r, sends[work[w].turn], gens))
              /\ RowFine(r, sends[work[w].turn], gens)
              /\ Fine(w, s, r, sends[work[w].turn], gens)
              /\ s = Idle \/ s.turn = work[w].turn
  PROVE  TurnInv'
<1> DEFINE k == work[w].turn
<1>0. k \in DOMAIN turns /\ Turn(w) = turns[k]
  BY TurnType DEF ErrorPoints, Turn
<1>1. Fine(w, work[w], turns[k], sends[k], gens) /\ RowFine(turns[k], sends[k], gens)
  BY <1>0 DEF TurnInv, CallsFine, RowsFine
<1>2. CASE g /\ Store(w, r) /\ work' = [work EXCEPT ![w] = s]
  <2>1. turns' = [turns EXCEPT ![k] = r] /\ turns'[k] = r
    BY <1>0, <1>2 DEF Store
  <2>2. Fine(w, s, turns'[s.turn], sends[s.turn], gens)
    BY <1>2, <2>1, FineIdle
  <2> QED BY <1>0, <1>2, <2>1, <2>2, OneRow
<1>3. CASE OnError(w) /\ turns' = turns
  BY <1>3, ErrorKeeps
<1>4. CASE OnError(w) /\ g /\ Store(w, r)
  <2>1. turns' = [turns EXCEPT ![k] = r] /\ turns'[k] = r
    BY <1>0, <1>4 DEF Store
  <2>2. Fine(w, work[w], r, sends[k], gens)
    BY <1>0, <1>1, <1>4, FineKept
  <2>3. PICK t : /\ work' = [work EXCEPT ![w] = t]
                 /\ t = Idle \/ t.turn = work[w].turn
                 /\ \A q, n, gs : Fine(w, work[w], q, n, gs) => Fine(w, t, q, n, gs)
    BY <1>4, ErrorFine
  <2>4. Fine(w, t, turns'[t.turn], sends[t.turn], gens)
    BY <2>1, <2>2, <2>3, FineIdle
  <2> QED BY <1>0, <1>4, <2>1, <2>3, <2>4, OneRow
<1> QED BY <1>2, <1>3, <1>4

-----------------------------------------------------------------------------
(* The steps of a call. *)

\* What is known of a call that works on a turn.
LEMMA Now ==
  ASSUME TypeOK, TurnInv, NEW w \in Actors, work[w].pc \notin {"idle", "open"}
  PROVE  /\ work[w].turn \in DOMAIN turns /\ Turn(w) = turns[work[w].turn] /\ Turn(w) \in Turns
         /\ work[w] \in Works /\ work \in [Actors -> Works]
         /\ Fine(w, work[w], Turn(w), sends[work[w].turn], gens)
         /\ RowFine(Turn(w), sends[work[w].turn], gens)
         /\ Unfinished(Turn(w)) <=> Turn(w).outcome = "none"
<1>1. work[w].turn \in DOMAIN turns /\ Turn(w) \in Turns /\ Turn(w) = turns[work[w].turn]
  BY TurnType DEF Turn
<1>2. work[w] \in Works /\ work \in [Actors -> Works]
  BY DEF TypeOK, Works
<1>3. RowFine(Turn(w), sends[work[w].turn], gens) /\ Fine(w, work[w], Turn(w), sends[work[w].turn], gens)
  BY <1>1 DEF TurnInv, RowsFine, CallsFine
<1>4. Unfinished(Turn(w)) <=> Turn(w).outcome = "none"
  BY <1>3 DEF RowFine
<1> QED BY <1>1, <1>2, <1>3, <1>4

LEMMA NoCall ==
  ASSUME TurnInv, UNCHANGED <<work, turns, sends, gens>>
  PROVE  TurnInv'
  BY DEF TurnInv, CallsFine, RowsFine, RanOwned

\* On the way to acknowledging a closed turn.
LEMMA AckPathFine ==
  ASSUME NEW w \in Actors, work[w] \in Works, NEW i, NEW p, NEW l \in BOOLEAN, NEW r, NEW n, NEW gs,
         ~Unfinished(r), r.proj = p, l \/ (r.owner = w /\ Ran(r, 1, gs)),
         "receipt" \notin Kinds => work[w].kind # "receipt"
  PROVE  Fine(w, AckPath(w, i, p, l), r, n, gs)
<1> DEFINE s == AckPath(w, i, p, l)
<1>1. s.pc = "repair" /\ s.copy = p /\ s.last = l /\ s.kind = work[w].kind
  BY DEF AckPath, Works
<1> HIDE DEF s
<1> QED BY <1>1 DEF s, Fine, Answers, Early, Counts, OwnPoints, AckPoints

LEMMA TurnArrivals ==
  ASSUME TypeOK, TurnInv,
         \/ \E m \in Messages : Arrive(m) \/ MarkExpires(m) \/ \E w \in Workers : ArriveDirect(w, m)
         \/ \E w \in Workers : StartJob(w)
         \/ PendingExpires \/ LockExpires
         \/ \E w \in Actors : Crash(w)
  PROVE  TurnInv'
<1>1. CASE \/ \E m \in Messages : Arrive(m) \/ MarkExpires(m)
           \/ PendingExpires \/ LockExpires
  BY <1>1, NoCall DEF Arrive, MarkExpires, PendingExpires, LockExpires, history, inbox
<1>2. ASSUME NEW w \in Workers, NEW b, b # {}, NEW d,
             work' = [work EXCEPT ![w] = [Idle EXCEPT !.pc = "open", !.batch = b]]
               \/ work' = [work EXCEPT ![w] = [Idle EXCEPT !.pc = "open", !.batch = b, !.direct = TRUE]],
             UNCHANGED <<turns, history>>
      PROVE  TurnInv'
  <2> DEFINE s == [Idle EXCEPT !.pc = "open", !.batch = b]
             t == [Idle EXCEPT !.pc = "open", !.batch = b, !.direct = TRUE]
  <2>1. w \in Actors /\ UNCHANGED <<sends, gens>>
    BY <1>2 DEF Actors, history
  <2>2. \A r, n, gs : Fine(w, s, r, n, gs) /\ Fine(w, t, r, n, gs)
    BY <1>2 DEF Fine, Answers, Early, Counts, OwnPoints, AckPoints, Idle
  <2> HIDE DEF s, t
  <2>3. work' = [work EXCEPT ![w] = s] \/ work' = [work EXCEPT ![w] = t]
    BY <1>2 DEF s, t
  <2> QED BY <1>2, <2>1, <2>2, <2>3, OneCall
<1>3. ASSUME NEW w \in Workers, NEW m \in Messages, ArriveDirect(w, m) PROVE TurnInv'
  BY <1>2, <1>3 DEF ArriveDirect
<1>4. ASSUME NEW w \in Workers, StartJob(w) PROVE TurnInv'
  BY <1>2, <1>4 DEF StartJob
<1>5. ASSUME NEW w \in Actors, Crash(w) PROVE TurnInv'
  BY <1>5, OneCall, FineIdle DEF Crash, history
<1> QED BY <1>1, <1>3, <1>4, <1>5

LEMMA TurnClocks ==
  ASSUME TypeOK, TurnInv, NEW i \in DOMAIN turns, Lapse(i) \/ FallsDue(i)
  PROVE  TurnInv'
<1>1. turns[i] \in Turns /\ RowFine(turns[i], sends[i], gens)
  BY ElementOfSeq, LenProperties DEF TypeOK, TurnInv, RowsFine
<1>2. PICK r \in {[turns[i] EXCEPT !.live = FALSE], [turns[i] EXCEPT !.due = TRUE]} :
        turns' = [turns EXCEPT ![i] = r]
  BY DEF Lapse, FallsDue
<1>3. Foreign(turns[i], r)
  <2>1. /\ Foreign(turns[i], [turns[i] EXCEPT !.live = FALSE])
        /\ Foreign(turns[i], [turns[i] EXCEPT !.due = TRUE])
    BY <1>1, ForeignRows DEF RowFine
  <2> QED BY <1>2, <2>1
<1>4. RowFine(r, sends[i], gens) /\ Advances(turns[i], r)
  BY <1>1, <1>3, RowKept DEF Foreign
<1>5. turns[i].owner \in Actors /\ UNCHANGED <<work, sends, gens>>
  BY <1>1 DEF Turns, Actors, Lapse, FallsDue, history
<1> QED BY <1>2, <1>3, <1>4, <1>5, OneRow

-----------------------------------------------------------------------------
(* Answering. *)

LEMMA TurnOpen ==
  ASSUME IInv, TurnInv, NEW w \in Workers, Open(w)
  PROVE  TurnInv'
<1> DEFINE b == work[w].batch
           n == NewTurn(w, b)
           s == [work[w] EXCEPT !.pc = "generate", !.turn = Len(turns) + 1]
<1>0. /\ TypeOK /\ w \in Actors /\ work[w] \in Works /\ work[w].pc = "open"
      /\ Fine(w, work[w], turns[work[w].turn], sends[work[w].turn], gens)
      /\ gens' = gens
  BY DEF IInv, Actors, TypeOK, Works, Open, TurnInv, CallsFine
<1>1. b # {} /\ b \subseteq Messages /\ ("receipt" \notin Kinds => work[w].kind # "receipt" /\ work[w].k = 0)
  BY <1>0 DEF Fine, Counts, Works
<1>2. ASSUME Owners(b) = {}, Blocking = {}, Insert(w),
             work' = [work EXCEPT ![w] = s] \/ work' = [work EXCEPT ![w] = Idle]
      PROVE  TurnInv'
  <2>1. /\ turns' = Append(turns, n) /\ sends' = Append(sends, 0)
        /\ turns \in Seq(Turns) /\ sends \in Seq(Nat) /\ Len(sends) = Len(turns)
        /\ DOMAIN turns = 1..Len(turns) /\ n \in Turns
    BY <1>0, <1>1, <1>2, LenProperties DEF Insert, TypeOK, NewTurn, Turns, TurnStatuses, Projections, Outcomes
  <2> HIDE DEF n
  <2>2. /\ DOMAIN turns' = DOMAIN turns \cup {Len(turns) + 1}
        /\ turns'[Len(turns) + 1] = n /\ sends'[Len(turns) + 1] = 0
        /\ \A i \in DOMAIN turns : turns'[i] = turns[i] /\ sends'[i] = sends[i]
    <3>1. /\ Append(turns, n) \in Seq(Turns) /\ Len(Append(turns, n)) = Len(turns) + 1
          /\ \A i \in 1..Len(turns) : Append(turns, n)[i] = turns[i]
          /\ Append(turns, n)[Len(turns) + 1] = n
      BY <2>1, AppendProperties
    <3>2. /\ \A i \in 1..Len(turns) : Append(sends, 0)[i] = sends[i]
          /\ Append(sends, 0)[Len(turns) + 1] = 0
      BY <2>1, AppendProperties
    <3>3. DOMAIN Append(turns, n) = 1..(Len(turns) + 1) /\ Len(turns) \in Nat
      BY <2>1, <3>1, LenProperties
    <3> QED BY <2>1, <3>1, <3>2, <3>3
  <2>3. Ran(n, 0, gens)
    <3> SUFFICES ASSUME NEW m \in b PROVE gens[m] = 0
      BY DEF Ran, n, NewTurn
    <3>1. \A i \in DOMAIN turns : m \notin turns[i].inputs
      BY <1>2 DEF Owners, Sharing
    <3> QED BY <1>1, <3>1 DEF TurnInv, RanOwned
  <2>4. RowFine(n, 0, gens)
    BY <1>1 DEF RowFine, n, NewTurn, Unfinished, Honest
  <2>5. \A v \in Actors \ {w} : Fine(v, work[v], turns'[work[v].turn], sends'[work[v].turn], gens)
    <3> SUFFICES ASSUME NEW v \in Actors
                 PROVE  Fine(v, work[v], turns'[work[v].turn], sends'[work[v].turn], gens)
      OBVIOUS
    <3>1. Fine(v, work[v], turns[work[v].turn], sends[work[v].turn], gens)
      BY DEF TurnInv, CallsFine
    <3>2. CASE work[v].pc \notin OwnPoints \cup AckPoints
      BY <3>1, <3>2, FineAnyway
    <3>3. CASE work[v].pc \in OwnPoints \cup AckPoints
      BY <1>0, <2>2, <3>1, <3>3, InTurn
    <3> QED BY <3>2, <3>3
  <2>6. Fine(w, s, n, 0, gens)
    <3>1. s.pc = "generate" /\ s.k = work[w].k /\ s.kind = work[w].kind /\ s.batch = b
      BY <1>0 DEF Works
    <3> HIDE DEF s
    <3>2. n.owner = w /\ n.proj = "none" /\ n.outcome = "none" /\ Unfinished(n)
      BY DEF n, NewTurn, Unfinished
    <3>3. "receipt" \notin Kinds => Counts(s, n, 0)
      BY <1>1, <3>1, <3>2 DEF Counts, Unsettled
    <3> QED BY <2>3, <3>1, <3>2, <3>3 DEF Fine, Answers, Early, OwnPoints, AckPoints
  <2>7. CallsFine'
    <3>1. s.turn = Len(turns) + 1
      BY <1>0 DEF Works
    <3> HIDE DEF s
    <3>2. Fine(w, work'[w], turns'[work'[w].turn], sends'[work'[w].turn], gens)
      <4>1. CASE work' = [work EXCEPT ![w] = s]
        <5>1. work'[w] = s
          BY <1>0, <4>1, Onto
        <5> QED BY <2>2, <2>6, <3>1, <5>1
      <4>2. CASE work' = [work EXCEPT ![w] = Idle]
        <5>1. work'[w] = Idle
          BY <1>0, <4>2, Onto
        <5> QED BY <5>1, FineIdle
      <4> QED BY <1>2, <4>1, <4>2
    <3>3. \A v \in Actors \ {w} : work'[v] = work[v]
      BY <1>0, <1>2, Onto
    <3> QED BY <1>0, <2>5, <3>2, <3>3 DEF CallsFine
  <2>8. RowsFine' /\ RanOwned'
    BY <1>0, <2>2, <2>4 DEF TurnInv, RowsFine, RanOwned
  <2> QED BY <2>7, <2>8 DEF TurnInv
<1>3. ASSUME NEW i \in DOMAIN turns, CanInterrupt(turns[i]),
             turns' = [turns EXCEPT ![i] = Interrupted(@)], UNCHANGED sends,
             \/ work' = [work EXCEPT ![w] = AckPath(w, i, turns[i].proj, TRUE)]
             \/ work' = [work EXCEPT ![w] = Idle]
      PROVE  TurnInv'
  <2>1. turns[i] \in Turns /\ RowFine(turns[i], sends[i], gens)
    BY <1>0, ElementOfSeq, LenProperties DEF TypeOK, TurnInv, RowsFine
  <2>2. Foreign(turns[i], Interrupted(turns[i])) /\ ~Unfinished(Interrupted(turns[i]))
    BY <1>3, <2>1, ForeignRows DEF RowFine
  <2>3. RowFine(Interrupted(turns[i]), sends[i], gens) /\ Advances(turns[i], Interrupted(turns[i]))
    BY <2>1, <2>2, RowKept DEF Foreign
  <2>4. Interrupted(turns[i]).proj = turns[i].proj
    BY <2>1 DEF Interrupted, Turns
  <2>5. Fine(w, AckPath(w, i, turns[i].proj, TRUE), Interrupted(turns[i]), sends[i], gens)
    BY <1>0, <1>1, <2>2, <2>4, AckPathFine
  <2>6. turns'[i] = Interrupted(turns[i]) /\ AckPath(w, i, turns[i].proj, TRUE).turn = i
    BY <1>0, <1>3 DEF AckPath, Works
  <2>7. PICK t : work' = [work EXCEPT ![w] = t] /\ Fine(w, t, turns'[t.turn], sends[t.turn], gens)
    BY <1>3, <2>5, <2>6, FineIdle
  <2> QED BY <1>0, <1>3, <2>2, <2>3, <2>7, OneRow
<1>4. ASSUME Defers(w), UNCHANGED <<turns, sends>> PROVE TurnInv'
  BY <1>0, <1>4, OneCall, FineIdle DEF Defers
<1> QED
  <2>1. \/ Owners(b) = {} /\ Blocking = {} /\ Insert(w)
           /\ (work' = [work EXCEPT ![w] = s] \/ Defers(w))
        \/ Defers(w) /\ UNCHANGED <<turns, sends>>
        \/ \E i \in Oldest(Owners(b)) :
             /\ CanInterrupt(turns[i]) /\ turns' = [turns EXCEPT ![i] = Interrupted(@)]
             /\ work' = [work EXCEPT ![w] = AckPath(w, i, turns[i].proj, TRUE)] \/ Defers(w)
             /\ UNCHANGED sends
    BY DEF Open
  <2>2. Oldest(Owners(b)) \subseteq DOMAIN turns
    BY DEF Oldest, Owners, Sharing
  <2>3. Defers(w) => work' = [work EXCEPT ![w] = Idle]
    BY DEF Defers
  <2> HIDE DEF s, b
  <2> QED BY <1>2, <1>3, <1>4, <2>1, <2>2, <2>3 DEF b

\* A call that is in no turn of its own relies on no count.
LEMMA FineElse ==
  ASSUME NEW w, NEW x, ~Answers(x), NEW r, NEW n, NEW gs, Fine(w, x, r, n, gs)
  PROVE  \A m, hs : Fine(w, x, r, m, hs)
  BY DEF Fine, Answers, Early, Counts, OwnPoints, AckPoints

\* Two calls that answer have different turns.
LEMMA OwnTurns ==
  ASSUME IInv, TurnInv, NEW v \in Actors, NEW w \in Actors, v # w, Answers(work[v]), Answers(work[w])
  PROVE  /\ work[v].turn \in DOMAIN turns /\ work[w].turn \in DOMAIN turns
         /\ work[v].turn # work[w].turn
         /\ turns[work[v].turn].inputs \cap turns[work[w].turn].inputs = {}
<1>1. work[v].pc \in OwnPoints \cup AckPoints /\ work[w].pc \in OwnPoints \cup AckPoints
  BY DEF Answers
<1>2. work[v].turn \in DOMAIN turns /\ work[w].turn \in DOMAIN turns
  BY <1>1, InTurn DEF IInv
<1>3. work[v].turn # work[w].turn
  BY DEF TurnInv, CallsFine, Fine
<1> QED BY <1>2, <1>3 DEF IInv, OneTurnAtATime

LEMMA TurnGenerate ==
  ASSUME IInv, TurnInv, NEW w \in Workers, Generate(w), ReplyAssumption
  PROVE  TurnInv'
<1> DEFINE k == work[w].turn
<1>0. TypeOK /\ w \in Actors /\ work[w].pc = "generate"
  BY DEF IInv, Actors, Generate
<1>1. /\ k \in DOMAIN turns /\ Turn(w) = turns[k] /\ Turn(w) \in Turns /\ work[w] \in Works
      /\ Fine(w, work[w], turns[k], sends[k], gens) /\ RowFine(turns[k], sends[k], gens)
  BY <1>0, Now
<1>2. /\ gens' = [m \in Messages |-> IF m \in turns[k].inputs THEN gens[m] + 1 ELSE gens[m]]
      /\ turns' = turns /\ sends' = sends
  BY <1>1 DEF Generate
<1>3. /\ turns[k].inputs \subseteq Messages /\ Ran(turns[k], 0, gens) /\ turns[k].proj = "none"
      /\ turns[k].owner = w
  BY <1>0, <1>1 DEF Turns, Fine, Answers, OwnPoints
<1>4. \A m \in Messages : gens'[m] = IF m \in turns[k].inputs THEN 1 ELSE gens[m]
  BY <1>2, <1>3 DEF Ran
<1>5. \A i \in DOMAIN turns : i # k => \A c : Ran(turns[i], c, gens) => Ran(turns[i], c, gens')
  <2> SUFFICES ASSUME NEW i \in DOMAIN turns, i # k, NEW m \in turns[i].inputs PROVE gens'[m] = gens[m]
    BY DEF Ran
  <2>1. m \notin turns[k].inputs
    BY <1>1 DEF IInv, OneTurnAtATime
  <2>2. turns[i] \in Turns
    BY <1>0, ElementOfSeq, LenProperties DEF TypeOK
  <2> QED BY <1>4, <2>1, <2>2 DEF Turns
<1>6. Ran(turns[k], 1, gens')
  BY <1>3, <1>4 DEF Ran
<1>7. ASSUME NEW v \in Actors, v # w
      PROVE  Fine(v, work[v], turns[work[v].turn], sends[work[v].turn], gens')
  <2>1. Fine(v, work[v], turns[work[v].turn], sends[work[v].turn], gens)
    BY DEF TurnInv, CallsFine
  <2>2. CASE ~Answers(work[v])
    BY <2>1, <2>2, FineElse
  <2>3. CASE Answers(work[v])
    <3>1. work[v].turn \in DOMAIN turns /\ work[v].turn # k
      BY <1>0, <1>7, <2>3, OwnTurns DEF Answers, OwnPoints
    <3> QED BY <1>5, <2>1, <3>1 DEF Fine
  <2> QED BY <2>2, <2>3
<1>8. \E s : work' = [work EXCEPT ![w] = s] /\ Fine(w, s, turns[s.turn], sends[s.turn], gens')
  <2>1. ASSUME NEW kind \in Kinds, work' = [work EXCEPT ![w].pc = "save", ![w].kind = kind]
        PROVE  \E s : work' = [work EXCEPT ![w] = s] /\ Fine(w, s, turns[s.turn], sends[s.turn], gens')
    <3> DEFINE s == [work[w] EXCEPT !.pc = "save", !.kind = kind]
    <3>1. work' = [work EXCEPT ![w] = s]
      BY <1>0, <2>1 DEF TypeOK, Works
    <3>2. s.pc = "save" /\ s.kind = kind /\ s.turn = k /\ s.k = work[w].k
      BY <1>1 DEF Works
    <3> HIDE DEF s
    <3>3. "receipt" \notin Kinds => Counts(s, turns[k], sends[k])
      BY <1>0, <1>1, <3>2 DEF Fine, Counts
    <3>4. turns[k].live => Unfinished(turns[k])
      BY <1>0, <1>1 DEF Fine, Early
    <3>5. Fine(w, s, turns[k], sends[k], gens')
      BY <1>3, <1>6, <3>2, <3>3, <3>4 DEF Fine, Answers, Early, OwnPoints, AckPoints
    <3> QED BY <3>1, <3>2, <3>5
  <2>2. CASE Defers(w)
    BY <2>2, FineIdle DEF Defers
  <2> QED BY <2>1, <2>2 DEF Generate
<1>9. CallsFine'
  <2>1. PICK s : work' = [work EXCEPT ![w] = s] /\ Fine(w, s, turns[s.turn], sends[s.turn], gens')
    BY <1>8
  <2>2. work'[w] = s /\ \A v \in Actors \ {w} : work'[v] = work[v]
    BY <1>0, <2>1, Onto
  <2> QED BY <1>2, <1>7, <2>1, <2>2 DEF CallsFine
<1>10. RowsFine'
  <2> SUFFICES ASSUME NEW i \in DOMAIN turns PROVE RowFine(turns[i], sends[i], gens')
    BY <1>2 DEF RowsFine
  <2>1. RowFine(turns[i], sends[i], gens)
    BY DEF TurnInv, RowsFine
  <2>2. CASE i = k
    BY <1>3, <2>1, <2>2 DEF RowFine
  <2>3. CASE i # k
    BY <1>5, <2>1, <2>3 DEF RowFine
  <2> QED BY <2>2, <2>3
<1>11. RanOwned'
  BY <1>1, <1>2, <1>4 DEF TurnInv, RanOwned
<1> QED BY <1>9, <1>10, <1>11 DEF TurnInv

LEMMA TurnSend ==
  ASSUME IInv, TurnInv, NEW w \in Workers, SendSegment(w) \/ CheckDelivery(w), ReplyAssumption
  PROVE  TurnInv'
<1> DEFINE k == work[w].turn
           x == work[w]
<1>0. TypeOK /\ w \in Actors /\ x.pc \in {"check", "wire"}
  BY DEF IInv, Actors, SendSegment, CheckDelivery
<1>1. /\ k \in DOMAIN turns /\ Turn(w) = turns[k] /\ Turn(w) \in Turns /\ x \in Works
      /\ Fine(w, x, turns[k], sends[k], gens) /\ RowFine(turns[k], sends[k], gens)
      /\ work \in [Actors -> Works]
  BY <1>0, Now
<1>2. turns' = turns /\ gens' = gens
  BY DEF SendSegment, CheckDelivery, inbox, history
<1>3. /\ turns[k].owner = w /\ Ran(turns[k], 1, gens) /\ (turns[k].live => Unfinished(turns[k]))
      /\ "receipt" \notin Kinds => x.kind # "receipt" /\ Unsettled(turns[k]) /\ sends[k] = x.k
  BY <1>0, <1>1 DEF Fine, Answers, Early, OwnPoints, Counts
<1>4. ASSUME NEW s, s.turn = k, s.kind = x.kind, NEW n,
             \/ s.pc = "finish" /\ s.res # "none" /\ (s.res = "unknown" \/ ("receipt" \notin Kinds => n = s.k))
             \/ s.pc \in {"check", "wire"} /\ ("receipt" \notin Kinds => n = s.k)
      PROVE  Fine(w, s, turns[k], n, gens)
  BY <1>3, <1>4 DEF Fine, Answers, Early, OwnPoints, AckPoints, Counts
<1>5. ASSUME NEW s, work' = [work EXCEPT ![w] = s], s.turn = k, NEW n,
             Fine(w, s, turns[k], n, gens), sends' = [sends EXCEPT ![k] = n]
      PROVE  TurnInv'
  <2>1. k \in DOMAIN sends
    BY <1>0, <1>1, LenProperties DEF TypeOK
  <2>2. sends'[k] = n /\ \A i \in DOMAIN turns \ {k} : sends'[i] = sends[i]
    <3>1. DOMAIN turns = DOMAIN sends
      BY <1>0, LenProperties DEF TypeOK
    <3> QED BY <1>5, <2>1, <3>1
  <2>3. ASSUME NEW v \in Actors, v # w
        PROVE  Fine(v, work[v], turns[work[v].turn], sends'[work[v].turn], gens)
    <3>1. Fine(v, work[v], turns[work[v].turn], sends[work[v].turn], gens)
      BY DEF TurnInv, CallsFine
    <3>2. CASE ~Answers(work[v])
      BY <3>1, <3>2, FineElse
    <3>3. CASE Answers(work[v])
      <4>1. work[v].turn \in DOMAIN turns /\ work[v].turn # k
        BY <1>0, <2>3, <3>3, OwnTurns DEF Answers, OwnPoints
      <4> QED BY <2>2, <3>1, <4>1
    <3> QED BY <3>2, <3>3
  <2>4. CallsFine'
    <3>1. work'[w] = s /\ \A v \in Actors \ {w} : work'[v] = work[v]
      BY <1>0, <1>5, Onto
    <3> QED BY <1>2, <1>5, <2>2, <2>3, <3>1 DEF CallsFine
  <2>5. RowsFine'
    <3> SUFFICES ASSUME NEW i \in DOMAIN turns PROVE RowFine(turns[i], sends'[i], gens)
      BY <1>2 DEF RowsFine
    <3>1. RowFine(turns[i], sends[i], gens)
      BY DEF TurnInv, RowsFine
    <3>2. CASE i = k
      BY <1>3, <3>1, <3>2 DEF RowFine, Honest, Unsettled
    <3>3. CASE i # k
      BY <2>2, <3>1, <3>3
    <3> QED BY <3>2, <3>3
  <2>6. RanOwned'
    BY <1>2 DEF TurnInv, RanOwned
  <2> QED BY <2>4, <2>5, <2>6 DEF TurnInv
<1>6. \A o : LET s == [x EXCEPT !.pc = "finish", !.res = o]
             IN  s.pc = "finish" /\ s.res = o /\ s.turn = k /\ s.kind = x.kind /\ s.k = x.k
  BY <1>1 DEF Works
<1>7. \A p : LET s == [x EXCEPT !.pc = p]
             IN  s.pc = p /\ s.turn = k /\ s.kind = x.kind /\ s.k = x.k
  BY <1>1 DEF Works
<1>8. /\ \A o : Results(w, o) => work' = [work EXCEPT ![w] = [x EXCEPT !.pc = "finish", !.res = o]]
      /\ Goto(w, "wire") => work' = [work EXCEPT ![w] = [x EXCEPT !.pc = "wire"]]
  <2>1. Goto(w, "wire") => work' = [work EXCEPT ![w] = [x EXCEPT !.pc = "wire"]]
    BY <1>1 DEF Goto, Works
  <2>2. ASSUME NEW o, Results(w, o) PROVE work' = [work EXCEPT ![w] = [x EXCEPT !.pc = "finish", !.res = o]]
    BY <1>1, <2>2 DEF Results, Works
  <2> QED BY <2>1, <2>2
<1>9. CASE sends' = sends /\ \E o \in {"complete", "skipped", "incomplete", "unknown"} : Results(w, o)
  <2>1. PICK o \in {"complete", "skipped", "incomplete", "unknown"} : Results(w, o)
    BY <1>9
  <2> DEFINE s == [x EXCEPT !.pc = "finish", !.res = o]
  <2>2. s.pc = "finish" /\ s.res = o /\ s.turn = k /\ s.kind = x.kind /\ s.k = x.k
    BY <1>6
  <2>3. work' = [work EXCEPT ![w] = s]
    BY <1>8, <2>1
  <2> HIDE DEF s
  <2>4. Fine(w, s, turns[k], sends[k], gens)
    BY <1>3, <1>4, <2>2
  <2> QED BY <1>0, <1>2, <1>9, <2>2, <2>3, <2>4, OneCall
<1>10. CASE sends' = sends /\ Goto(w, "wire")
  <2> DEFINE s == [x EXCEPT !.pc = "wire"]
  <2>1. s.pc = "wire" /\ s.turn = k /\ s.kind = x.kind /\ s.k = x.k
    BY <1>7
  <2>2. work' = [work EXCEPT ![w] = s]
    BY <1>8, <1>10
  <2> HIDE DEF s
  <2>3. Fine(w, s, turns[k], sends[k], gens)
    BY <1>3, <1>4, <2>1
  <2> QED BY <1>0, <1>2, <1>10, <2>1, <2>2, <2>3, OneCall
<1>11. CASE sends' = [sends EXCEPT ![k] = @ + 1] /\ Results(w, "unknown")
  <2> DEFINE s == [x EXCEPT !.pc = "finish", !.res = "unknown"]
  <2>1. s.pc = "finish" /\ s.res = "unknown" /\ s.turn = k /\ s.kind = x.kind
    BY <1>6
  <2>2. work' = [work EXCEPT ![w] = s]
    BY <1>8, <1>11
  <2> HIDE DEF s
  <2>3. Fine(w, s, turns[k], sends[k] + 1, gens)
    BY <1>4, <2>1
  <2> QED BY <1>5, <1>11, <2>1, <2>2, <2>3
<1>12. CASE sends' = [sends EXCEPT ![k] = @ + 1] /\ work' = [work EXCEPT ![w].pc = "check", ![w].k = @ + 1]
  <2> DEFINE s == [x EXCEPT !.pc = "check", !.k = @ + 1]
  <2>1. s.pc = "check" /\ s.turn = k /\ s.kind = x.kind /\ s.k = x.k + 1
    BY <1>1 DEF Works
  <2>2. work' = [work EXCEPT ![w] = s]
    BY <1>1, <1>12 DEF Works
  <2> HIDE DEF s
  <2>3. Fine(w, s, turns[k], sends[k] + 1, gens)
    BY <1>3, <1>4, <2>1
  <2> QED BY <1>5, <1>12, <2>1, <2>2, <2>3
<1>13. CASE CheckDelivery(w)
  BY <1>9, <1>10, <1>13 DEF CheckDelivery, history
<1>14. CASE SendSegment(w)
  BY <1>9, <1>11, <1>12, <1>14 DEF SendSegment
<1> QED BY <1>13, <1>14

-----------------------------------------------------------------------------
(* The calls of the stored procedure. *)

\* Moving on to point p.
LEMMA AtPoint ==
  ASSUME NEW w \in Actors, work[w] \in Works, NEW p
  PROVE  /\ At(w, p).pc = p
         /\ At(w, p).turn = work[w].turn /\ At(w, p).kind = work[w].kind /\ At(w, p).k = work[w].k
         /\ At(w, p).res = work[w].res /\ At(w, p).copy = work[w].copy /\ At(w, p).last = work[w].last
  BY DEF At, Works

LEMMA TurnSave ==
  ASSUME IInv, TurnInv, NEW w \in Workers, SaveEffects(w)
  PROVE  TurnInv'
<1> DEFINE x == work[w]
           r == Turn(w)
           q == EffectsSaved(r)
           n == sends[x.turn]
           p == IF x.pc = "resave" THEN "giveup" ELSE IF x.kind = "receipt" THEN "start" ELSE "project"
<1>0. /\ TypeOK /\ w \in Actors /\ x.pc \in {"save", "resave"}
      /\ Call(w, CanSave(r, w), q, At(w, p)) /\ UNCHANGED <<sends, gens>>
  BY DEF IInv, Actors, SaveEffects, history
<1>1. /\ r \in Turns /\ x \in Works /\ Fine(w, x, r, n, gens) /\ RowFine(r, n, gens)
      /\ Unfinished(r) <=> r.outcome = "none"
  BY <1>0, Now
<1>2. Ran(r, 1, gens) /\ r.owner = w /\ ("receipt" \notin Kinds => Counts(x, r, n))
  BY <1>0, <1>1 DEF Fine, Answers, OwnPoints
<1>3. ASSUME CanSave(r, w)
      PROVE  /\ Advances(r, q) /\ RowFine(q, n, gens) /\ Fine(w, x, q, n, gens) /\ Fine(w, At(w, p), q, n, gens)
  <2>1. /\ Advances(r, q) /\ q.outcome = r.outcome /\ q.accepted = r.accepted /\ q.inputs = r.inputs
        /\ q.owner = r.owner /\ Unfinished(q)
    BY <1>1, <1>3, OwnRows DEF Advances, EffectsSaved, Turns, CanSave, Unfinished
  <2>2. RowFine(q, n, gens)
    BY <1>1, <1>2, <2>1 DEF RowFine, Ran, Honest, Advances
  <2> HIDE DEF q
  <2>3. Ran(q, 1, gens)
    BY <1>2, <2>1 DEF Ran
  <2>4. Fine(w, x, q, n, gens)
    <3>1. "receipt" \notin Kinds => Counts(x, q, n)
      BY <1>0, <1>2, <2>1 DEF Counts, Unsettled
    <3> QED BY <1>0, <1>2, <2>1, <2>3, <3>1 DEF Fine, AckPoints
  <2>5. Fine(w, At(w, p), q, n, gens)
    <3>1. /\ At(w, p).pc \in {"giveup", "start", "project"} /\ At(w, p).kind = x.kind
          /\ At(w, p).k = x.k
      BY <1>1, <1>0, AtPoint
    <3> HIDE DEF p
    <3>2. "receipt" \notin Kinds => Counts(At(w, p), q, n)
      BY <1>0, <1>2, <2>1, <3>1 DEF Counts, Unsettled
    <3> QED BY <1>2, <2>1, <2>3, <3>1, <3>2 DEF Fine, AckPoints
  <2> QED BY <2>1, <2>2, <2>4, <2>5
<1>4. At(w, p).turn = x.turn /\ x.pc \in ErrorPoints \ {"open"}
  BY <1>0, <1>1, AtPoint DEF ErrorPoints, Points
<1> HIDE DEF p, q
<1> QED BY <1>0, <1>2, <1>3, <1>4, CallFine DEF Call

LEMMA TurnStart ==
  ASSUME IInv, TurnInv, NEW w \in Workers, StartDelivery(w)
  PROVE  TurnInv'
<1> DEFINE x == work[w]
           r == Turn(w)
           q == Started(r)
           n == sends[x.turn]
           s == At(w, "check")
<1>0. /\ TypeOK /\ w \in Actors /\ x.pc = "start"
      /\ Call(w, CanStart(r, w), q, s) /\ UNCHANGED <<sends, gens>>
  BY DEF IInv, Actors, StartDelivery, history
<1>1. /\ r \in Turns /\ x \in Works /\ Fine(w, x, r, n, gens) /\ RowFine(r, n, gens)
      /\ Unfinished(r) <=> r.outcome = "none"
  BY <1>0, Now
<1>2. Ran(r, 1, gens) /\ r.owner = w /\ ("receipt" \notin Kinds => Counts(x, r, n))
  BY <1>0, <1>1 DEF Fine, Answers, OwnPoints
<1>3. s.pc = "check" /\ s.turn = x.turn /\ s.kind = x.kind /\ s.k = x.k
  BY <1>0, <1>1, AtPoint
<1> HIDE DEF s
<1>4. ASSUME CanStart(r, w)
      PROVE  /\ Advances(r, q) /\ RowFine(q, n, gens) /\ Fine(w, x, q, n, gens) /\ Fine(w, s, q, n, gens)
  <2>1. /\ Advances(r, q) /\ q.outcome = r.outcome /\ q.accepted = r.accepted /\ q.inputs = r.inputs
        /\ q.owner = r.owner /\ Unfinished(q) /\ q.proj = r.proj
    BY <1>1, <1>4, OwnRows DEF Advances, Started, Turns
  <2>2. RowFine(q, n, gens)
    BY <1>1, <1>2, <2>1 DEF RowFine, Ran, Honest, Advances
  <2> HIDE DEF q
  <2>3. Ran(q, 1, gens)
    BY <1>2, <2>1 DEF Ran
  <2>4. Fine(w, x, q, n, gens)
    <3>1. "receipt" \notin Kinds => Counts(x, q, n)
      BY <1>0, <1>2, <2>1 DEF Counts, Unsettled
    <3> QED BY <1>0, <1>2, <2>1, <2>3, <3>1 DEF Fine, AckPoints
  <2>5. Fine(w, s, q, n, gens)
    <3>2. "receipt" \notin Kinds => Counts(s, q, n)
      BY <1>0, <1>2, <2>1, <1>3 DEF Counts, Unsettled
    <3> QED BY <1>2, <1>3, <2>1, <2>3, <3>2 DEF Fine, AckPoints
  <2> QED BY <2>1, <2>2, <2>4, <2>5
<1>5. x.pc \in ErrorPoints \ {"open"}
  BY <1>0 DEF ErrorPoints, Points
<1> HIDE DEF q
<1> QED BY <1>0, <1>2, <1>3, <1>4, <1>5, CallFine DEF Call

\* Settling, by the owner of the turn or of one that is closed.
LEMMA SettledFine ==
  ASSUME NEW w, NEW x, NEW r \in Turns, Unfinished(r) <=> r.outcome = "none", NEW n,
         Fine(w, x, r, n, gens), RowFine(r, n, gens), CanSettle(r, w),
         x.pc \in {"finish", "refinish", "giveup", "close"},
         NEW o \in Outcomes \ {"none"}, NEW c \in Nat,
         "receipt" \notin Kinds /\ Unfinished(r) /\ o \in {"complete", "incomplete", "skipped"} => c = n
  PROVE  /\ Advances(r, Settled(r, o, c)) /\ ~Unfinished(Settled(r, o, c))
         /\ Settled(r, o, c).owner = r.owner /\ Settled(r, o, c).inputs = r.inputs
         /\ Settled(r, o, c).proj = r.proj
         /\ Foreign(r, Settled(r, o, c)) \/ (r.owner = w /\ Fine(w, x, Settled(r, o, c), n, gens))
         /\ RowFine(Settled(r, o, c), n, gens)
<1> DEFINE q == Settled(r, o, c)
<1>1. /\ Advances(r, q) /\ ~Unfinished(q) /\ q.proj = r.proj
      /\ Unfinished(r) => q.outcome = o /\ q.accepted = c
      /\ ~Unfinished(r) => q = r /\ Foreign(r, r)
  <2>1. /\ Advances(r, q) /\ ~Unfinished(q) /\ q.proj = r.proj
        /\ Unfinished(r) => q.outcome = o /\ q.accepted = c
    BY OwnRows
  <2>2. ~Unfinished(r) => q = r /\ Foreign(r, r)
    BY ForeignRows DEF Settled
  <2> QED BY <2>1, <2>2
<1> HIDE DEF q
<1>2. q.owner = r.owner /\ q.inputs = r.inputs
  BY <1>1 DEF Advances
<1>3. RowFine(q, n, gens)
  <2>1. CASE ~Unfinished(r)
    BY <1>1, <2>1
  <2>2. CASE Unfinished(r)
    <3>1. "receipt" \notin Kinds => Honest(q, n)
      BY <1>1, <2>2 DEF Honest
    <3> QED BY <1>1, <1>2, <3>1 DEF RowFine, Ran, Advances
  <2> QED BY <2>1, <2>2
<1>4. Foreign(r, q) \/ (r.owner = w /\ Fine(w, x, q, n, gens))
  <2>1. CASE ~Unfinished(r)
    BY <1>1, <2>1
  <2>2. CASE Unfinished(r)
    <3>1. r.owner = w /\ x.pc \notin AckPoints
      BY <2>2 DEF CanSettle, OwnedLive, Fine
    <3>2. "receipt" \notin Kinds => Counts(x, q, n)
      <4>1. "receipt" \notin Kinds => Counts(x, r, n)
        BY DEF Fine
      <4> QED BY <1>1, <4>1 DEF Counts
    <3> QED BY <1>1, <1>2, <3>1, <3>2 DEF Fine, Ran, Early
  <2> QED BY <2>1, <2>2
<1> QED BY <1>1, <1>2, <1>3, <1>4 DEF q

LEMMA TurnFinish ==
  ASSUME IInv, TurnInv, NEW w \in Workers, FinishOrdinary(w)
  PROVE  TurnInv'
<1> DEFINE x == work[w]
           r == Turn(w)
           q == Settled(r, x.res, x.k)
           n == sends[x.turn]
           s == Delivered(w)
<1>0. /\ TypeOK /\ w \in Actors /\ x.pc \in {"finish", "refinish"}
      /\ Call(w, CanSettle(r, w), q, s) /\ UNCHANGED <<sends, gens>>
  BY DEF IInv, Actors, FinishOrdinary, history
<1>1. /\ r \in Turns /\ x \in Works /\ Fine(w, x, r, n, gens) /\ RowFine(r, n, gens)
      /\ Unfinished(r) <=> r.outcome = "none"
  BY <1>0, Now
<1>2. /\ Ran(r, 1, gens) /\ r.owner = w /\ ("receipt" \notin Kinds => Counts(x, r, n))
      /\ x.res \in Outcomes \ {"none"} /\ x.k \in Nat
  BY <1>0, <1>1 DEF Fine, Answers, OwnPoints, Works
<1>3. /\ s.turn = x.turn /\ s.pc \in {"project", "giveup", "close"} /\ s.kind = x.kind
      /\ s.pc = "project" <=> x.kind = "receipt"
  <2>1. /\ [At(w, "project") EXCEPT !.res = "none", !.k = 0].pc = "project"
        /\ [At(w, "project") EXCEPT !.res = "none", !.k = 0].turn = x.turn
        /\ [At(w, "project") EXCEPT !.res = "none", !.k = 0].kind = x.kind
    BY <1>1 DEF At, Works
  <2> QED BY <1>1, <2>1, AtPoint, <1>0 DEF Delivered
<1> HIDE DEF s
<1>4. ASSUME CanSettle(r, w)
      PROVE  /\ Advances(r, q) /\ RowFine(q, n, gens) /\ Fine(w, s, q, n, gens)
             /\ Foreign(r, q) \/ (r.owner = w /\ Fine(w, x, q, n, gens))
  <2>1. "receipt" \notin Kinds /\ x.res \in {"complete", "incomplete", "skipped"} => x.k = n
    BY <1>0, <1>2 DEF Counts
  <2>2. /\ Advances(r, q) /\ ~Unfinished(q) /\ q.owner = r.owner /\ q.inputs = r.inputs
    BY <1>0, <1>1, <1>2, <1>4, <2>1, SettledFine
  <2>3. RowFine(q, n, gens) /\ (Foreign(r, q) \/ (r.owner = w /\ Fine(w, x, q, n, gens)))
    BY <1>0, <1>1, <1>2, <1>4, <2>1, SettledFine
  <2> HIDE DEF q
  <2>4. "receipt" \notin Kinds => Counts(s, q, n)
    BY <1>2, <1>3, <2>2 DEF Counts
  <2>5. Fine(w, s, q, n, gens)
    BY <1>2, <1>3, <2>2, <2>4 DEF Fine, Early, AckPoints, Ran
  <2> QED BY <2>2, <2>3, <2>5
<1>5. x.pc \in ErrorPoints \ {"open"}
  BY <1>0 DEF ErrorPoints, Points
<1> HIDE DEF q
<1> QED BY <1>0, <1>3, <1>4, <1>5, CallFine DEF Call

LEMMA TurnProject ==
  ASSUME IInv, TurnInv, NEW w \in Workers, CompleteProjection(w)
  PROVE  TurnInv'
<1> DEFINE x == work[w]
           r == Turn(w)
           q == Projected(r)
           n == sends[x.turn]
           p == IF x.kind = "reply" THEN "start" ELSE "close"
<1>0. /\ TypeOK /\ w \in Actors /\ x.pc = "project"
      /\ Call(w, CanProject(r, w), q, At(w, p)) /\ UNCHANGED <<sends, gens>>
  BY DEF IInv, Actors, CompleteProjection
<1>1. /\ r \in Turns /\ x \in Works /\ Fine(w, x, r, n, gens) /\ RowFine(r, n, gens)
      /\ Unfinished(r) <=> r.outcome = "none"
  BY <1>0, Now
<1>2. Foreign(r, q) /\ Advances(r, q)
  BY <1>1, ForeignRows DEF Foreign
<1> HIDE DEF q
<1>3. RowFine(q, n, gens) /\ Fine(w, x, q, n, gens)
  BY <1>1, <1>2, RowKept, FineKept
<1>4. /\ At(w, p).pc = p /\ At(w, p).turn = x.turn /\ At(w, p).kind = x.kind /\ At(w, p).k = x.k
      /\ p \in {"start", "close"} /\ (p = "start" => x.kind = "reply")
  <2>1. p \in {"start", "close"} /\ (p = "start" => x.kind = "reply")
    OBVIOUS
  <2> HIDE DEF p
  <2> QED BY <1>0, <1>1, <2>1, AtPoint
<1> HIDE DEF p
<1>5. Fine(w, At(w, p), q, n, gens)
  <2>1. "receipt" \notin Kinds => Counts(At(w, p), q, n)
    BY <1>0, <1>3, <1>4 DEF Fine, Counts
  <2>2. q.owner = w /\ Ran(q, 1, gens)
    BY <1>0, <1>3 DEF Fine, Answers, OwnPoints
  <2>3. Early(At(w, p)) /\ q.live => Unfinished(q)
    BY <1>0, <1>3, <1>4 DEF Fine, Early
  <2> QED BY <1>4, <2>1, <2>2, <2>3 DEF Fine, AckPoints
<1>6. x.pc \in ErrorPoints \ {"open"}
  BY <1>0 DEF ErrorPoints, Points
<1> QED BY <1>0, <1>2, <1>3, <1>4, <1>5, <1>6, CallFine DEF Call

LEMMA TurnGiveUp ==
  ASSUME IInv, TurnInv, NEW w \in Workers, GiveUp(w)
  PROVE  TurnInv'
<1> DEFINE x == work[w]
           r == Turn(w)
           o == IF x.res = "unknown" THEN "unknown" ELSE "incomplete"
           q == Settled(r, o, x.k)
           n == sends[x.turn]
           s == AckPath(w, x.turn, q.proj, TRUE)
<1>0. /\ TypeOK /\ w \in Actors /\ x.pc = "giveup"
      /\ Call(w, CanSettle(r, w), q, s) /\ UNCHANGED <<sends, gens>>
  BY DEF IInv, Actors, GiveUp, Counted, history
<1>1. /\ r \in Turns /\ x \in Works /\ Fine(w, x, r, n, gens) /\ RowFine(r, n, gens)
      /\ Unfinished(r) <=> r.outcome = "none"
  BY <1>0, Now
<1>2. /\ "receipt" \notin Kinds => Counts(x, r, n)
      /\ o \in Outcomes \ {"none"} /\ x.k \in Nat
  BY <1>1 DEF Fine, Works, Outcomes
<1>3. s.turn = x.turn
  BY <1>1 DEF AckPath, Works
<1> HIDE DEF s
<1>4. ASSUME CanSettle(r, w)
      PROVE  /\ Advances(r, q) /\ RowFine(q, n, gens) /\ Fine(w, s, q, n, gens)
             /\ Foreign(r, q) \/ (r.owner = w /\ Fine(w, x, q, n, gens))
  <2>1. "receipt" \notin Kinds /\ Unfinished(r) /\ o \in {"complete", "incomplete", "skipped"} => x.k = n
    BY <1>0, <1>2 DEF Counts
  <2> HIDE DEF o
  <2>2. /\ Advances(r, q) /\ ~Unfinished(q) /\ RowFine(q, n, gens)
        /\ Foreign(r, q) \/ (r.owner = w /\ Fine(w, x, q, n, gens))
    BY <1>0, <1>1, <1>2, <1>4, <2>1, SettledFine
  <2> HIDE DEF q
  <2>3. "receipt" \notin Kinds => x.kind # "receipt"
    BY <1>2 DEF Counts
  <2>4. Fine(w, s, q, n, gens)
    BY <1>0, <1>1, <2>2, <2>3, AckPathFine DEF s
  <2> QED BY <2>2, <2>4
<1>5. x.pc \in ErrorPoints \ {"open"}
  BY <1>0 DEF ErrorPoints, Points
<1> HIDE DEF q
<1> QED BY <1>0, <1>3, <1>4, <1>5, CallFine DEF Call

LEMMA TurnClose ==
  ASSUME IInv, TurnInv, NEW w \in Workers, Close(w)
  PROVE  TurnInv'
<1> DEFINE x == work[w]
           r == Turn(w)
           q == Settled(r, "skipped", 0)
           n == sends[x.turn]
           s == AckPath(w, x.turn, q.proj, FALSE)
<1>0. /\ TypeOK /\ w \in Actors /\ x.pc = "close"
      /\ Call(w, CanSettle(r, w), q, s) /\ UNCHANGED <<sends, gens>>
  BY DEF IInv, Actors, Close, history
<1>1. /\ r \in Turns /\ x \in Works /\ Fine(w, x, r, n, gens) /\ RowFine(r, n, gens)
      /\ Unfinished(r) <=> r.outcome = "none"
  BY <1>0, Now
<1>2. /\ "receipt" \notin Kinds => Counts(x, r, n)
      /\ r.owner = w /\ Ran(r, 1, gens)
      /\ "skipped" \in Outcomes \ {"none"} /\ 0 \in Nat
  BY <1>0, <1>1 DEF Fine, Answers, OwnPoints, Outcomes
<1>3. s.turn = x.turn
  BY <1>1 DEF AckPath, Works
<1> HIDE DEF s
<1>4. ASSUME CanSettle(r, w)
      PROVE  /\ Advances(r, q) /\ RowFine(q, n, gens) /\ Fine(w, s, q, n, gens)
             /\ Foreign(r, q) \/ (r.owner = w /\ Fine(w, x, q, n, gens))
  <2>1. "receipt" \notin Kinds /\ Unfinished(r) => 0 = n
    BY <1>0, <1>2 DEF Counts
  <2>2. /\ Advances(r, q) /\ ~Unfinished(q) /\ RowFine(q, n, gens)
        /\ q.owner = r.owner /\ q.inputs = r.inputs
        /\ Foreign(r, q) \/ (r.owner = w /\ Fine(w, x, q, n, gens))
    BY <1>0, <1>1, <1>2, <1>4, <2>1, SettledFine
  <2> HIDE DEF q
  <2>3. /\ "receipt" \notin Kinds => x.kind # "receipt"
        /\ q.owner = w /\ Ran(q, 1, gens)
    BY <1>2, <2>2 DEF Counts, Ran
  <2>4. Fine(w, s, q, n, gens)
    BY <1>0, <1>1, <2>2, <2>3, AckPathFine DEF s
  <2> QED BY <2>2, <2>4
<1>5. x.pc \in ErrorPoints \ {"open"}
  BY <1>0 DEF ErrorPoints, Points
<1> HIDE DEF q
<1> QED BY <1>0, <1>3, <1>4, <1>5, CallFine DEF Call

-----------------------------------------------------------------------------
(* Acknowledging and recovery. *)

\* A call that leaves its turn alone.
LEMMA FineApart ==
  ASSUME NEW w, NEW x, NEW r, NEW n, NEW gs, Fine(w, x, r, n, gs),
         NEW s, s.pc \in {"idle", "lease", "resume", "defer"}, s.kind = x.kind
  PROVE  \A q, m, hs : Fine(w, s, q, m, hs)
  BY DEF Fine, Answers, Early, Counts, OwnPoints, AckPoints

\* The points of the acknowledgement, one after the other.
LEMMA FineOn ==
  ASSUME NEW w, NEW x, NEW r, NEW n, NEW gs, Fine(w, x, r, n, gs), x.pc \in AckPoints,
         NEW s, s.pc \in AckPoints \ {"repair"}, s.kind = x.kind, s.last = x.last,
         r.proj = "complete"
  PROVE  Fine(w, s, r, n, gs)
  BY DEF Fine, Answers, Early, Counts, OwnPoints, AckPoints

LEMMA TurnRepair ==
  ASSUME IInv, TurnInv, NEW w \in Actors, RepairEffects(w)
  PROVE  TurnInv'
<1> DEFINE x == work[w]
           r == Turn(w)
           q == IF x.copy = "pending" THEN Projected(r) ELSE r
           g == IF x.copy = "pending" THEN CanProject(r, w) ELSE Confirmed(w)
           n == sends[x.turn]
           s == At(w, "remove")
<1>0. /\ TypeOK /\ x.pc = "repair" /\ Call(w, g, q, s) /\ UNCHANGED <<sends, gens>>
      /\ Aware(x, turns)
  BY DEF IInv, RepairEffects, AllAware
<1>1. /\ r \in Turns /\ x \in Works /\ Fine(w, x, r, n, gens) /\ RowFine(r, n, gens)
      /\ Unfinished(r) <=> r.outcome = "none"
      /\ r = turns[x.turn]
  BY <1>0, Now
<1>2. Foreign(r, q) /\ Advances(r, q) /\ (r.proj # "none" => Projected(r).proj = "complete")
  <2>1. /\ Foreign(r, r) /\ Foreign(r, Projected(r))
        /\ r.proj # "none" => Projected(r).proj = "complete"
    BY <1>1, ForeignRows
  <2> QED BY <2>1 DEF Foreign
<1>3. g => q.proj = "complete"
  <2>1. CASE x.copy = "pending"
    BY <1>0, <1>1, <1>2, <2>1 DEF Aware
  <2>2. CASE x.copy # "pending"
    BY <1>0, <1>1, <2>2 DEF Fine, Confirmed, Works, Projections, AckPoints
  <2> QED BY <2>1, <2>2
<1> HIDE DEF q, g
<1>4. RowFine(q, n, gens) /\ Fine(w, x, q, n, gens)
  BY <1>1, <1>2, RowKept, FineKept
<1>5. s.pc = "remove" /\ s.turn = x.turn /\ s.kind = x.kind /\ s.last = x.last
  BY <1>1, AtPoint
<1> HIDE DEF s
<1>6. g => Fine(w, s, q, n, gens)
  BY <1>0, <1>3, <1>4, <1>5, FineOn DEF AckPoints
<1>7. x.pc \in ErrorPoints \ {"open"}
  BY <1>0 DEF ErrorPoints, Points
<1> QED BY <1>0, <1>2, <1>4, <1>5, <1>6, <1>7, CallFine DEF Call

\* The steps of an acknowledgement that leave the row alone.
LEMMA TurnCleared ==
  ASSUME IInv, TurnInv, NEW w \in Actors,
         RepairFails(w) \/ RemovePending(w) \/ MarkProcessed(w)
  PROVE  TurnInv'
<1> DEFINE x == work[w]
<1>0. TypeOK /\ UNCHANGED <<turns, sends, gens>>
  BY DEF IInv, RepairFails, RemovePending, MarkProcessed, history
<1>1. ASSUME OnError(w), x.pc \in ErrorPoints PROVE TurnInv'
  BY <1>0, <1>1, ErrorKeeps
<1>2. ASSUME NEW p \in {"mark", "ack"}, Goto(w, p), x.pc \in {"remove", "mark"} PROVE TurnInv'
  <2> DEFINE s == At(w, p)
  <2>1. /\ x \in Works /\ work \in [Actors -> Works]
        /\ Fine(w, x, turns[x.turn], sends[x.turn], gens)
    BY <1>0, <1>2, Now
  <2>2. s.pc = p /\ s.turn = x.turn /\ s.kind = x.kind /\ s.last = x.last
    BY <2>1, AtPoint
  <2>3. work' = [work EXCEPT ![w] = s]
    BY <1>2, <2>1 DEF Goto, At
  <2> HIDE DEF s
  <2>4. Fine(w, s, turns[x.turn], sends[x.turn], gens)
    <3>1. turns[x.turn].proj = "complete"
      BY <1>2, <2>1 DEF Fine, AckPoints
    <3> QED BY <1>2, <2>1, <2>2, <3>1, FineOn DEF AckPoints
  <2> QED BY <1>0, <2>2, <2>3, <2>4, OneCall
<1>3. CASE RepairFails(w)
  <2>1. x.pc \in ErrorPoints
    BY <1>3 DEF RepairFails, ErrorPoints, Points
  <2> QED BY <1>1, <1>3, <2>1 DEF RepairFails
<1>4. CASE RemovePending(w)
  <2>1. x.pc \in ErrorPoints /\ x.pc = "remove"
    BY <1>4 DEF RemovePending, ErrorPoints, Points
  <2> QED BY <1>1, <1>2, <1>4, <2>1 DEF RemovePending
<1>5. CASE MarkProcessed(w)
  <2>1. x.pc \in ErrorPoints /\ x.pc = "mark"
    BY <1>5 DEF MarkProcessed, ErrorPoints, Points
  <2> QED BY <1>1, <1>2, <1>5, <2>1 DEF MarkProcessed, Stays
<1> QED BY <1>3, <1>4, <1>5

LEMMA TurnAck ==
  ASSUME IInv, TurnInv, NEW w \in Actors, Ack(w)
  PROVE  TurnInv'
<1> DEFINE x == work[w]
           r == Turn(w)
           q == Acked(r)
           n == sends[x.turn]
           s == IF w \in Recoverers THEN At(w, "defer") ELSE Idle
<1>0. TypeOK /\ x.pc = "ack" /\ UNCHANGED <<sends, gens>>
  BY DEF IInv, Ack, history
<1>1. /\ r \in Turns /\ x \in Works /\ Fine(w, x, r, n, gens) /\ RowFine(r, n, gens)
      /\ Unfinished(r) <=> r.outcome = "none"
      /\ work \in [Actors -> Works]
  BY <1>0, Now
<1>2. CanAck(r) => Foreign(r, q) /\ Advances(r, q)
  <2>1. CanAck(r) => Foreign(r, q)
    BY <1>1, ForeignRows
  <2> HIDE DEF q
  <2> QED BY <2>1 DEF Foreign
<1> HIDE DEF q
<1>3. CanAck(r) => RowFine(q, n, gens)
  BY <1>1, <1>2, RowKept
<1>4. (s = Idle \/ s.turn = x.turn) /\ Fine(w, s, q, n, gens)
  <2>1. /\ At(w, "defer").pc = "defer" /\ At(w, "defer").turn = x.turn
        /\ At(w, "defer").kind = x.kind
    BY <1>1, AtPoint
  <2>2. Fine(w, At(w, "defer"), q, n, gens)
    BY <1>1, <2>1, FineApart
  <2> QED BY <2>1, <2>2, FineIdle
<1>5. \/ CanAck(r) /\ Store(w, q) /\ work' = [work EXCEPT ![w] = s]
      \/ OnError(w) /\ (UNCHANGED turns \/ (CanAck(r) /\ Store(w, q)))
  <2>1. Stays(w, "defer") => work' = [work EXCEPT ![w] = At(w, "defer")]
    BY <1>1 DEF Stays, Goto, At
  <2> QED BY <2>1 DEF Ack, Done, q
<1> HIDE DEF s
<1>6. x.pc \in ErrorPoints \ {"open"}
  BY <1>0 DEF ErrorPoints, Points
<1> QED BY <1>0, <1>2, <1>3, <1>4, <1>5, <1>6, CallFine

LEMMA TurnResume ==
  ASSUME IInv, TurnInv, NEW w \in Recoverers, Resume(w)
  PROVE  TurnInv'
<1> DEFINE x == work[w]
           r == Turn(w)
           q == Interrupted(r)
           n == sends[x.turn]
           s == AckPath(w, x.turn, q.proj, TRUE)
<1>0. TypeOK /\ w \in Actors /\ x.pc = "resume" /\ UNCHANGED <<sends, gens>>
  BY DEF IInv, Actors, Resume
<1>1. /\ r \in Turns /\ x \in Works /\ Fine(w, x, r, n, gens) /\ RowFine(r, n, gens)
      /\ Unfinished(r) <=> r.outcome = "none"
      /\ work \in [Actors -> Works]
  BY <1>0, Now
<1>2. CASE Stays(w, "defer") /\ UNCHANGED turns
  <2>1. At(w, "defer").pc = "defer" /\ At(w, "defer").kind = x.kind
    BY <1>0, <1>1, AtPoint
  <2>2. work' = [work EXCEPT ![w] = At(w, "defer")]
    BY <1>1, <1>2 DEF Stays, Goto, At
  <2>3. \A t, m, hs : Fine(w, At(w, "defer"), t, m, hs)
    BY <1>1, <2>1, FineApart
  <2> QED BY <1>0, <1>2, <2>2, <2>3, OneCall
<1>3. CASE Call(w, CanInterrupt(r), q, s)
  <2>1. s.turn = x.turn
    BY <1>1 DEF AckPath, Works
  <2> HIDE DEF s
  <2>2. ASSUME CanInterrupt(r)
        PROVE  Foreign(r, q) /\ Advances(r, q) /\ RowFine(q, n, gens) /\ Fine(w, s, q, n, gens)
    <3>1. Foreign(r, q) /\ Advances(r, q) /\ ~Unfinished(q)
      <4>1. Foreign(r, q) /\ ~Unfinished(q)
        BY <1>1, <2>2, ForeignRows
      <4> HIDE DEF q
      <4> QED BY <4>1 DEF Foreign
    <3> HIDE DEF q
    <3>2. "receipt" \notin Kinds => x.kind # "receipt"
      BY <1>1 DEF Fine, Counts
    <3>3. Fine(w, s, q, n, gens)
      BY <1>0, <1>1, <3>1, <3>2, AckPathFine DEF s
    <3> QED BY <1>1, <3>1, <3>3, RowKept
  <2>3. x.pc \in ErrorPoints \ {"open"}
    BY <1>0 DEF ErrorPoints, Points
  <2> HIDE DEF q
  <2> QED BY <1>0, <1>3, <2>1, <2>2, <2>3, CallFine DEF Call
<1> QED BY <1>2, <1>3 DEF Resume

LEMMA TurnDefer ==
  ASSUME IInv, TurnInv, NEW w \in Recoverers, Defer(w)
  PROVE  TurnInv'
<1> DEFINE k == work[w].turn
           r == Turn(w)
           q == Deferred(r)
<1>0. /\ TypeOK /\ w \in Actors /\ work[w].pc = "defer" /\ UNCHANGED <<sends, gens>>
      /\ work' = [work EXCEPT ![w] = Idle]
  BY DEF IInv, Actors, Defer, Done, history
<1>1. /\ k \in DOMAIN turns /\ r = turns[k] /\ r \in Turns /\ RowFine(r, sends[k], gens)
      /\ Unfinished(r) <=> r.outcome = "none"
  BY <1>0, Now
<1>2. Foreign(r, q) /\ Advances(r, q)
  BY <1>1, ForeignRows DEF Foreign
<1> HIDE DEF q
<1>3. RowFine(q, sends[k], gens)
  BY <1>1, <1>2, RowKept
<1>4. CASE UNCHANGED turns
  BY <1>0, <1>4, OneCall, FineIdle
<1>5. CASE Store(w, q)
  BY <1>0, <1>1, <1>2, <1>3, <1>5, OneRow, FineIdle DEF Store
<1> QED BY <1>4, <1>5 DEF Defer, q

LEMMA TurnScan ==
  ASSUME IInv, TurnInv, NEW w \in Recoverers, Scan(w) \/ Lease(w) \/ LeaseLost(w)
  PROVE  TurnInv'
<1> DEFINE x == work[w]
<1>0. /\ TypeOK /\ w \in Actors /\ UNCHANGED <<turns, sends, gens>>
      /\ x \in Works /\ work \in [Actors -> Works]
      /\ Fine(w, x, turns[x.turn], sends[x.turn], gens)
  BY DEF IInv, Actors, Scan, Lease, LeaseLost, history, TypeOK, Works, TurnInv, CallsFine
<1>1. ASSUME NEW p \in {"resume", "defer"}, Goto(w, p) PROVE TurnInv'
  <2>1. At(w, p).pc = p /\ At(w, p).kind = x.kind
    BY <1>0, AtPoint
  <2>2. work' = [work EXCEPT ![w] = At(w, p)]
    BY <1>0, <1>1 DEF Goto, At
  <2>3. \A t, m, hs : Fine(w, At(w, p), t, m, hs)
    BY <1>0, <2>1, FineApart
  <2> QED BY <1>0, <2>2, <2>3, OneCall
<1>2. ASSUME NEW i, NEW c, work' = [work EXCEPT ![w] = [Idle EXCEPT !.pc = "lease", !.turn = i, !.copy = c]]
      PROVE  TurnInv'
  <2> DEFINE s == [Idle EXCEPT !.pc = "lease", !.turn = i, !.copy = c]
  <2>1. s.pc = "lease" /\ s.kind = Idle.kind
    BY DEF Idle
  <2>2. work' = [work EXCEPT ![w] = s]
    BY <1>2
  <2> HIDE DEF s
  <2>3. \A t, m, hs : Fine(w, s, t, m, hs)
    BY <2>1, FineIdle, FineApart
  <2> QED BY <1>0, <2>2, <2>3, OneCall
<1>3. CASE work' = [work EXCEPT ![w] = Idle]
  BY <1>0, <1>3, OneCall, FineIdle
<1>4. CASE Scan(w)
  BY <1>2, <1>4 DEF Scan
<1>5. CASE Lease(w)
  BY <1>1, <1>3, <1>5 DEF Lease
<1>6. CASE LeaseLost(w)
  BY <1>1, <1>6 DEF LeaseLost, Stays
<1> QED BY <1>4, <1>5, <1>6

LEMMA InitTurnInv == ASSUME ReplyAssumption, Init PROVE TurnInv
<1>1. CallsFine
  BY FineIdle DEF Init, CallsFine
<1>2. DOMAIN turns = {}
  BY DEF Init
<1> QED BY <1>1, <1>2 DEF Init, TurnInv, RowsFine, RanOwned

LEMMA NextTurnInv == ASSUME ReplyAssumption, IInv, TurnInv, [Next]_vars PROVE TurnInv'
<1>1. Workers \subseteq Actors /\ Recoverers \subseteq Actors /\ TypeOK
  BY DEF Actors, IInv
<1>2. ASSUME NEW w \in Actors, Acknowledge(w) PROVE TurnInv'
  BY <1>2, TurnRepair, TurnCleared, TurnAck DEF Acknowledge
<1>3. ASSUME NEW w \in Workers, Respond(w) PROVE TurnInv'
  BY <1>3, TurnOpen, TurnGenerate, TurnSave, TurnStart, TurnSend, TurnFinish, TurnProject,
     TurnGiveUp, TurnClose DEF Respond
<1>4. ASSUME NEW v \in Recoverers, Recover(v) PROVE TurnInv'
  BY <1>1, <1>2, <1>4, TurnScan, TurnResume, TurnDefer DEF Recover
<1>5. ASSUME NEW i \in DOMAIN turns, Lapse(i) \/ FallsDue(i) PROVE TurnInv'
  BY <1>1, <1>5, TurnClocks
<1>6. CASE UNCHANGED vars
  BY <1>6, NoCall DEF vars
<1>7. CASE \/ \E m \in Messages : Arrive(m) \/ MarkExpires(m) \/ \E w \in Workers : ArriveDirect(w, m)
           \/ \E w \in Workers : StartJob(w)
           \/ PendingExpires \/ LockExpires
           \/ \E w \in Actors : Crash(w)
  BY <1>1, <1>7, TurnArrivals
<1> QED BY <1>1, <1>2, <1>3, <1>4, <1>5, <1>6, <1>7 DEF Next

\* Every reachable state has the invariant of the turns.
LEMMA TurnsInvariant == ASSUME ReplyAssumption PROVE Spec => [](IInv /\ TurnInv)
<1>1. Init => IInv /\ TurnInv
  BY InitIInv, InitTurnInv
<1>2. IInv /\ TurnInv /\ [Next]_vars => (IInv /\ TurnInv)'
  BY NextIInv, NextTurnInv
<1> QED BY <1>1, <1>2, PTL DEF Spec

\* GeneratedOnce for every instance: however often callbacks are redelivered, jobs retried and
\* turns recovered, the model and its tools ran at most once for a message (a turn is generated
\* by the call that inserted it, before its effects are saved, and a message never gets a
\* second turn).
THEOREM OnePass == Spec => []GeneratedOnce
<1>1. TurnInv => GeneratedOnce
  BY DEF TurnInv, RanOwned, GeneratedOnce
<1> QED BY <1>1, TurnsInvariant, ReplyAssumption, PTL

\* LiveNotPreempted for every instance: while generation_until is ahead, nobody closes the turn
\* of a worker that generates or delivers (CanInterrupt waits for it, CanSettle asks for the
\* owner, and the owner settles only after its own delivery).
THEOREM NotPreempted == Spec => []LiveNotPreempted
<1>1. IInv /\ TurnInv => LiveNotPreempted
  <2> SUFFICES ASSUME IInv, TurnInv, NEW w \in Workers,
                      work[w].pc \in {"generate", "save", "resave", "start", "check", "wire"}, Turn(w).live
               PROVE  Unfinished(Turn(w))
    BY DEF LiveNotPreempted
  <2>1. w \in Actors /\ Fine(w, work[w], Turn(w), sends[work[w].turn], gens)
    BY DEF Actors, TurnInv, CallsFine, Turn
  <2> QED BY <2>1 DEF Fine, Early
<1> QED BY <1>1, TurnsInvariant, ReplyAssumption, PTL

\* HonestResult for every instance whose turns send no receipts: a result other than unknown
\* and interrupted counts exactly the accepted segments, whoever stores it (the call counts
\* what it sends, and a refused or unconfirmed settle is repeated with the same count).  With
\* receipts it is false: their results are forgotten before the turn is settled.
THEOREM HonestCount == ASSUME "receipt" \notin Kinds PROVE Spec => []HonestResult
<1>1. TurnInv => HonestResult
  BY DEF TurnInv, RowsFine, RowFine, Honest, HonestResult
<1> QED BY <1>1, TurnsInvariant, ReplyAssumption, PTL

-----------------------------------------------------------------------------
(***************************************************************************)
(* What a step does to the turns: it inserts one, runs the model for one,  *)
(* advances the row of one, or leaves them alone.                          *)
(***************************************************************************)

\* A transition that does not acknowledge.
Retained(r, s) == Advances(r, s) /\ (s.status = "acked" <=> r.status = "acked")

Inserts ==
  \E w \in Workers, b \in SUBSET Messages :
    /\ b # {} /\ Owners(b) = {} /\ Blocking = {}
    /\ turns' = Append(turns, NewTurn(w, b)) /\ UNCHANGED <<gens, repaired>>

Runs ==
  \E k \in DOMAIN turns :
    /\ turns[k].status # "acked" /\ Ran(turns[k], 0, gens)
    /\ gens' = [m \in Messages |-> IF m \in turns[k].inputs THEN gens[m] + 1 ELSE gens[m]]
    /\ UNCHANGED <<turns, repaired>>

Moved(k) ==
  \E r : turns' = [turns EXCEPT ![k] = r] /\ Retained(turns[k], r) /\ UNCHANGED gens

Repairs ==
  \E k \in DOMAIN turns : Moved(k) /\ Ran(turns[k], 1, gens) /\ repaired' = repaired \cup {k}

Closes ==
  \E k \in DOMAIN turns :
    /\ turns' = [turns EXCEPT ![k] = Acked(turns[k])] /\ Advances(turns[k], Acked(turns[k]))
    /\ UNCHANGED <<gens, repaired>>

TurnSteps ==
  \/ Inserts \/ Runs \/ Repairs \/ Closes
  \/ \E k \in DOMAIN turns : Moved(k) /\ UNCHANGED repaired
  \/ UNCHANGED <<turns, gens, repaired>>

LEMMA StayRows ==
  ASSUME NEW r \in Turns, Unfinished(r) <=> r.outcome = "none"
  PROVE  /\ Retained(r, r)
         /\ \A w : CanSave(r, w) => Retained(r, EffectsSaved(r))
         /\ \A w : CanStart(r, w) => Retained(r, Started(r))
         /\ \A o \in Outcomes \ {"none"}, n \in Nat : Retained(r, Settled(r, o, n))
         /\ CanInterrupt(r) => Retained(r, Interrupted(r))
         /\ Retained(r, Projected(r)) /\ Retained(r, Deferred(r))
         /\ Retained(r, [r EXCEPT !.live = FALSE])
         /\ Retained(r, [r EXCEPT !.due = TRUE])
<1>1. /\ Advances(r, r) /\ Advances(r, Projected(r)) /\ Advances(r, Deferred(r))
      /\ CanInterrupt(r) => Advances(r, Interrupted(r))
      /\ Advances(r, [r EXCEPT !.live = FALSE]) /\ Advances(r, [r EXCEPT !.due = TRUE])
  BY ForeignRows DEF Foreign
<1>2. /\ \A w : CanSave(r, w) => Advances(r, EffectsSaved(r))
      /\ \A w : CanStart(r, w) => Advances(r, Started(r))
      /\ \A o \in Outcomes \ {"none"}, n \in Nat : Advances(r, Settled(r, o, n))
  BY OwnRows
<1> USE DEF Turns, Unfinished
<1>3. \A w : CanSave(r, w) => EffectsSaved(r).status = r.status
  BY DEF EffectsSaved
<1>4. \A w : CanStart(r, w) => Started(r).status # "acked" /\ r.status # "acked"
  BY DEF Started, CanStart
<1>5. \A o, n : Settled(r, o, n).status = "acked" <=> r.status = "acked"
  BY DEF Settled
<1>6. Interrupted(r).status = "acked" <=> r.status = "acked"
  BY DEF Interrupted
<1>7. Projected(r).status = r.status /\ Deferred(r).status = r.status
  BY DEF Projected, Deferred
<1>8. [r EXCEPT !.live = FALSE].status = r.status /\ [r EXCEPT !.due = TRUE].status = r.status
  OBVIOUS
<1> QED BY <1>1, <1>2, <1>3, <1>4, <1>5, <1>6, <1>7, <1>8 DEF Retained

\* A call of the stored procedure that does not acknowledge.
LEMMA CallMoves ==
  ASSUME TypeOK, TurnInv, NEW w \in Actors, work[w].pc \notin {"idle", "open"},
         NEW g, NEW r, NEW s, Call(w, g, r, s), g => Retained(Turn(w), r), UNCHANGED gens
  PROVE  Moved(work[w].turn)
<1>1. /\ work[w].turn \in DOMAIN turns /\ Turn(w) = turns[work[w].turn]
      /\ Retained(Turn(w), Turn(w))
  BY Now, StayRows
<1>2. CASE turns' = turns
  <2>1. turns = [turns EXCEPT ![work[w].turn] = Turn(w)]
    BY <1>1 DEF TypeOK
  <2> QED BY <1>1, <1>2, <2>1 DEF Moved
<1>3. CASE g /\ Store(w, r)
  BY <1>1, <1>3 DEF Moved, Store
<1> QED BY <1>2, <1>3 DEF Call

LEMMA MoveSteps ==
  ASSUME IInv, TurnInv, NEW w \in Actors, work[w].pc \notin {"idle", "open"},
         \/ SaveEffects(w) \/ StartDelivery(w) \/ FinishOrdinary(w) \/ GiveUp(w) \/ Close(w)
         \/ Resume(w) \/ Defer(w)
  PROVE  TurnSteps
<1> DEFINE x == work[w]
           r == Turn(w)
           n == sends[x.turn]
<1>1. /\ TypeOK /\ x.turn \in DOMAIN turns /\ r = turns[x.turn] /\ r \in Turns /\ x \in Works
      /\ Fine(w, x, r, n, gens) /\ UNCHANGED <<gens, repaired>>
  BY Now DEF IInv, SaveEffects, StartDelivery, FinishOrdinary, GiveUp, Close, Resume, Defer, history
<1>2. Unfinished(r) <=> r.outcome = "none"
  BY <1>1, Now
<1>3. Moved(x.turn) => TurnSteps
  BY <1>1 DEF TurnSteps
<1>4. ASSUME NEW g, NEW q, NEW s, Call(w, g, q, s), g => Retained(r, q) PROVE TurnSteps
  BY <1>1, <1>3, <1>4, CallMoves
<1>5. CASE SaveEffects(w)
  <2>1. CanSave(r, w) => Retained(r, EffectsSaved(r))
    BY <1>1, <1>2, StayRows
  <2> QED BY <1>4, <1>5, <2>1 DEF SaveEffects
<1>6. CASE StartDelivery(w)
  <2>1. CanStart(r, w) => Retained(r, Started(r))
    BY <1>1, <1>2, StayRows
  <2> QED BY <1>4, <1>6, <2>1 DEF StartDelivery
<1>7. \A o \in Outcomes \ {"none"}, c \in Nat : Retained(r, Settled(r, o, c))
  BY <1>1, <1>2, StayRows
<1>8. CASE FinishOrdinary(w)
  <2>1. x.res \in Outcomes \ {"none"} /\ x.k \in Nat
    BY <1>1, <1>8 DEF Fine, Works, FinishOrdinary
  <2>2. Retained(r, Settled(r, x.res, x.k))
    BY <1>7, <2>1
  <2> QED BY <1>4, <1>8, <2>2 DEF FinishOrdinary
<1>9. CASE GiveUp(w)
  <2> DEFINE o == IF x.res = "unknown" THEN "unknown" ELSE "incomplete"
             q == Settled(r, o, x.k)
             s == AckPath(w, x.turn, q.proj, TRUE)
  <2>1. Call(w, CanSettle(r, w), q, s)
    BY <1>9 DEF GiveUp, Counted
  <2>2. o \in Outcomes \ {"none"} /\ x.k \in Nat
    BY <1>1 DEF Works, Outcomes
  <2>3. Retained(r, q)
    BY <1>7, <2>2
  <2> QED BY <1>4, <2>1, <2>3
<1>10. CASE Close(w)
  <2> DEFINE q == Settled(r, "skipped", 0)
             s == AckPath(w, x.turn, q.proj, FALSE)
  <2>1. Call(w, CanSettle(r, w), q, s)
    BY <1>10 DEF Close
  <2>2. Retained(r, q)
    BY <1>7 DEF Outcomes
  <2> QED BY <1>4, <2>1, <2>2
<1>11. CASE Resume(w)
  <2> DEFINE q == Interrupted(r)
             s == AckPath(w, x.turn, q.proj, TRUE)
  <2>1. CanInterrupt(r) => Retained(r, q)
    BY <1>1, <1>2, StayRows
  <2>2. UNCHANGED turns \/ Call(w, CanInterrupt(r), q, s)
    BY <1>11 DEF Resume
  <2>3. CASE UNCHANGED turns
    BY <1>1, <2>3 DEF TurnSteps
  <2> QED BY <1>4, <2>1, <2>2, <2>3
<1>12. CASE Defer(w)
  <2>1. Retained(r, Deferred(r))
    BY <1>1, <1>2, StayRows
  <2>2. CASE UNCHANGED turns
    BY <1>1, <2>2 DEF TurnSteps
  <2>3. CASE Store(w, Deferred(r))
    BY <1>1, <1>3, <2>1, <2>3 DEF Moved, Store
  <2> QED BY <1>12, <2>2, <2>3 DEF Defer
<1> QED BY <1>5, <1>6, <1>8, <1>9, <1>10, <1>11, <1>12

LEMMA RepairSteps ==
  ASSUME IInv, TurnInv, NEW w \in Actors, RepairEffects(w) \/ CompleteProjection(w)
  PROVE  TurnSteps
<1> DEFINE x == work[w]
           r == Turn(w)
<1>0. /\ TypeOK /\ x.pc \in {"repair", "project"} /\ UNCHANGED gens /\ Aware(x, turns)
  BY DEF IInv, RepairEffects, CompleteProjection, AllAware
<1>1. /\ x.turn \in DOMAIN turns /\ r = turns[x.turn] /\ r \in Turns
      /\ Fine(w, x, r, sends[x.turn], gens) /\ RowFine(r, sends[x.turn], gens)
      /\ Unfinished(r) <=> r.outcome = "none"
  BY <1>0, Now
<1>2. Retained(r, r) /\ Retained(r, Projected(r))
  BY <1>1, StayRows
<1>3. ASSUME NEW g, NEW s, Call(w, g, Projected(r), s) PROVE Moved(x.turn)
  BY <1>0, <1>2, <1>3, CallMoves
<1>4. CASE CompleteProjection(w)
  <2>1. Moved(x.turn) /\ repaired' = repaired \cup {x.turn}
    BY <1>3, <1>4 DEF CompleteProjection
  <2>2. Ran(r, 1, gens)
    BY <1>1, <1>4 DEF Fine, Answers, OwnPoints, CompleteProjection
  <2> QED BY <1>1, <2>1, <2>2 DEF TurnSteps, Repairs
<1>5. CASE RepairEffects(w) /\ x.copy = "pending"
  <2>1. Moved(x.turn) /\ repaired' = repaired \cup {x.turn}
    BY <1>3, <1>5 DEF RepairEffects
  <2>2. Ran(r, 1, gens)
    BY <1>0, <1>1, <1>5 DEF Aware, RowFine
  <2> QED BY <1>1, <2>1, <2>2 DEF TurnSteps, Repairs
<1>6. CASE RepairEffects(w) /\ x.copy # "pending"
  <2>1. Call(w, Confirmed(w), r, At(w, "remove")) /\ repaired' = repaired
    BY <1>6 DEF RepairEffects
  <2>2. Moved(x.turn)
    BY <1>0, <1>2, <2>1, CallMoves
  <2> QED BY <1>1, <2>1, <2>2 DEF TurnSteps
<1> QED BY <1>4, <1>5, <1>6

LEMMA AckCloses ==
  ASSUME IInv, TurnInv, NEW w \in Actors, Ack(w)
  PROVE  TurnSteps
<1>0. TypeOK /\ work[w].pc = "ack" /\ UNCHANGED <<gens, repaired>>
  BY DEF IInv, Ack, history
<1>1. /\ work[w].turn \in DOMAIN turns /\ Turn(w) = turns[work[w].turn] /\ Turn(w) \in Turns
      /\ Unfinished(Turn(w)) <=> Turn(w).outcome = "none"
  BY <1>0, Now
<1>2. CanAck(Turn(w)) => Advances(Turn(w), Acked(Turn(w)))
  BY <1>1, ForeignRows DEF Foreign
<1>3. CASE turns' = turns
  BY <1>0, <1>3 DEF TurnSteps
<1>4. CASE CanAck(Turn(w)) /\ Store(w, Acked(Turn(w)))
  BY <1>0, <1>1, <1>2, <1>4 DEF TurnSteps, Closes, Store
<1> QED BY <1>3, <1>4 DEF Ack

LEMMA OpenSteps ==
  ASSUME IInv, TurnInv, NEW w \in Workers, Open(w)
  PROVE  TurnSteps
<1> DEFINE b == work[w].batch
<1>1. /\ TypeOK /\ w \in Actors /\ b \in SUBSET Messages /\ UNCHANGED <<gens, repaired>>
      /\ Fine(w, work[w], turns[work[w].turn], sends[work[w].turn], gens) /\ work[w].pc = "open"
  BY DEF IInv, Actors, TypeOK, Open, TurnInv, CallsFine
<1>2. b # {}
  BY <1>1 DEF Fine
<1>3. CASE Owners(b) = {} /\ Blocking = {} /\ Insert(w)
  BY <1>1, <1>2, <1>3 DEF TurnSteps, Inserts, Insert
<1>4. CASE UNCHANGED turns
  BY <1>1, <1>4 DEF TurnSteps
<1>5. ASSUME NEW i \in Oldest(Owners(b)), CanInterrupt(turns[i]),
             turns' = [turns EXCEPT ![i] = Interrupted(@)]
      PROVE  TurnSteps
  <2>1. i \in DOMAIN turns /\ turns[i] \in Turns /\ RowFine(turns[i], sends[i], gens)
    BY <1>1, ElementOfSeq, LenProperties DEF Oldest, Owners, Sharing, TypeOK, TurnInv, RowsFine
  <2>2. Retained(turns[i], Interrupted(turns[i]))
    BY <1>5, <2>1, StayRows DEF RowFine
  <2>3. Moved(i)
    BY <1>1, <1>5, <2>2 DEF Moved
  <2> QED BY <1>1, <2>1, <2>3 DEF TurnSteps
<1> HIDE DEF b
<1> QED BY <1>3, <1>4, <1>5 DEF b, Open

LEMMA ClockMoves ==
  ASSUME IInv, TurnInv, NEW i \in DOMAIN turns, Lapse(i) \/ FallsDue(i)
  PROVE  TurnSteps
<1>1. turns[i] \in Turns /\ RowFine(turns[i], sends[i], gens) /\ UNCHANGED <<gens, repaired>>
  BY ElementOfSeq, LenProperties DEF IInv, TypeOK, TurnInv, RowsFine, Lapse, FallsDue, history
<1>2. Retained(turns[i], [turns[i] EXCEPT !.live = FALSE]) /\ Retained(turns[i], [turns[i] EXCEPT !.due = TRUE])
  BY <1>1, StayRows DEF RowFine
<1>3. PICK r \in {[turns[i] EXCEPT !.live = FALSE], [turns[i] EXCEPT !.due = TRUE]} :
        turns' = [turns EXCEPT ![i] = r]
  BY DEF Lapse, FallsDue
<1>4. Moved(i)
  BY <1>1, <1>2, <1>3 DEF Moved
<1> QED BY <1>1, <1>4 DEF TurnSteps

LEMMA GenerateRuns ==
  ASSUME IInv, TurnInv, NEW w \in Workers, Generate(w)
  PROVE  TurnSteps
<1>0. TypeOK /\ w \in Actors /\ work[w].pc = "generate" /\ UNCHANGED <<turns, repaired>>
  BY DEF IInv, Actors, Generate
<1>1. /\ work[w].turn \in DOMAIN turns /\ Turn(w) = turns[work[w].turn]
      /\ Fine(w, work[w], Turn(w), sends[work[w].turn], gens)
  BY <1>0, Now
<1>2. Turn(w).proj = "none" /\ Ran(Turn(w), 0, gens)
  BY <1>0, <1>1 DEF Fine
<1>3. Turn(w).status # "acked"
  BY <1>1, <1>2 DEF IInv, Handled
<1> QED BY <1>0, <1>1, <1>2, <1>3 DEF TurnSteps, Runs, Generate

LEMMA EveryStep == ASSUME ReplyAssumption, IInv, TurnInv, [Next]_vars PROVE TurnSteps
<1>1. Workers \subseteq Actors /\ Recoverers \subseteq Actors
  BY DEF Actors
<1>2. UNCHANGED <<turns, gens, repaired>> => TurnSteps
  BY DEF TurnSteps
<1>3. ASSUME NEW w \in Actors, Acknowledge(w) PROVE TurnSteps
  BY <1>2, <1>3, RepairSteps, AckCloses
     DEF Acknowledge, RepairFails, RemovePending, MarkProcessed, history
<1>4. ASSUME NEW w \in Workers, Respond(w) PROVE TurnSteps
  <2>1. CASE CheckDelivery(w) \/ SendSegment(w)
    BY <1>2, <2>1 DEF CheckDelivery, SendSegment, history
  <2>2. CASE SaveEffects(w) \/ StartDelivery(w) \/ FinishOrdinary(w) \/ GiveUp(w) \/ Close(w)
    <3>1. work[w].pc \notin {"idle", "open"}
      BY <2>2 DEF SaveEffects, StartDelivery, FinishOrdinary, GiveUp, Close
    <3> QED BY <1>1, <2>2, <3>1, MoveSteps
  <2> QED BY <1>1, <1>4, <2>1, <2>2, OpenSteps, GenerateRuns, RepairSteps DEF Respond
<1>5. ASSUME NEW v \in Recoverers, Recover(v) PROVE TurnSteps
  <2>1. CASE Scan(v) \/ Lease(v) \/ LeaseLost(v)
    BY <1>2, <2>1 DEF Scan, Lease, LeaseLost, history
  <2>2. CASE Resume(v) \/ Defer(v)
    <3>1. work[v].pc \notin {"idle", "open"}
      BY <2>2 DEF Resume, Defer
    <3> QED BY <1>1, <2>2, <3>1, MoveSteps
  <2> QED BY <1>1, <1>3, <1>5, <2>1, <2>2 DEF Recover
<1>6. CASE UNCHANGED vars
  BY <1>2, <1>6 DEF vars
<1>7. CASE \/ \E m \in Messages : Arrive(m) \/ MarkExpires(m) \/ \E w \in Workers : ArriveDirect(w, m)
           \/ \E w \in Workers : StartJob(w)
           \/ PendingExpires \/ LockExpires
           \/ \E w \in Actors : Crash(w)
  BY <1>2, <1>7 DEF Arrive, MarkExpires, ArriveDirect, StartJob, PendingExpires, LockExpires, Crash, history
<1> QED BY <1>1, <1>3, <1>4, <1>5, <1>6, <1>7, ClockMoves DEF Next

\* Rows are never removed, and no step goes back on one.
LEMMA RowsAdvance ==
  ASSUME TypeOK, RowsFine, TurnSteps, NEW i \in DOMAIN turns
  PROVE  i \in DOMAIN turns' /\ Advances(turns[i], turns'[i])
<1>1. turns[i] \in Turns /\ RowFine(turns[i], sends[i], gens)
  BY ElementOfSeq, LenProperties DEF TypeOK, RowsFine
<1>2. Advances(turns[i], turns[i])
  BY <1>1, ForeignRows DEF RowFine, Foreign
<1>3. ASSUME NEW k \in DOMAIN turns, NEW r, turns' = [turns EXCEPT ![k] = r], Advances(turns[k], r)
      PROVE  i \in DOMAIN turns' /\ Advances(turns[i], turns'[i])
  BY <1>2, <1>3
<1>4. CASE Inserts
  <2>1. PICK w \in Workers, b \in SUBSET Messages : turns' = Append(turns, NewTurn(w, b))
    BY <1>4 DEF Inserts
  <2>2. NewTurn(w, b) \in Turns
    BY DEF NewTurn, Turns, TurnStatuses, Projections, Outcomes
  <2>3. i \in DOMAIN turns' /\ turns'[i] = turns[i]
    BY <2>1, <2>2, AppendProperties, LenProperties DEF TypeOK
  <2> QED BY <1>2, <2>3
<1> QED BY <1>2, <1>3, <1>4 DEF TurnSteps, Runs, Repairs, Closes, Moved, Retained

\* ResultFrozen for every instance: a stored result is what it was for good, whichever late
\* worker settles, whichever scan interrupts and however often either repeats it.
THEOREM ResultsStay == Spec => ResultFrozen
<1>1. IInv /\ TurnInv /\ [Next]_vars =>
        [\A i \in DOMAIN turns : turns[i].outcome # "none" =>
           turns'[i].outcome = turns[i].outcome /\ turns'[i].accepted = turns[i].accepted]_vars
  <2> SUFFICES ASSUME IInv, TurnInv, [Next]_vars, NEW i \in DOMAIN turns, turns[i].outcome # "none"
               PROVE  turns'[i].outcome = turns[i].outcome /\ turns'[i].accepted = turns[i].accepted
    OBVIOUS
  <2>1. ~Unfinished(turns[i])
    BY DEF TurnInv, RowsFine, RowFine
  <2>2. Advances(turns[i], turns'[i])
    BY EveryStep, RowsAdvance, ReplyAssumption DEF IInv, TurnInv
  <2> QED BY <2>1, <2>2 DEF Advances
<1> QED BY <1>1, TurnsInvariant, ReplyAssumption, PTL DEF Spec, ResultFrozen

-----------------------------------------------------------------------------
(* The pending list. *)

\* Only the expiry of the list and the acknowledgement of a turn take messages off it.
LEMMA PendingSteps ==
  ASSUME [Next]_vars
  PROVE  \/ pending \subseteq pending' \/ PendingExpires
         \/ \E w \in Actors : /\ work[w].pc = "remove" /\ UNCHANGED turns
                              /\ pending' = pending \ Answered(w)
<1> DEFINE Fits == \/ pending \subseteq pending' \/ PendingExpires
                   \/ \E w \in Actors : /\ work[w].pc = "remove" /\ UNCHANGED turns
                                        /\ pending' = pending \ Answered(w)
<1>1. Workers \subseteq Actors /\ Recoverers \subseteq Actors
  BY DEF Actors
<1>2. ASSUME NEW w \in Actors, Defers(w) \/ Done(w) \/ AfterFailure(w) \/ \E p : Stays(w, p)
      PROVE  pending \subseteq pending'
  BY <1>2 DEF Defers, Done, AfterFailure, Stays
<1>3. ASSUME NEW w \in Actors, work[w].pc \in ErrorPoints, OnError(w)
      PROVE  pending \subseteq pending'
  BY <1>2, <1>3 DEF OnError, ErrorPoints, Points
<1>4. ASSUME NEW w \in Actors, work[w].pc \in ErrorPoints, NEW g, NEW r, NEW s, Call(w, g, r, s)
      PROVE  pending \subseteq pending'
  BY <1>3, <1>4 DEF Call
<1>5. ASSUME NEW w \in Actors, Acknowledge(w) PROVE Fits
  <2>1. CASE RepairEffects(w)
    <3>1. work[w].pc \in ErrorPoints
      BY <2>1 DEF RepairEffects, ErrorPoints, Points
    <3> QED BY <1>4, <2>1, <3>1 DEF RepairEffects
  <2>2. CASE RepairFails(w)
    <3>1. work[w].pc \in ErrorPoints
      BY <2>2 DEF RepairFails, ErrorPoints, Points
    <3> QED BY <1>3, <2>2, <3>1 DEF RepairFails
  <2>3. CASE RemovePending(w)
    <3>1. work[w].pc \in ErrorPoints
      BY <2>3 DEF RemovePending, ErrorPoints, Points
    <3> QED BY <1>3, <2>3, <3>1 DEF RemovePending, history
  <2>4. CASE MarkProcessed(w)
    <3>1. work[w].pc \in ErrorPoints
      BY <2>4 DEF MarkProcessed, ErrorPoints, Points
    <3> QED BY <1>2, <1>3, <2>4, <3>1 DEF MarkProcessed
  <2>5. CASE Ack(w)
    <3>1. work[w].pc \in ErrorPoints
      BY <2>5 DEF Ack, ErrorPoints, Points
    <3> QED BY <1>2, <1>3, <2>5, <3>1 DEF Ack
  <2> QED BY <1>5, <2>1, <2>2, <2>3, <2>4, <2>5 DEF Acknowledge
<1>6. ASSUME NEW w \in Workers, Respond(w) PROVE pending \subseteq pending'
  <2>1. CASE Open(w)
    BY <1>1, <1>2, <2>1 DEF Open
  <2>2. CASE Generate(w)
    BY <1>1, <1>2, <2>2 DEF Generate
  <2>3. CASE CheckDelivery(w) \/ SendSegment(w)
    BY <2>3 DEF CheckDelivery, SendSegment, inbox
  <2>4. CASE \/ SaveEffects(w) \/ StartDelivery(w) \/ FinishOrdinary(w) \/ CompleteProjection(w)
             \/ GiveUp(w) \/ Close(w)
    <3>1. work[w].pc \in ErrorPoints
      BY <2>4 DEF SaveEffects, StartDelivery, FinishOrdinary, CompleteProjection, GiveUp, Close,
         ErrorPoints, Points
    <3> QED BY <1>1, <1>4, <2>4, <3>1
        DEF SaveEffects, StartDelivery, FinishOrdinary, CompleteProjection, GiveUp, Close
  <2> QED BY <1>6, <2>1, <2>2, <2>3, <2>4 DEF Respond
<1>7. ASSUME NEW v \in Recoverers, Recover(v) PROVE Fits
  <2>1. CASE Scan(v) \/ Lease(v)
    BY <2>1 DEF Scan, Lease, inbox
  <2>2. CASE LeaseLost(v) \/ Defer(v)
    BY <1>1, <1>2, <2>2 DEF LeaseLost, Defer
  <2>3. CASE Resume(v)
    <3>1. work[v].pc \in ErrorPoints
      BY <2>3 DEF Resume, ErrorPoints, Points
    <3> QED BY <1>1, <1>2, <1>4, <2>3, <3>1 DEF Resume
  <2> QED BY <1>1, <1>5, <1>7, <2>1, <2>2, <2>3 DEF Recover
<1>8. CASE UNCHANGED vars
  BY <1>8 DEF vars
<1>9. CASE \/ \E m \in Messages : Arrive(m) \/ MarkExpires(m) \/ \E w \in Workers : ArriveDirect(w, m)
           \/ \E w \in Workers : StartJob(w)
           \/ LockExpires
           \/ \E w \in Actors : Crash(w)
           \/ \E i \in DOMAIN turns : Lapse(i) \/ FallsDue(i)
  BY <1>9 DEF Arrive, MarkExpires, ArriveDirect, StartJob, LockExpires, Crash, Lapse, FallsDue, inbox
<1> QED BY <1>1, <1>5, <1>6, <1>7, <1>8, <1>9 DEF Next

\* NothingSwallowed for every instance: apart from its expiry the list only loses messages of a
\* turn that is closed with its effects repaired, though the caller removes them from what it
\* read of the turn some calls ago (nobody reopens a closed turn or takes back a projection).
THEOREM NoneSwallowed == Spec => NothingSwallowed
<1>1. IInv /\ TurnInv /\ [Next]_vars =>
        [PendingExpires \/
         \A m \in pending \ pending' :
           \E i \in DOMAIN turns :
             m \in turns[i].inputs /\ ~Unfinished(turns[i]) /\ turns[i].proj = "complete"]_vars
  <2> SUFFICES ASSUME IInv, TurnInv, [Next]_vars, ~PendingExpires, NEW m \in pending \ pending'
               PROVE  \E i \in DOMAIN turns :
                        m \in turns[i].inputs /\ ~Unfinished(turns[i]) /\ turns[i].proj = "complete"
    OBVIOUS
  <2>1. PICK w \in Actors : work[w].pc = "remove" /\ pending' = pending \ Answered(w)
    BY PendingSteps
  <2>2. /\ work[w].turn \in DOMAIN turns /\ Turn(w) = turns[work[w].turn]
        /\ Fine(w, work[w], Turn(w), sends[work[w].turn], gens)
    BY <2>1, Now DEF IInv
  <2>3. ~Unfinished(Turn(w)) /\ Turn(w).proj = "complete"
    BY <2>1, <2>2 DEF Fine, AckPoints
  <2> QED BY <2>1, <2>2, <2>3 DEF Answered
<1> QED BY <1>1, TurnsInvariant, ReplyAssumption, PTL DEF Spec, NothingSwallowed

-----------------------------------------------------------------------------
(* The turns implement ReplyOutcome. *)

OwnerIn(m, ts) == {i \in DOMAIN ts : m \in ts[i].inputs}

PhaseIn(m, ts) ==
  IF OwnerIn(m, ts) = {} THEN "waiting"
  ELSE IF \A i \in OwnerIn(m, ts) : ts[i].status = "acked" THEN "closed" ELSE "owned"

HandledIn(m, ts, rs) == \E i \in OwnerIn(m, ts) : i \in rs

\* What the phases and effects of the messages say of their turns.
LEMMA Phases ==
  ASSUME OneTurnAtATime, NEW m \in Messages
  PROVE  /\ \A i \in DOMAIN turns : m \in turns[i].inputs =>
              /\ OwnerIn(m, turns) = {i}
              /\ turns[i].status = "acked" => PhaseIn(m, turns) = "closed"
              /\ turns[i].status # "acked" => PhaseIn(m, turns) = "owned"
              /\ \A rs : HandledIn(m, turns, rs) <=> i \in rs
         /\ OwnerIn(m, turns) = {} => PhaseIn(m, turns) = "waiting"
                                      /\ \A rs : ~HandledIn(m, turns, rs)
         /\ \A i \in DOMAIN turns : turns[i].status # "acked" =>
              (PhaseIn(m, turns) = "owned" <=> m \in turns[i].inputs)
<1>1. ASSUME NEW i \in DOMAIN turns, m \in turns[i].inputs
      PROVE  OwnerIn(m, turns) = {i}
  BY <1>1 DEF OneTurnAtATime, OwnerIn
<1>2. ASSUME NEW i \in DOMAIN turns, m \in turns[i].inputs
      PROVE  /\ turns[i].status = "acked" => PhaseIn(m, turns) = "closed"
             /\ turns[i].status # "acked" => PhaseIn(m, turns) = "owned"
             /\ \A rs : HandledIn(m, turns, rs) <=> i \in rs
  BY <1>1, <1>2 DEF PhaseIn, HandledIn
<1>3. ASSUME OwnerIn(m, turns) = {}
      PROVE  PhaseIn(m, turns) = "waiting" /\ \A rs : ~HandledIn(m, turns, rs)
  BY <1>3 DEF PhaseIn, HandledIn
<1>4. ASSUME NEW i \in DOMAIN turns, turns[i].status # "acked", PhaseIn(m, turns) = "owned"
      PROVE  m \in turns[i].inputs
  <2>1. PICK j \in DOMAIN turns : m \in turns[j].inputs /\ turns[j].status # "acked"
    BY <1>4 DEF PhaseIn, OwnerIn
  <2> QED BY <1>4, <2>1 DEF OneTurnAtATime
<1> QED BY <1>1, <1>2, <1>3, <1>4

\* A row that keeps its messages and is acknowledged no more than before.
LEMMA PhaseKept ==
  ASSUME NEW k \in DOMAIN turns, Moved(k)
  PROVE  /\ \A m \in Messages : OwnerIn(m, turns') = OwnerIn(m, turns) /\ PhaseIn(m, turns') = PhaseIn(m, turns)
         /\ UNCHANGED gens
<1>1. PICK r : turns' = [turns EXCEPT ![k] = r] /\ Retained(turns[k], r)
  BY DEF Moved
<1>2. /\ DOMAIN turns' = DOMAIN turns
      /\ \A i \in DOMAIN turns : /\ turns'[i].inputs = turns[i].inputs
                                 /\ turns'[i].status = "acked" <=> turns[i].status = "acked"
  BY <1>1 DEF Retained, Advances
<1>3. \A m \in Messages : OwnerIn(m, turns') = OwnerIn(m, turns)
  BY <1>2 DEF OwnerIn
<1>4. \A m \in Messages : PhaseIn(m, turns') = PhaseIn(m, turns)
  BY <1>2, <1>3 DEF PhaseIn, OwnerIn
<1> QED BY <1>3, <1>4 DEF Moved

\* A step of ReplyOutcome: the phases go from ph to ph2, the effects from hd to hd2, and the
\* messages of own are owned.
OutcomeMove(ph, ph2, hd, hd2, own) ==
  \/ ph2 = ph /\ gens' = gens /\ hd2 = hd
  \/ /\ own # {} /\ \A m \in own : gens[m] = 0
     /\ gens' = [m \in Messages |-> IF m \in own THEN 1 ELSE gens[m]] /\ ph2 = ph /\ hd2 = hd
  \/ /\ own # {} /\ \A m \in own : gens[m] = 1
     /\ hd2 = [m \in Messages |-> m \in own \/ hd[m]] /\ ph2 = ph /\ gens' = gens
  \/ /\ own # {} /\ \A m \in own : hd[m]
     /\ ph2 = [m \in Messages |-> IF m \in own THEN "closed" ELSE ph[m]]
     /\ gens' = gens /\ hd2 = hd
  \/ \E S \in SUBSET Messages :
       /\ own = {} /\ S # {} /\ \A m \in S : ph[m] = "waiting"
       /\ ph2 = [m \in Messages |-> IF m \in S THEN "owned" ELSE ph[m]]
       /\ gens' = gens /\ hd2 = hd

LEMMA OutcomeView ==
  ASSUME NEW ph, ph = [m \in Messages |-> PhaseIn(m, turns)],
         NEW ph2, ph2 = [m \in Messages |-> PhaseIn(m, turns')],
         NEW hd, hd = [m \in Messages |-> HandledIn(m, turns, repaired)],
         NEW hd2, hd2 = [m \in Messages |-> HandledIn(m, turns', repaired')],
         NEW own, own = {m \in Messages : ph[m] = "owned"},
         OutcomeMove(ph, ph2, hd, hd2, own)
  PROVE  [Outcome!Next]_(Outcome!vars)
<1>1. /\ [m \in Messages |-> Phase(m)] = ph /\ [m \in Messages |-> Phase(m)]' = ph2
  BY DEF Phase, Owner, PhaseIn, OwnerIn
<1>2. /\ [m \in Messages |-> \E i \in Owner(m) : i \in repaired] = hd
      /\ [m \in Messages |-> \E i \in Owner(m) : i \in repaired]' = hd2
  BY DEF Owner, HandledIn, OwnerIn
<1>3. Outcome!In("owned") = own
  BY <1>1 DEF Outcome!In
<1>4. CASE ph2 = ph /\ gens' = gens /\ hd2 = hd
  BY <1>1, <1>2, <1>4 DEF Outcome!vars
<1>5. CASE /\ own # {} /\ \A m \in own : gens[m] = 0
           /\ gens' = [m \in Messages |-> IF m \in own THEN 1 ELSE gens[m]] /\ ph2 = ph /\ hd2 = hd
  <2>1. Outcome!Run
    BY <1>1, <1>2, <1>3, <1>5 DEF Outcome!Run
  <2> QED BY <2>1 DEF Outcome!Next
<1>6. CASE /\ own # {} /\ \A m \in own : gens[m] = 1
           /\ hd2 = [m \in Messages |-> m \in own \/ hd[m]] /\ ph2 = ph /\ gens' = gens
  <2>1. Outcome!Handle
    BY <1>1, <1>2, <1>3, <1>6 DEF Outcome!Handle
  <2> QED BY <2>1 DEF Outcome!Next
<1>7. CASE /\ own # {} /\ \A m \in own : hd[m]
           /\ ph2 = [m \in Messages |-> IF m \in own THEN "closed" ELSE ph[m]]
           /\ gens' = gens /\ hd2 = hd
  <2>1. Outcome!Close
    BY <1>1, <1>2, <1>3, <1>7 DEF Outcome!Close, Outcome!Enter
  <2> QED BY <2>1 DEF Outcome!Next
<1>8. ASSUME NEW S \in SUBSET Messages, own = {}, S # {}, \A m \in S : ph[m] = "waiting",
             ph2 = [m \in Messages |-> IF m \in S THEN "owned" ELSE ph[m]], gens' = gens, hd2 = hd
      PROVE  [Outcome!Next]_(Outcome!vars)
  <2>1. S \subseteq Outcome!In("waiting")
    BY <1>1, <1>8 DEF Outcome!In
  <2>2. Outcome!Take(S)
    BY <1>1, <1>2, <1>3, <1>8, <2>1 DEF Outcome!Take, Outcome!Enter
  <2> QED BY <2>2 DEF Outcome!Next
<1> QED BY <1>4, <1>5, <1>6, <1>7, <1>8 DEF OutcomeMove

LEMMA OutcomeSteps ==
  ASSUME IInv, IInv', TurnInv, TurnSteps
  PROVE  [Outcome!Next]_(Outcome!vars)
<1> DEFINE ph == [m \in Messages |-> PhaseIn(m, turns)]
           ph2 == [m \in Messages |-> PhaseIn(m, turns')]
           hd == [m \in Messages |-> HandledIn(m, turns, repaired)]
           hd2 == [m \in Messages |-> HandledIn(m, turns', repaired')]
           own == {m \in Messages : ph[m] = "owned"}
<1>0. /\ ph = [m \in Messages |-> PhaseIn(m, turns)]
      /\ ph2 = [m \in Messages |-> PhaseIn(m, turns')]
      /\ hd = [m \in Messages |-> HandledIn(m, turns, repaired)]
      /\ hd2 = [m \in Messages |-> HandledIn(m, turns', repaired')]
      /\ own = {m \in Messages : ph[m] = "owned"}
  OBVIOUS
<1>view. OutcomeMove(ph, ph2, hd, hd2, own) => [Outcome!Next]_(Outcome!vars)
  <2> HIDE DEF ph, ph2, hd, hd2, own
  <2> QED BY <1>0, OutcomeView
<1>1. /\ TypeOK /\ OneTurnAtATime /\ OneTurnAtATime' /\ turns \in Seq(Turns)
      /\ \A i \in DOMAIN turns : /\ turns[i] \in Turns /\ turns[i].inputs \subseteq Messages
                                 /\ turns[i].inputs # {}
                                 /\ turns[i].status = "acked" => i \in repaired
  <2>1. /\ TypeOK /\ OneTurnAtATime /\ OneTurnAtATime' /\ turns \in Seq(Turns)
        /\ \A i \in DOMAIN turns : turns[i].status = "acked" => i \in repaired
    BY DEF IInv, TypeOK, Handled
  <2>2. ASSUME NEW i \in DOMAIN turns
        PROVE  turns[i] \in Turns /\ turns[i].inputs \subseteq Messages /\ turns[i].inputs # {}
    <3>1. turns[i] \in Turns
      BY <2>1, ElementOfSeq, LenProperties
    <3> QED BY <3>1 DEF Turns, TurnInv, RowsFine, RowFine
  <2> QED BY <2>1, <2>2
<1>2. \A i \in DOMAIN turns : turns[i].status # "acked" => own = turns[i].inputs
  BY <1>1, Phases
<1>3. ASSUME NEW k \in DOMAIN turns, Moved(k) PROVE ph2 = ph /\ gens' = gens
  BY <1>3, PhaseKept
<1>4. ASSUME UNCHANGED turns PROVE ph2 = ph
  BY <1>4
<1>5. CASE UNCHANGED <<turns, gens, repaired>>
  <2>1. ph2 = ph /\ hd2 = hd
    BY <1>5
  <2> HIDE DEF ph, ph2, hd, hd2, own
  <2> QED BY <1>5, <2>1, <1>view DEF OutcomeMove
<1>6. ASSUME NEW k \in DOMAIN turns, Moved(k), UNCHANGED repaired
      PROVE  [Outcome!Next]_(Outcome!vars)
  <2>1. ph2 = ph /\ gens' = gens
    BY <1>3, <1>6
  <2>2. hd2 = hd
    BY <1>6, PhaseKept DEF HandledIn
  <2> HIDE DEF ph, ph2, hd, hd2, own
  <2> QED BY <2>1, <2>2, <1>view DEF OutcomeMove
<1>7. CASE Runs
  <2>1. PICK k \in DOMAIN turns :
          /\ turns[k].status # "acked" /\ Ran(turns[k], 0, gens)
          /\ gens' = [m \in Messages |-> IF m \in turns[k].inputs THEN gens[m] + 1 ELSE gens[m]]
          /\ UNCHANGED <<turns, repaired>>
    BY <1>7 DEF Runs
  <2>2. own = turns[k].inputs
    BY <1>2, <2>1
  <2>3. ph2 = ph /\ hd2 = hd
    BY <2>1
  <2> HIDE DEF ph, ph2, hd, hd2, own
  <2>4. own # {} /\ \A m \in own : gens[m] = 0
    BY <1>1, <2>1, <2>2 DEF Ran
  <2>5. gens' = [m \in Messages |-> IF m \in own THEN 1 ELSE gens[m]]
    BY <2>1, <2>2, <2>4
  <2> QED BY <2>3, <2>4, <2>5, <1>view DEF OutcomeMove
<1>8. CASE Repairs
  <2>1. PICK k \in DOMAIN turns : Moved(k) /\ Ran(turns[k], 1, gens) /\ repaired' = repaired \cup {k}
    BY <1>8 DEF Repairs
  <2>2. CASE turns[k].status = "acked"
    <3>1. repaired' = repaired
      BY <1>1, <2>1, <2>2
    <3> QED BY <1>6, <2>1, <3>1
  <2>3. CASE turns[k].status # "acked"
    <3>1. own = turns[k].inputs
      BY <1>2, <2>3
    <3>2. ph2 = ph /\ gens' = gens
      BY <1>3, <2>1
    <3>3. ASSUME NEW m \in Messages
          PROVE  HandledIn(m, turns', repaired') = (m \in turns[k].inputs \/ HandledIn(m, turns, repaired))
      <4>1. OwnerIn(m, turns') = OwnerIn(m, turns)
        BY <2>1, PhaseKept
      <4> QED BY <2>1, <4>1 DEF HandledIn, OwnerIn
    <3>4. hd2 = [m \in Messages |-> m \in own \/ hd[m]]
      BY <3>1, <3>3
    <3> HIDE DEF ph, ph2, hd, hd2, own
    <3>5. own # {} /\ \A m \in own : gens[m] = 1
      BY <1>1, <2>1, <3>1 DEF Ran
    <3> QED BY <3>2, <3>4, <3>5, <1>view DEF OutcomeMove
  <2> QED BY <2>2, <2>3
<1>9. CASE Closes
  <2>1. PICK k \in DOMAIN turns :
          /\ turns' = [turns EXCEPT ![k] = Acked(turns[k])] /\ Advances(turns[k], Acked(turns[k]))
          /\ UNCHANGED <<gens, repaired>>
    BY <1>9 DEF Closes
  <2>2. /\ DOMAIN turns' = DOMAIN turns /\ turns'[k].status = "acked"
        /\ \A i \in DOMAIN turns : turns'[i].inputs = turns[i].inputs
        /\ \A i \in DOMAIN turns \ {k} : turns'[i] = turns[i]
    BY <1>1, <2>1 DEF Acked, Advances, Turns
  <2>3. \A m \in Messages : OwnerIn(m, turns') = OwnerIn(m, turns)
    BY <2>2 DEF OwnerIn
  <2>4. hd2 = hd
    BY <2>1, <2>3 DEF HandledIn
  <2>5. CASE turns[k].status = "acked"
    <3>1. \A i \in DOMAIN turns : turns'[i].status = "acked" <=> turns[i].status = "acked"
      BY <2>2, <2>5
    <3>2. \A m \in Messages : PhaseIn(m, turns') = PhaseIn(m, turns)
      BY <2>3, <3>1 DEF PhaseIn, OwnerIn
    <3>3. ph2 = ph
      BY <3>2
    <3> HIDE DEF ph, ph2, hd, hd2, own
    <3> QED BY <2>1, <2>4, <3>3, <1>view DEF OutcomeMove
  <2>6. CASE turns[k].status # "acked"
    <3>1. own = turns[k].inputs
      BY <1>2, <2>6
    <3>2. k \in repaired
      BY <2>1, <2>2 DEF IInv, Handled
    <3>3. ASSUME NEW m \in Messages
          PROVE  PhaseIn(m, turns') = IF m \in turns[k].inputs THEN "closed" ELSE PhaseIn(m, turns)
      <4>1. CASE m \in turns[k].inputs
        <5>1. OwnerIn(m, turns') = {k}
          BY <1>1, <2>3, <4>1, Phases
        <5> QED BY <2>2, <4>1, <5>1 DEF PhaseIn
      <4>2. CASE m \notin turns[k].inputs
        <5>1. \A i \in OwnerIn(m, turns) : turns'[i] = turns[i]
          BY <2>2, <4>2 DEF OwnerIn
        <5> QED BY <2>3, <4>2, <5>1 DEF PhaseIn
      <4> QED BY <4>1, <4>2
    <3>4. ph2 = [m \in Messages |-> IF m \in own THEN "closed" ELSE ph[m]]
      BY <3>1, <3>3
    <3>5. \A m \in own : hd[m]
      BY <1>1, <3>1, <3>2, Phases
    <3> HIDE DEF ph, ph2, hd, hd2, own
    <3> QED BY <1>1, <2>1, <2>4, <3>1, <3>4, <3>5, <1>view DEF OutcomeMove
  <2> QED BY <2>5, <2>6
<1>10. CASE Inserts
  <2>1. PICK w \in Workers, b \in SUBSET Messages :
          /\ b # {} /\ Owners(b) = {} /\ Blocking = {}
          /\ turns' = Append(turns, NewTurn(w, b)) /\ UNCHANGED <<gens, repaired>>
    BY <1>10 DEF Inserts
  <2> DEFINE n == NewTurn(w, b)
             e == Len(turns) + 1
  <2>2. n \in Turns /\ n.inputs = b /\ n.status = "preparing"
    BY DEF NewTurn, Turns, TurnStatuses, Projections, Outcomes
  <2> HIDE DEF n
  <2>3. /\ DOMAIN turns' = DOMAIN turns \cup {e} /\ e \notin DOMAIN turns /\ turns'[e] = n
        /\ \A i \in DOMAIN turns : turns'[i] = turns[i]
    <3>1. /\ Append(turns, n) \in Seq(Turns) /\ Len(Append(turns, n)) = Len(turns) + 1
          /\ \A i \in 1..Len(turns) : Append(turns, n)[i] = turns[i]
          /\ Append(turns, n)[Len(turns) + 1] = n
      BY <1>1, <2>2, AppendProperties
    <3>2. /\ DOMAIN Append(turns, n) = 1..(Len(turns) + 1) /\ DOMAIN turns = 1..Len(turns)
          /\ Len(turns) \in Nat
      BY <1>1, <3>1, LenProperties
    <3> QED BY <2>1, <3>1, <3>2 DEF n
  <2>4. e \notin repaired
    BY <1>1, <2>3 DEF TypeOK
  <2> HIDE DEF e
  <2>5. \A m \in b : OwnerIn(m, turns) = {} /\ OwnerIn(m, turns') = {e}
    <3>1. \A m \in b : OwnerIn(m, turns) = {}
      BY <2>1 DEF Owners, Sharing, OwnerIn
    <3> QED BY <2>2, <2>3, <3>1 DEF OwnerIn
  <2>6. \A m \in Messages \ b : OwnerIn(m, turns') = OwnerIn(m, turns)
    BY <2>2, <2>3 DEF OwnerIn
  <2>7. ASSUME NEW m \in Messages
        PROVE  /\ PhaseIn(m, turns') = IF m \in b THEN "owned" ELSE PhaseIn(m, turns)
               /\ HandledIn(m, turns', repaired') = HandledIn(m, turns, repaired)
               /\ m \in b => PhaseIn(m, turns) = "waiting"
               /\ PhaseIn(m, turns) # "owned"
    <3>1. CASE m \in b
      BY <2>1, <2>2, <2>3, <2>4, <2>5, <3>1 DEF PhaseIn, HandledIn
    <3>2. CASE m \notin b
      <4>1. \A i \in OwnerIn(m, turns) : turns'[i] = turns[i] /\ turns[i].status = "acked"
        BY <2>1, <2>3 DEF OwnerIn, Blocking
      <4> QED BY <2>1, <2>6, <3>2, <4>1 DEF PhaseIn, HandledIn
    <3> QED BY <3>1, <3>2
  <2>8. own = {} /\ hd2 = hd
    BY <2>7
  <2>9. ph2 = [m \in Messages |-> IF m \in b THEN "owned" ELSE ph[m]] /\ \A m \in b : ph[m] = "waiting"
    BY <2>7
  <2> HIDE DEF ph, ph2, hd, hd2, own
  <2> QED BY <2>1, <2>8, <2>9, <1>view DEF OutcomeMove
<1> HIDE DEF ph, ph2, hd, hd2, own
<1> QED BY <1>5, <1>6, <1>7, <1>8, <1>9, <1>10 DEF TurnSteps

\* ImplementsOutcome for every instance: callbacks, jobs, direct calls, recovery scans, crashes
\* and unconfirmed calls together keep the promise of ReplyOutcome (Open takes a batch over,
\* Generate runs, the projection calls handle, Ack closes; every other step changes nothing a
\* message can tell).
THEOREM Implements == Spec => ImplementsOutcome
<1>1. ReplyAssumption /\ Init => Outcome!Init
  <2> SUFFICES ASSUME Init PROVE Outcome!Init
    OBVIOUS
  <2>1. DOMAIN turns = {}
    BY DEF Init
  <2>2. \A m \in Messages : Owner(m) = {}
    BY <2>1 DEF Owner
  <2>3. \A m \in Messages : Phase(m) = "waiting" /\ ~(\E i \in Owner(m) : i \in repaired)
    BY <2>2 DEF Phase
  <2> QED BY <2>3 DEF Init, Outcome!Init
<1>2. IInv /\ IInv' /\ TurnInv /\ [Next]_vars => [Outcome!Next]_(Outcome!vars)
  BY EveryStep, OutcomeSteps, ReplyAssumption
<1> QED BY <1>1, <1>2, TurnsInvariant, ReplyAssumption, PTL DEF Spec, ImplementsOutcome, Outcome!Spec
=============================================================================
