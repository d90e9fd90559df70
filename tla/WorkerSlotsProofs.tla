-------------------------- MODULE WorkerSlotsProofs --------------------------
(***************************************************************************)
(* Theorems about WorkerSlots for every finite set of handlers, every set  *)
(* of operators and every limit.                                           *)
(***************************************************************************)
EXTENDS WorkerSlots, FiniteSetTheorems, SequenceTheorems, TLAPS

-----------------------------------------------------------------------------
(* Slots and line under any hand-over. *)

Slots == [Handlers -> {"none", "waiting", "held"}]
Held(s) == {h \in Handlers : s[h] = "held"}

\* s agrees with the line and a with s.
Agrees(a, s, line) ==
  /\ a \in Nat /\ s \in Slots /\ line \in Seq(Handlers)
  /\ a = Cardinality(Held(s))
  /\ \A h \in Handlers : s[h] = "waiting" <=> \E i \in 1 .. Len(line) : line[i] = h
  /\ \A i, k \in 1 .. Len(line) : line[i] = line[k] => i = k

LEMMA HeldFinite == \A s : IsFiniteSet(Held(s)) /\ Cardinality(Held(s)) \in Nat
  <1> TAKE s
  <1>1. Held(s) \in SUBSET Handlers
    BY DEF Held
  <1> QED
    BY <1>1, FS_Subset, FS_CardinalityType, SlotAssumption DEF SlotAssumption

\* The first n of the line are n handlers.
LEMMA HeadOfLine ==
  ASSUME NEW line \in Seq(Handlers), NEW n \in 0 .. Len(line),
         \A i, k \in 1 .. Len(line) : line[i] = line[k] => i = k
  PROVE  LET T == {h \in Handlers : \E i \in 1 .. n : line[i] = h}
         IN  IsFiniteSet(T) /\ Cardinality(T) = n
  <1> DEFINE T == {h \in Handlers : \E i \in 1 .. n : line[i] = h}
             f == [i \in 1 .. n |-> line[i]]
  <1>1. n \in Nat /\ \A i \in 1 .. n : i \in 1 .. Len(line) /\ line[i] \in Handlers
    OBVIOUS
  <1>2. f \in Bijection(1 .. n, T)
    BY <1>1 DEF Bijection, Injection, Surjection, IsInjective
  <1>3. ExistsBijection(1 .. n, T)
    BY <1>2 DEF ExistsBijection
  <1>4. IsFiniteSet(1 .. n) /\ Cardinality(1 .. n) = n
    BY <1>1, FS_Interval
  <1> QED
    BY <1>3, <1>4, FS_Bijection

LEMMA ServedBound ==
  ASSUME NEW a \in Nat, NEW l \in Nat, resolvers \in Seq(Handlers)
  PROVE  /\ Served(a, l) \in 0 .. Len(resolvers)
         /\ Served(a, l) > 0 => a + Served(a, l) <= l
         /\ Served(a, l) < Len(resolvers) => a + Served(a, l) >= l
  BY DEF Served

\* What the while loop does.
LEMMA Drained ==
  ASSUME NEW a \in Nat, NEW l \in Nat, NEW s, Agrees(a, s, resolvers),
         DrainExecutionResolvers(a, l, s)
  PROVE  /\ Agrees(activeJobs', slot', resolvers')
         /\ resolvers' # <<>> => activeJobs' >= l
         /\ \A h \in Handlers : slot'[h] = "held" /\ s[h] # "held" =>
              s[h] = "waiting" /\ activeJobs' <= l
  <1> DEFINE n == Served(a, l)
             T == {h \in Handlers : \E i \in 1 .. n : resolvers[i] = h}
  <1>1. /\ s \in Slots /\ resolvers \in Seq(Handlers)
        /\ \A h \in Handlers : s[h] = "waiting" <=> \E i \in 1 .. Len(resolvers) : resolvers[i] = h
        /\ \A i, k \in 1 .. Len(resolvers) : resolvers[i] = resolvers[k] => i = k
        /\ a = Cardinality(Held(s))
    BY DEF Agrees
  <1>2. /\ n \in 0 .. Len(resolvers)
        /\ n > 0 => a + n <= l
        /\ n < Len(resolvers) => a + n >= l
    BY <1>1, ServedBound
  <1>3. /\ activeJobs' = a + n
        /\ resolvers' = SubSeq(resolvers, n + 1, Len(resolvers))
        /\ slot' = [h \in Handlers |-> IF h \in T THEN "held" ELSE s[h]]
    BY DEF DrainExecutionResolvers
  <1> HIDE DEF n
  <1>4. IsFiniteSet(T) /\ Cardinality(T) = n
    BY <1>1, <1>2, HeadOfLine
  <1>5. \A h \in T : s[h] = "waiting"
    BY <1>1, <1>2
  <1>6. Held(slot') = Held(s) \cup T /\ Held(s) \cap T = {}
    BY <1>1, <1>3, <1>5 DEF Held, Slots
  <1>7. Cardinality(Held(slot')) = a + n
    <2>1. Cardinality(Held(s) \cup T) = Cardinality(Held(s)) + n - Cardinality(Held(s) \cap T)
      BY <1>4, HeldFinite, FS_Union
    <2>2. Cardinality(Held(s) \cap T) = 0
      BY <1>6, FS_EmptySet
    <2> QED
      BY <1>1, <1>2, <1>6, <2>1, <2>2
  <1>8. /\ resolvers' \in Seq(Handlers)
        /\ Len(resolvers') = Len(resolvers) - n
        /\ \A i \in 1 .. Len(resolvers) - n : resolvers'[i] = resolvers[n + i]
    <2> DEFINE m == n + 1  k == Len(resolvers)
    <2>1. m \in Int /\ k \in Int /\ \A i \in m .. k : resolvers[i] \in Handlers
      BY <1>1, <1>2
    <2>2. /\ SubSeq(resolvers, m, k) \in Seq(Handlers)
          /\ Len(SubSeq(resolvers, m, k)) = IF m <= k THEN k - m + 1 ELSE 0
          /\ \A i \in 1 .. k - m + 1 : SubSeq(resolvers, m, k)[i] = resolvers[m + i - 1]
      BY <2>1, SubSeqProperties
    <2>3. k \in Nat /\ n \in Nat /\ n <= k
      BY <1>1, <1>2
    <2>4. \A i \in 1 .. k - n : m + i - 1 = n + i
      BY <2>3
    <2> QED
      BY <1>3, <2>2, <2>3, <2>4
  <1>9. slot' \in Slots
    BY <1>1, <1>3 DEF Slots
  <1>10. \A h \in Handlers : slot'[h] = "waiting" <=> s[h] = "waiting" /\ h \notin T
    BY <1>1, <1>3 DEF Slots
  <1>11. \A h \in Handlers :
           slot'[h] = "waiting" <=> \E i \in 1 .. Len(resolvers') : resolvers'[i] = h
    <2> TAKE h \in Handlers
    <2>1. ASSUME slot'[h] = "waiting"
          PROVE  \E i \in 1 .. Len(resolvers') : resolvers'[i] = h
      <3>1. PICK i \in 1 .. Len(resolvers) : resolvers[i] = h
        BY <1>1, <1>10, <2>1
      <3>2. i \notin 1 .. n
        BY <1>10, <2>1, <3>1
      <3>3. i - n \in 1 .. Len(resolvers') /\ n + (i - n) = i
        BY <1>1, <1>2, <1>8, <3>1, <3>2
      <3> QED
        BY <1>8, <3>1, <3>3
    <2>2. ASSUME NEW i \in 1 .. Len(resolvers'), resolvers'[i] = h
          PROVE  slot'[h] = "waiting"
      <3>1. n + i \in 1 .. Len(resolvers) /\ resolvers[n + i] = h
        BY <1>1, <1>2, <1>8, <2>2
      <3>2. \A k \in 1 .. n : resolvers[k] # h
        BY <1>1, <1>2, <3>1
      <3> QED
        BY <1>1, <1>10, <3>1, <3>2
    <2> QED
      BY <2>1, <2>2
  <1>12. \A i, k \in 1 .. Len(resolvers') : resolvers'[i] = resolvers'[k] => i = k
    <2> TAKE i, k \in 1 .. Len(resolvers')
    <2>1. n + i \in 1 .. Len(resolvers) /\ n + k \in 1 .. Len(resolvers)
      BY <1>1, <1>2, <1>8
    <2> QED
      BY <1>1, <1>2, <1>8, <2>1
  <1>13. Agrees(activeJobs', slot', resolvers')
    <2>1. activeJobs' \in Nat /\ activeJobs' = Cardinality(Held(slot'))
      BY <1>1, <1>2, <1>3, <1>7
    <2>2. resolvers' \in Seq(Handlers)
      BY <1>8
    <2> QED
      BY <2>1, <2>2, <1>9, <1>11, <1>12 DEF Agrees
  <1>14. resolvers' # <<>> => activeJobs' >= l
    BY <1>1, <1>2, <1>3, <1>8
  <1>15. ASSUME NEW h \in Handlers, slot'[h] = "held", s[h] # "held"
         PROVE  s[h] = "waiting" /\ activeJobs' <= l
    BY <1>2, <1>3, <1>5, <1>15
  <1> QED
    BY <1>13, <1>14, <1>15

-----------------------------------------------------------------------------
(* The inductive invariant. *)

\* What the counter and the line say is what the handlers do.
Accounted == Agrees(activeJobs, slot, resolvers)

\* A call in flight asks for a limit within the range, and unless something is recorded that
\* excuses it, it is alone and nothing but it separates the limit from the configuration.
Saved ==
  /\ \A o \in Operators : InFlight(o) => resize[o].to \in 1 .. MaxConcurrency
  /\ drift = {} =>
       /\ \A o, p \in Operators : InFlight(o) /\ InFlight(p) => o = p
       /\ \A o \in Operators : resize[o].at = "written" => stored = resize[o].to
       /\ (\A o \in Operators : resize[o].at # "written") => limit = Normalized(stored)

Ranges ==
  /\ limit \in 1 .. MaxConcurrency /\ registered \in 1 .. MaxConcurrency
  /\ stored \in Requests \cup {0}
  /\ resize \in [Operators -> Resizes]
  /\ drift \subseteq {"overlapped", "unsaved", "unread"}

SlotInv == Ranges /\ Accounted /\ NoIdleSlot /\ Saved

LEMMA NormalizedRange == \A v \in Requests \cup {0} : Normalized(v) \in 1 .. MaxConcurrency
  BY SlotAssumption DEF SlotAssumption, Normalized

LEMMA AccountedMeans ==
  /\ Accounted => SlotsAccounted
  /\ Accounted => activeJobs \in Nat /\ resolvers \in Seq(Handlers) /\ slot \in Slots
  BY DEF Accounted, Agrees, SlotsAccounted, Held

LEMMA NobodyAgrees == Agrees(0, [h \in Handlers |-> "none"], <<>>)
  <1> DEFINE s == [h \in Handlers |-> "none"]
  <1>1. Held(s) = {}
    BY DEF Held
  <1>2. Cardinality(Held(s)) = 0
    BY <1>1, FS_EmptySet
  <1>3. Len(<<>>) = 0 /\ <<>> \in Seq(Handlers)
    OBVIOUS
  <1> QED
    BY <1>2, <1>3 DEF Agrees, Slots

LEMMA SlotInitInv == SlotInit => SlotInv
  <1> SUFFICES ASSUME SlotInit PROVE SlotInv
    OBVIOUS
  <1>1. Ranges
    BY NormalizedRange DEF SlotInit, SlotsFree, Ranges, Resizes
  <1>2. Accounted
    BY NobodyAgrees DEF SlotInit, SlotsFree, Accounted
  <1>3. NoIdleSlot
    BY DEF SlotInit, SlotsFree, NoIdleSlot
  <1>4. Saved
    BY DEF SlotInit, SlotsFree, Saved, InFlight
  <1> QED
    BY <1>1, <1>2, <1>3, <1>4 DEF SlotInv

LEMMA AcquireStep ==
  ASSUME SlotInv, NEW h \in Handlers, AcquireExecutionSlot(h)
  PROVE  Accounted' /\ NoIdleSlot'
  <1>1. Agrees(activeJobs, slot, resolvers) /\ slot[h] = "none" /\ activeJobs \in Nat /\ limit \in Nat
    BY SlotAssumption DEF SlotInv, Ranges, Accounted, Agrees, AcquireExecutionSlot, InLine, SlotAssumption, Slots
  <1>2. CASE SlotFree
    <2>1. activeJobs' = activeJobs + 1 /\ slot' = [slot EXCEPT ![h] = "held"] /\ resolvers' = resolvers
      BY <1>2 DEF AcquireExecutionSlot
    <2>2. Held(slot') = Held(slot) \cup {h} /\ h \notin Held(slot)
      BY <1>1, <2>1 DEF Held, Agrees, Slots
    <2>3. Cardinality(Held(slot')) = activeJobs + 1
      BY <1>1, <2>2, HeldFinite, FS_AddElement DEF Agrees
    <2>4. Accounted'
      BY <1>1, <2>1, <2>3 DEF Accounted, Agrees, Slots
    <2>5. resolvers = <<>>
      BY <1>1, <1>2 DEF SlotInv, NoIdleSlot, SlotFree
    <2> QED
      BY <2>1, <2>4, <2>5 DEF NoIdleSlot
  <1>3. CASE ~SlotFree
    <2>1. /\ activeJobs' = activeJobs /\ limit' = limit
          /\ slot' = [slot EXCEPT ![h] = "waiting"] /\ resolvers' = Append(resolvers, h)
      BY <1>3 DEF AcquireExecutionSlot, SlotFree
    <2>2. Held(slot') = Held(slot)
      BY <1>1, <2>1 DEF Held, Agrees, Slots
    <2>3. /\ resolvers' \in Seq(Handlers) /\ Len(resolvers') = Len(resolvers) + 1
          /\ \A i \in 1 .. Len(resolvers) : resolvers'[i] = resolvers[i]
          /\ resolvers'[Len(resolvers) + 1] = h
      BY <1>1, <2>1, AppendProperties DEF Agrees
    <2>4. \A g \in Handlers : slot'[g] = "waiting" <=> slot[g] = "waiting" \/ g = h
      BY <1>1, <2>1 DEF Agrees, Slots
    <2>5. \A g \in Handlers :
            slot'[g] = "waiting" <=> \E i \in 1 .. Len(resolvers') : resolvers'[i] = g
      BY <1>1, <2>3, <2>4 DEF Agrees
    <2>6. \A i, k \in 1 .. Len(resolvers') : resolvers'[i] = resolvers'[k] => i = k
      BY <1>1, <2>3 DEF Agrees
    <2>7. slot' \in Slots
      BY <1>1, <2>1 DEF Agrees, Slots
    <2>8. Accounted'
      BY <1>1, <2>1, <2>2, <2>3, <2>5, <2>6, <2>7 DEF Accounted, Agrees
    <2>9. NoIdleSlot'
      BY <1>1, <1>3, <2>1 DEF NoIdleSlot, SlotFree
    <2> QED
      BY <2>8, <2>9
  <1> QED
    BY <1>2, <1>3

LEMMA ReleaseStep ==
  ASSUME SlotInv, NEW h \in Handlers, ReleaseExecutionSlot(h)
  PROVE  /\ Accounted' /\ NoIdleSlot'
         /\ \A g \in Handlers : slot'[g] = "held" /\ slot[g] # "held" =>
              slot[g] = "waiting" /\ activeJobs' <= limit'
  <1> DEFINE s == [slot EXCEPT ![h] = "none"]
             a == IF activeJobs > 0 THEN activeJobs - 1 ELSE 0
  <1>1. /\ Agrees(activeJobs, slot, resolvers) /\ slot[h] = "held" /\ limit' = limit
        /\ limit \in Nat /\ DrainExecutionResolvers(a, limit, s)
    BY SlotAssumption DEF SlotInv, Ranges, Accounted, ReleaseExecutionSlot, SlotAssumption
  <1>2. Held(s) = Held(slot) \ {h} /\ h \in Held(slot)
    BY <1>1 DEF Held, Agrees, Slots
  <1>3. Cardinality(Held(s)) = activeJobs - 1 /\ activeJobs \in Nat /\ activeJobs # 0
    <2>1. Cardinality(Held(s)) = Cardinality(Held(slot)) - 1
      BY <1>2, HeldFinite, FS_RemoveElement
    <2>2. Cardinality(Held(slot)) # 0
      BY <1>2, HeldFinite, FS_EmptySet
    <2> QED
      BY <1>1, <2>1, <2>2 DEF Agrees
  <1>4. Agrees(a, s, resolvers)
    BY <1>1, <1>3 DEF Agrees, Slots
  <1>5. a \in Nat
    BY <1>3
  <1> HIDE DEF a, s
  <1>6. /\ Agrees(activeJobs', slot', resolvers')
        /\ resolvers' # <<>> => activeJobs' >= limit
        /\ \A g \in Handlers : slot'[g] = "held" /\ s[g] # "held" =>
             s[g] = "waiting" /\ activeJobs' <= limit
    BY <1>1, <1>4, <1>5, Drained
  <1>7. \A g \in Handlers : g # h => s[g] = slot[g]
    BY <1>1 DEF s, Agrees, Slots
  <1> QED
    BY <1>1, <1>6, <1>7 DEF Accounted, NoIdleSlot

LEMMA ApplyStep ==
  ASSUME SlotInv, NEW o \in Operators, ApplyConcurrency(o)
  PROVE  /\ Accounted' /\ NoIdleSlot' /\ limit' \in 1 .. MaxConcurrency
         /\ \A g \in Handlers : slot'[g] = "held" /\ slot[g] # "held" =>
              slot[g] = "waiting" /\ activeJobs' <= limit'
  <1>1. limit' = resize[o].to /\ limit' \in 1 .. MaxConcurrency
    BY DEF SlotInv, Saved, ApplyConcurrency
  <1>2. limit' \in Nat /\ activeJobs \in Nat
    BY <1>1, SlotAssumption, AccountedMeans DEF SlotInv, SlotAssumption
  <1>3. DrainExecutionResolvers(activeJobs, limit', slot) /\ Agrees(activeJobs, slot, resolvers)
    BY DEF ApplyConcurrency, SlotInv, Accounted
  <1>4. \A l \in Nat : DrainExecutionResolvers(activeJobs, l, slot) =>
          /\ Agrees(activeJobs', slot', resolvers')
          /\ resolvers' # <<>> => activeJobs' >= l
          /\ \A h \in Handlers : slot'[h] = "held" /\ slot[h] # "held" =>
               slot[h] = "waiting" /\ activeJobs' <= l
    BY <1>2, <1>3, Drained
  <1> QED
    BY <1>1, <1>2, <1>3, <1>4 DEF Accounted, NoIdleSlot

LEMMA RestartStep ==
  ASSUME SlotInv, NEW readable \in BOOLEAN, Restart(readable)
  PROVE  /\ Accounted' /\ NoIdleSlot' /\ Ranges' /\ Saved'
         /\ \A g \in Handlers : slot'[g] # "held"
  <1>1. /\ activeJobs' = 0 /\ resolvers' = <<>> /\ slot' = [h \in Handlers |-> "none"]
        /\ stored' = stored /\ registered' = limit'
        /\ drift' = IF readable THEN {} ELSE {"unread"}
    BY DEF Restart
  <1>2. Accounted' /\ NoIdleSlot'
    BY <1>1, NobodyAgrees DEF Accounted, NoIdleSlot
  <1>3. limit' \in 1 .. MaxConcurrency /\ (readable => limit' = Normalized(stored))
    BY NormalizedRange, SlotAssumption DEF SlotInv, Ranges, Restart, SlotAssumption
  <1>4. /\ resize' \in [Operators -> Resizes]
        /\ \A o \in Operators : resize'[o].at \notin {"sent", "written"}
    BY DEF SlotInv, Ranges, Restart, Resizes, InFlight
  <1>5. Ranges'
    BY <1>1, <1>3, <1>4 DEF SlotInv, Ranges
  <1>6. Saved'
    BY <1>1, <1>3, <1>4 DEF Saved, InFlight, Normalized
  <1> QED
    BY <1>1, <1>2, <1>5, <1>6

LEMMA SetStep ==
  ASSUME SlotInv, NEW o \in Operators, NEW n \in Requests, SetConcurrency(o, n)
  PROVE  Ranges' /\ Saved'
  <1>1. /\ n \in Nat \ {0} /\ MaxConcurrency \in Nat
        /\ resize \in [Operators -> Resizes] /\ resize[o].at = "ready"
        /\ limit' = limit /\ stored' = stored /\ registered' = registered
    BY SlotAssumption DEF SlotInv, Ranges, SetConcurrency, SlotAssumption
  <1> DEFINE a == IF Refused(n) \/ n = limit THEN "done" ELSE "sent"
  <1>2. /\ a \in {"sent", "done"} /\ (a = "sent" => n <= MaxConcurrency)
        /\ resize' = [resize EXCEPT ![o] = [at |-> a, to |-> n]]
    BY <1>1 DEF SetConcurrency, Refused
  <1> HIDE DEF a
  <1>3. resize' \in [Operators -> Resizes] /\ resize'[o] = [at |-> a, to |-> n]
        /\ \A p \in Operators : p # o => resize'[p] = resize[p]
    BY <1>1, <1>2 DEF Resizes
  <1>4. drift' = IF a = "sent" /\ \E p \in Operators : InFlight(p)
                 THEN drift \cup {"overlapped"} ELSE drift
    BY <1>3 DEF SetConcurrency
  <1>5. Ranges'
    BY <1>1, <1>3, <1>4 DEF SlotInv, Ranges
  <1>6. ASSUME NEW p \in Operators, InFlight(p)'
        PROVE  resize'[p].to \in 1 .. MaxConcurrency
    <2>1. CASE p = o
      BY <1>1, <1>2, <1>3, <1>6, <2>1 DEF InFlight
    <2>2. CASE p # o
      BY <1>3, <1>6, <2>2 DEF SlotInv, Saved, InFlight
    <2> QED
      BY <2>1, <2>2
  <1>7. ASSUME drift' = {}
        PROVE  /\ \A p, q \in Operators : InFlight(p)' /\ InFlight(q)' => p = q
               /\ \A p \in Operators : resize'[p].at = "written" => stored' = resize'[p].to
               /\ (\A p \in Operators : resize'[p].at # "written") => limit' = Normalized(stored')
    <2>1. drift = {} /\ (a = "sent" => \A p \in Operators : ~InFlight(p))
      BY <1>4, <1>7
    <2>2. \A p \in Operators : InFlight(p)' => InFlight(p) \/ (p = o /\ a = "sent")
      BY <1>2, <1>3 DEF InFlight
    <2>3. \A p, q \in Operators : InFlight(p)' /\ InFlight(q)' => p = q
      BY <2>1, <2>2 DEF SlotInv, Saved
    <2>4. \A p \in Operators : resize'[p].at = "written" => stored' = resize'[p].to
      BY <1>1, <1>2, <1>3, <2>1 DEF SlotInv, Saved
    <2>5. ASSUME \A p \in Operators : resize'[p].at # "written"
          PROVE  limit' = Normalized(stored')
      <3>1. \A p \in Operators : resize[p].at # "written"
        BY <1>1, <1>3, <2>5
      <3> QED
        BY <1>1, <2>1, <3>1 DEF SlotInv, Saved, Normalized
    <2> QED
      BY <2>3, <2>4, <2>5
  <1>8. \A p \in Operators : InFlight(p)' => resize'[p].to \in 1 .. MaxConcurrency
    BY <1>6
  <1> HIDE DEF Normalized
  <1> QED
    BY <1>5, <1>7, <1>8 DEF Saved

LEMMA StoreStep ==
  ASSUME SlotInv, NEW o \in Operators, StoreConcurrency(o)
  PROVE  Ranges' /\ Saved'
  <1>1. /\ resize \in [Operators -> Resizes] /\ resize[o].at = "sent" /\ stored' = resize[o].to
        /\ resize' = [resize EXCEPT ![o].at = "written"]
        /\ limit' = limit /\ registered' = registered /\ drift' = drift
    BY DEF SlotInv, Ranges, StoreConcurrency
  <1>2. /\ resize' \in [Operators -> Resizes]
        /\ resize'[o].at = "written" /\ resize'[o].to = resize[o].to
        /\ \A p \in Operators : p # o => resize'[p] = resize[p]
    BY <1>1 DEF Resizes
  <1>3. \A p \in Operators : InFlight(p)' <=> InFlight(p)
    BY <1>1, <1>2 DEF InFlight
  <1>4. stored' \in Requests \cup {0}
    BY <1>1 DEF Resizes
  <1>5. Ranges'
    BY <1>1, <1>2, <1>4 DEF SlotInv, Ranges
  <1>6. \A p \in Operators : InFlight(p)' => resize'[p].to \in 1 .. MaxConcurrency
    BY <1>2, <1>3 DEF SlotInv, Saved
  <1>7. drift' = {} => \A p, q \in Operators : InFlight(p)' /\ InFlight(q)' => p = q
    BY <1>1, <1>3 DEF SlotInv, Saved
  <1>8. drift' = {} => \A p \in Operators : resize'[p].at = "written" => p = o
    BY <1>1, <1>2, <1>3, <1>7 DEF InFlight
  <1> QED
    BY <1>1, <1>2, <1>5, <1>6, <1>7, <1>8 DEF Saved

LEMMA ApplySaved ==
  ASSUME SlotInv, NEW o \in Operators, ApplyConcurrency(o), limit' \in 1 .. MaxConcurrency
  PROVE  Ranges' /\ Saved'
  <1>1. /\ resize \in [Operators -> Resizes] /\ InFlight(o) /\ limit' = resize[o].to
        /\ resize' = [resize EXCEPT ![o].at = "done"]
        /\ stored' = stored /\ registered' = registered
        /\ drift' = IF resize[o].at = "written" THEN drift ELSE drift \cup {"unsaved"}
    BY DEF SlotInv, Ranges, ApplyConcurrency
  <1>2. /\ resize' \in [Operators -> Resizes] /\ resize'[o].at = "done"
        /\ \A p \in Operators : p # o => resize'[p] = resize[p]
    BY <1>1 DEF Resizes
  <1>3. \A p \in Operators : InFlight(p)' => InFlight(p) /\ p # o
    BY <1>1, <1>2 DEF InFlight
  <1>4. Ranges'
    BY <1>1, <1>2 DEF SlotInv, Ranges
  <1>5. \A p \in Operators : InFlight(p)' => resize'[p].to \in 1 .. MaxConcurrency
    BY <1>2, <1>3 DEF SlotInv, Saved
  <1>6. ASSUME drift' = {}
        PROVE  /\ \A p \in Operators : ~InFlight(p)'
               /\ limit' = Normalized(stored')
    <2>1. drift = {} /\ resize[o].at = "written"
      BY <1>1, <1>6
    <2>2. \A p \in Operators : ~InFlight(p)'
      BY <1>1, <1>3, <2>1 DEF SlotInv, Saved
    <2>3. stored = resize[o].to
      BY <2>1 DEF SlotInv, Saved
    <2>4. Normalized(stored) = stored
      BY <1>1, <2>3, SlotAssumption DEF Normalized, SlotAssumption
    <2>5. Normalized(stored') = Normalized(stored)
      BY <1>1 DEF Normalized
    <2> QED
      BY <1>1, <2>2, <2>3, <2>4, <2>5
  <1>7. \A p \in Operators : resize'[p].at = "written" => InFlight(p)'
    BY DEF InFlight
  <1> QED
    BY <1>4, <1>5, <1>6, <1>7 DEF Saved

LEMMA SameConsole ==
  ASSUME SlotInv, UNCHANGED <<limit, registered, stored, resize, drift>>
  PROVE  Ranges' /\ Saved'
  BY DEF SlotInv, Ranges, Saved, InFlight, Normalized

LEMMA SameSlots ==
  ASSUME SlotInv, UNCHANGED <<limit, activeJobs, resolvers, slot>>
  PROVE  Accounted' /\ NoIdleSlot'
  BY DEF SlotInv, Accounted, NoIdleSlot

LEMMA SlotStep == SlotInv /\ [SlotNext]_slotVars => SlotInv'
  <1> SUFFICES ASSUME SlotInv, [SlotNext]_slotVars PROVE SlotInv'
    OBVIOUS
  <1>1. ASSUME NEW h \in Handlers, AcquireExecutionSlot(h) PROVE SlotInv'
    BY <1>1, AcquireStep, SameConsole DEF AcquireExecutionSlot, SlotInv
  <1>2. ASSUME NEW h \in Handlers, ReleaseExecutionSlot(h) PROVE SlotInv'
    BY <1>2, ReleaseStep, SameConsole DEF ReleaseExecutionSlot, SlotInv
  <1>3. ASSUME NEW o \in Operators, NEW n \in Requests, SetConcurrency(o, n) PROVE SlotInv'
    BY <1>3, SetStep, SameSlots DEF SetConcurrency, SlotInv
  <1>4. ASSUME NEW o \in Operators, StoreConcurrency(o) PROVE SlotInv'
    BY <1>4, StoreStep, SameSlots DEF StoreConcurrency, SlotInv
  <1>5. ASSUME NEW o \in Operators, ApplyConcurrency(o) PROVE SlotInv'
    BY <1>5, ApplyStep, ApplySaved DEF SlotInv
  <1>6. ASSUME NEW readable \in BOOLEAN, Restart(readable) PROVE SlotInv'
    BY <1>6, RestartStep DEF SlotInv
  <1>7. CASE UNCHANGED slotVars
    BY <1>7, SameConsole, SameSlots DEF slotVars, SlotInv
  <1> QED
    BY <1>1, <1>2, <1>3, <1>4, <1>5, <1>6, <1>7 DEF SlotNext, Console

\* In every reachable state the counters mean what they say.
THEOREM SlotInvariance == SlotSpec => []SlotInv
  BY SlotInitInv, SlotStep, PTL DEF SlotSpec

-----------------------------------------------------------------------------
(* What follows. *)

\* Slots are never lost, counted twice or given to two handlers (releaseExecutionSlot,
\* drainExecutionResolvers).
THEOREM SlotsAccountedHolds == SlotSpec => []SlotsAccounted
  <1>1. SlotInv => SlotsAccounted
    BY AccountedMeans DEF SlotInv
  <1> QED
    BY <1>1, SlotInvariance, PTL

\* No handler waits while a slot is free, however releases and resizes interleave.
THEOREM NoIdleSlotHolds == SlotSpec => []NoIdleSlot
  <1>1. SlotInv => NoIdleSlot
    BY DEF SlotInv
  <1> QED
    BY <1>1, SlotInvariance, PTL

\* The variables keep their types; in particular the limit stays within its range.
THEOREM SlotTypes == SlotSpec => []SlotTypeOK
  <1>1. SlotInv => SlotTypeOK
    BY AccountedMeans DEF SlotInv, Ranges, SlotTypeOK, Slots
  <1> QED
    BY <1>1, SlotInvariance, PTL

\* A restart brings back the limit in force unless calls overlapped, or a write or read failed.
THEOREM LimitIsStoredHolds == SlotSpec => []LimitIsStored
  <1>1. SlotInv => LimitIsStored
    BY DEF SlotInv, Saved, LimitIsStored, InFlight
  <1> QED
    BY <1>1, SlotInvariance, PTL

\* Slots are granted within the limit and in the order of the line.
THEOREM FairGrantHolds == SlotSpec => FairGrant
  <1> DEFINE Fair == \A h \in Handlers : slot'[h] = "held" /\ slot[h] # "held" =>
                       /\ activeJobs' <= limit'
                       /\ slot[h] = "none" => resolvers = <<>>
  <1>1. SlotInv /\ [SlotNext]_slotVars => [Fair]_slotVars
    <2> SUFFICES ASSUME SlotInv, SlotNext PROVE Fair
      OBVIOUS
    <2>1. ASSUME NEW h \in Handlers, AcquireExecutionSlot(h) PROVE Fair
      <3>1. activeJobs \in Nat /\ limit \in Nat /\ slot \in Slots
        BY AccountedMeans, SlotAssumption DEF SlotInv, Ranges, SlotAssumption
      <3>2. CASE SlotFree
        <4>1. activeJobs' = activeJobs + 1 /\ limit' = limit /\ slot' = [slot EXCEPT ![h] = "held"]
          BY <2>1, <3>2 DEF AcquireExecutionSlot
        <4>2. activeJobs < limit
          BY <3>2 DEF SlotFree
        <4>3. activeJobs' <= limit' /\ resolvers = <<>>
          BY <3>1, <4>1, <4>2 DEF SlotInv, NoIdleSlot
        <4> QED
          BY <4>3
      <3>3. CASE ~SlotFree
        BY <2>1, <3>1, <3>3 DEF AcquireExecutionSlot, Slots
      <3> QED
        BY <3>2, <3>3
    <2>2. ASSUME NEW h \in Handlers, ReleaseExecutionSlot(h) PROVE Fair
      BY <2>2, ReleaseStep
    <2>3. ASSUME NEW o \in Operators, ApplyConcurrency(o) PROVE Fair
      BY <2>3, ApplyStep
    <2>4. ASSUME NEW readable \in BOOLEAN, Restart(readable) PROVE Fair
      BY <2>4, RestartStep
    <2>5. CASE UNCHANGED slot
      BY <2>5
    <2> QED
      BY <2>1, <2>2, <2>3, <2>4, <2>5 DEF SlotNext, Console, SetConcurrency, StoreConcurrency
  <1>2. FairGrant <=> [][Fair]_slotVars
    BY DEF FairGrant
  <1> QED
    BY <1>1, <1>2, SlotInvariance, PTL DEF SlotSpec
=============================================================================
