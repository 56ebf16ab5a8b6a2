-------------------------- MODULE BuildQueueProofs -------------------------
(***************************************************************************)
(* Proofs about BuildQueue, for any builds, requests, slots and faults.    *)
(*                                                                         *)
(* The invariant IInv ties what memory and documents say of a build to     *)
(* each other: a queued document is on its way to a slot, a running one    *)
(* has its one run, an ended one has its artifact, and what a request      *)
(* decided on has not changed in this attempt.                             *)
(***************************************************************************)
EXTENDS BuildQueue, FunctionTheorems, FiniteSetTheorems, SequenceTheorems, TLAPS

Slot == [at : {"idle", "claim"} \cup RunPCs, b : Builds \cup {None}]

\* The part of OnItsWay that the dispatcher owns.
Waiting(b) ==
    \/ \E i \in DOMAIN pending : pending[i] = b
    \/ \E w \in Slots : slots[w].at = "claim" /\ slots[w].b = b

-----------------------------------------------------------------------------
(* The dispatcher.                                                         *)

(* In a finite set of numbers every rank is somebody's.                    *)
LEMMA RankSurjective ==
  ASSUME NEW n \in Nat, NEW F \in SUBSET (1 .. n), NEW k \in 1 .. Cardinality(F)
  PROVE  \E w \in F : Cardinality({v \in F : v <= w}) = k
<1> DEFINE Upto(w) == {v \in F : v <= w}
           rank == [w \in F |-> Cardinality(Upto(w))]
<1>1. IsFiniteSet(F) /\ Cardinality(F) \in Nat
  BY FS_BoundedSetOfNaturals, FS_CardinalityType
<1>2. \A w \in F : IsFiniteSet(Upto(w)) /\ Cardinality(Upto(w)) \in Nat /\ Cardinality(Upto(w)) <= Cardinality(F)
  BY <1>1, FS_Subset, FS_CardinalityType
<1>3. \A w \in F : Cardinality(Upto(w)) # 0
  BY <1>2, FS_EmptySet
<1>4. rank \in [F -> 1 .. Cardinality(F)]
  BY <1>1, <1>2, <1>3
<1>5. ASSUME NEW v \in F, NEW w \in F, v < w PROVE Cardinality(Upto(v)) # Cardinality(Upto(w))
  <2>1. Upto(v) \subseteq Upto(w) /\ w \notin Upto(v) /\ w \in Upto(w)
    <3>1. v \in Nat /\ w \in Nat /\ ~(w <= v) /\ w <= w
      BY <1>5
    <3>2. \A x \in F : x <= v => x <= w
      BY <1>5
    <3> QED BY <3>1, <3>2
  <2> HIDE DEF Upto
  <2> QED BY <2>1, <1>2, FS_Subset
<1>6. rank \in Injection(F, 1 .. Cardinality(F))
  <2>1. ASSUME NEW v \in F, NEW w \in F, v # w PROVE rank[v] # rank[w]
    BY <1>5, <2>1
  <2> HIDE DEF rank
  <2> QED BY <1>4, <2>1 DEF Injection, IsInjective
<1>7. rank \in Surjection(F, 1 .. Cardinality(F))
  <2>1. IsFiniteSet(1 .. Cardinality(F)) /\ Cardinality(1 .. Cardinality(F)) = Cardinality(F)
    BY <1>1, FS_Interval
  <2> HIDE DEF rank
  <2> QED BY <1>6, <2>1, FS_Injection
<1>8. PICK w \in F : rank[w] = k
  BY <1>7 DEF Surjection
<1> QED BY <1>8

(* pump starts the first builds and keeps the others.                      *)
LEMMA PumpFacts ==
  ASSUME NEW queue \in Seq(Builds), NEW now \in [Slots -> Slot], Pump(queue, now)
  PROVE  /\ slots' \in [Slots -> Slot] /\ pending' \in Seq(Builds)
         /\ \A w \in Slots : now[w].at # "idle" => slots'[w] = now[w]
         /\ \A w \in Slots : slots'[w] = now[w] \/ (slots'[w].at = "claim" /\ slots'[w].b \in Builds)
         /\ \A i \in DOMAIN queue :
               \/ \E w \in Slots : slots'[w].at = "claim" /\ slots'[w].b = queue[i]
               \/ \E j \in DOMAIN pending' : pending'[j] = queue[i]
<1> DEFINE free == {w \in Slots : now[w].at = "idle"}
           rank(w) == Cardinality({v \in free : v <= w})
<1>1. /\ slots' = [w \in Slots |-> IF w \in free /\ rank(w) <= Len(queue)
                                   THEN [at |-> "claim", b |-> queue[rank(w)]] ELSE now[w]]
      /\ pending' = SubSeq(queue, Cardinality(free) + 1, Len(queue))
  BY DEF Pump
<1>2. Concurrency \in Nat /\ free \in SUBSET (1 .. Concurrency)
  BY QueueAssumption DEF Slots
<1>3. IsFiniteSet(free) /\ Cardinality(free) \in Nat
  <2>1. free \in SUBSET Nat /\ \A w \in free : w <= Concurrency
    BY <1>2
  <2> HIDE DEF free
  <2> QED BY <2>1, <1>2, FS_BoundedSetOfNaturals, FS_CardinalityType
<1>4. \A w \in free : rank(w) \in Nat /\ rank(w) # 0
  <2> SUFFICES ASSUME NEW w \in free PROVE rank(w) \in Nat /\ rank(w) # 0
    OBVIOUS
  <2>1. {v \in free : v <= w} \in SUBSET free /\ w \in {v \in free : v <= w}
    BY <1>2
  <2> QED BY <2>1, <1>3, FS_Subset, FS_CardinalityType, FS_EmptySet
<1>5. \A k \in 1 .. Cardinality(free) : \E w \in free : rank(w) = k
  BY <1>2, RankSurjective
<1>6. free \subseteq Slots /\ \A w \in Slots : w \in free <=> now[w].at = "idle"
  OBVIOUS
<1>7. queue \in [1 .. Len(queue) -> Builds] /\ Len(queue) \in Nat /\ DOMAIN queue = 1 .. Len(queue)
  OBVIOUS
<1> HIDE DEF free, rank
<1>8. \A w \in Slots : w \in free /\ rank(w) <= Len(queue) => queue[rank(w)] \in Builds
  BY <1>4, <1>7
<1>9. slots' \in [Slots -> Slot]
  BY <1>1, <1>8 DEF Slot
<1>10. pending' \in Seq(Builds) /\ \A i \in 1 .. Len(queue) - Cardinality(free) :
          i \in DOMAIN pending' /\ pending'[i] = queue[i + Cardinality(free)]
  <2>1. Cardinality(free) + 1 \in Int /\ Len(queue) \in Int
    BY <1>3, <1>7
  <2>2. \A i \in Cardinality(free) + 1 .. Len(queue) : queue[i] \in Builds
    BY <1>3, <1>7
  <2>3. /\ pending' \in Seq(Builds)
        /\ Len(pending') = IF Cardinality(free) + 1 <= Len(queue) THEN Len(queue) - (Cardinality(free) + 1) + 1 ELSE 0
        /\ \A i \in 1 .. Len(queue) - (Cardinality(free) + 1) + 1 : pending'[i] = queue[Cardinality(free) + 1 + i - 1]
    BY <2>1, <2>2, <1>1, SubSeqProperties
  <2> DEFINE c == Cardinality(free)
             l == Len(queue)
  <2>4. c \in Nat /\ l \in Nat
    BY <1>3, <1>7
  <2>5. DOMAIN pending' = 1 .. Len(pending')
    BY <2>3
  <2> HIDE DEF c
  <2> QED BY <2>3, <2>4, <2>5 DEF c
<1>11. ASSUME NEW i \in DOMAIN queue
       PROVE  \/ \E w \in Slots : slots'[w].at = "claim" /\ slots'[w].b = queue[i]
              \/ \E j \in DOMAIN pending' : pending'[j] = queue[i]
  <2>1. CASE i <= Cardinality(free)
    <3>1. PICK w \in free : rank(w) = i
      BY <2>1, <1>3, <1>5, <1>7
    <3>2. slots'[w] = [at |-> "claim", b |-> queue[i]]
      BY <3>1, <1>1, <1>6, <1>7
    <3> QED BY <3>2, <1>6
  <2>2. CASE i > Cardinality(free)
    <3>1. i - Cardinality(free) \in 1 .. Len(queue) - Cardinality(free)
      BY <2>2, <1>3, <1>7
    <3>2. (i - Cardinality(free)) + Cardinality(free) = i
      BY <1>3, <1>7
    <3> QED BY <3>1, <3>2, <1>10
  <2> QED BY <2>1, <2>2, <1>3, <1>7
<1>12. \A w \in Slots : slots'[w] = now[w] \/ (slots'[w].at = "claim" /\ slots'[w].b \in Builds)
  BY <1>1, <1>8
<1>13. \A w \in Slots : now[w].at # "idle" => slots'[w] = now[w]
  BY <1>1, <1>6
<1> QED BY <1>9, <1>10, <1>11, <1>12, <1>13

(* enqueue keeps what is busy and brings the build on its way.             *)
LEMMA EnqueueFacts ==
  ASSUME TypeOK, NEW b \in Builds, Enqueue(b)
  PROVE  /\ slots' \in [Slots -> Slot] /\ pending' \in Seq(Builds)
         /\ \A w \in Slots : slots[w].at # "idle" => slots'[w] = slots[w]
         /\ \A w \in Slots : slots'[w] = slots[w] \/ (slots'[w].at = "claim" /\ slots'[w].b \in Builds)
         /\ Waiting(b)' /\ \A c : Waiting(c) => Waiting(c)'
<1>1. PICK queue, now : queue = Append(pending, b) /\ now = slots
  OBVIOUS
<1>2. /\ queue \in Seq(Builds) /\ now \in [Slots -> Slot] /\ Pump(queue, now)
  BY <1>1 DEF TypeOK, Slot, Enqueue
<1>3. /\ slots' \in [Slots -> Slot] /\ pending' \in Seq(Builds)
      /\ \A w \in Slots : now[w].at # "idle" => slots'[w] = now[w]
      /\ \A w \in Slots : slots'[w] = now[w] \/ (slots'[w].at = "claim" /\ slots'[w].b \in Builds)
      /\ \A i \in DOMAIN queue :
               \/ \E w \in Slots : slots'[w].at = "claim" /\ slots'[w].b = queue[i]
               \/ \E j \in DOMAIN pending' : pending'[j] = queue[i]
  BY <1>2, PumpFacts
<1>4. /\ \A i \in DOMAIN pending : i \in DOMAIN queue /\ queue[i] = pending[i]
      /\ Len(pending) + 1 \in DOMAIN queue /\ queue[Len(pending) + 1] = b
  BY <1>1 DEF TypeOK
<1>5. Waiting(b)'
  BY <1>3, <1>4 DEF Waiting
<1>6. ASSUME NEW c, Waiting(c) PROVE Waiting(c)'
  <2>1. CASE \E i \in DOMAIN pending : pending[i] = c
    BY <2>1, <1>3, <1>4 DEF Waiting
  <2>2. CASE \E w \in Slots : slots[w].at = "claim" /\ slots[w].b = c
    <3>1. PICK w \in Slots : slots[w].at = "claim" /\ slots[w].b = c
      BY <2>2
    <3>2. slots'[w] = slots[w]
      BY <3>1, <1>1, <1>3
    <3> QED BY <3>1, <3>2 DEF Waiting
  <2> QED BY <1>6, <2>1, <2>2 DEF Waiting
<1> QED BY <1>1, <1>3, <1>5, <1>6

(* The end of a run frees its slot only.                                   *)
LEMMA EndRunFacts ==
  ASSUME TypeOK, NEW w \in Slots, EndRun(w)
  PROVE  /\ slots' \in [Slots -> Slot] /\ pending' \in Seq(Builds)
         /\ \A v \in Slots \ {w} : slots[v].at # "idle" => slots'[v] = slots[v]
         /\ \A v \in Slots : \/ v # w /\ slots'[v] = slots[v]
                             \/ slots'[v].at = "idle"
                             \/ slots'[v].at = "claim" /\ slots'[v].b \in Builds
         /\ \A c : Waiting(c) => Waiting(c)' \/ (slots[w].at = "claim" /\ slots[w].b = c)
<1>1. PICK queue, now : queue = pending /\ now = [slots EXCEPT ![w] = Idle]
  OBVIOUS
<1>2. /\ queue \in Seq(Builds) /\ now \in [Slots -> Slot] /\ Pump(queue, now)
      /\ now[w].at = "idle" /\ \A v \in Slots \ {w} : now[v] = slots[v]
  BY <1>1 DEF TypeOK, Slot, EndRun, Idle
<1>3. /\ slots' \in [Slots -> Slot] /\ pending' \in Seq(Builds)
      /\ \A v \in Slots : now[v].at # "idle" => slots'[v] = now[v]
      /\ \A v \in Slots : slots'[v] = now[v] \/ (slots'[v].at = "claim" /\ slots'[v].b \in Builds)
      /\ \A i \in DOMAIN queue :
               \/ \E v \in Slots : slots'[v].at = "claim" /\ slots'[v].b = queue[i]
               \/ \E j \in DOMAIN pending' : pending'[j] = queue[i]
  BY <1>2, PumpFacts
<1>4. ASSUME NEW c, Waiting(c), ~(slots[w].at = "claim" /\ slots[w].b = c) PROVE Waiting(c)'
  <2>1. CASE \E i \in DOMAIN pending : pending[i] = c
    BY <2>1, <1>1, <1>3 DEF Waiting
  <2>2. CASE \E v \in Slots : slots[v].at = "claim" /\ slots[v].b = c
    <3>1. PICK v \in Slots \ {w} : slots[v].at = "claim" /\ slots[v].b = c
      BY <2>2, <1>4
    <3>2. slots'[v] = slots[v]
      BY <3>1, <1>2, <1>3
    <3> QED BY <3>1, <3>2 DEF Waiting
  <2> QED BY <1>4, <2>1, <2>2 DEF Waiting
<1>5. \A v \in Slots \ {w} : slots[v].at # "idle" => slots'[v] = slots[v]
  BY <1>2, <1>3
<1>6. \A v \in Slots : \/ v # w /\ slots'[v] = slots[v]
                       \/ slots'[v].at = "idle"
                       \/ slots'[v].at = "claim" /\ slots'[v].b \in Builds
  BY <1>2, <1>3
<1> QED BY <1>3, <1>4, <1>5, <1>6

(* The recovery enqueues every queued build behind the others.             *)
LEMMA ResumeFacts ==
  ASSUME TypeOK, Resume
  PROVE  /\ slots' \in [Slots -> Slot] /\ pending' \in Seq(Builds)
         /\ \A w \in Slots : slots[w].at # "idle" => slots'[w] = slots[w]
         /\ \A w \in Slots : slots'[w] = slots[w] \/ (slots'[w].at = "claim" /\ slots'[w].b \in Builds)
         /\ \A b \in Builds : Has(b, {"queued"}) => Waiting(b)'
<1>1. PICK left : left = {b \in Builds : Has(b, {"queued"})}
  OBVIOUS
<1>2. PICK order \in SetToSeqs(left) : Pump(pending \o order, slots)
  BY <1>1 DEF Resume
<1>3. IsFiniteSet(left) /\ Cardinality(left) \in Nat
  BY <1>1, QueueAssumption, FS_Subset, FS_CardinalityType
<1>4. order \in Injection(1 .. Cardinality(left), left)
  BY <1>2 DEF SetToSeqs, Injection, IsInjective
<1>5. order \in Surjection(1 .. Cardinality(left), left)
  <2>1. IsFiniteSet(1 .. Cardinality(left)) /\ Cardinality(1 .. Cardinality(left)) = Cardinality(left)
    BY <1>3, FS_Interval
  <2> QED BY <1>3, <1>4, <2>1, FS_Injection
<1>6. order \in Seq(Builds) /\ \A b \in left : \E i \in DOMAIN order : order[i] = b
  <2>1. order \in [1 .. Cardinality(left) -> left] /\ left \subseteq Builds
    BY <1>1, <1>4 DEF Injection
  <2> QED BY <2>1, <1>3, <1>5 DEF Surjection
<1>7. PICK queue, now : queue = pending \o order /\ now = slots
  OBVIOUS
<1>8. /\ queue \in Seq(Builds) /\ now \in [Slots -> Slot] /\ Pump(queue, now)
  BY <1>2, <1>6, <1>7 DEF TypeOK, Slot
<1>9. /\ slots' \in [Slots -> Slot] /\ pending' \in Seq(Builds)
      /\ \A w \in Slots : now[w].at # "idle" => slots'[w] = now[w]
      /\ \A w \in Slots : slots'[w] = now[w] \/ (slots'[w].at = "claim" /\ slots'[w].b \in Builds)
      /\ \A i \in DOMAIN queue :
               \/ \E w \in Slots : slots'[w].at = "claim" /\ slots'[w].b = queue[i]
               \/ \E j \in DOMAIN pending' : pending'[j] = queue[i]
  BY <1>8, PumpFacts
<1>10. ASSUME NEW b \in Builds, Has(b, {"queued"}) PROVE Waiting(b)'
  <2>1. PICK i \in DOMAIN order : order[i] = b
    BY <1>1, <1>6, <1>10
  <2>2. Len(pending) + i \in DOMAIN queue /\ queue[Len(pending) + i] = b
    BY <2>1, <1>6, <1>7 DEF TypeOK
  <2> QED BY <2>2, <1>9 DEF Waiting
<1> QED BY <1>7, <1>9, <1>10

-----------------------------------------------------------------------------
(* What keeps each part of the invariant.                                  *)

(* Runs stay matched while no run starts and running documents of runs stay
   running.                                                                *)
LEMMA KeepRunsMatch ==
  ASSUME RunsMatch, overtaken \subseteq overtaken',
         \A w \in Slots : slots'[w].at \in RunPCs =>
            slots[w].at \in RunPCs /\ slots'[w].b = slots[w].b,
         \A w \in Slots : \A b :
            slots'[w].at \in RunPCs /\ slots'[w].b = b /\ b \notin overtaken' /\ Has(b, {"running"})
              => Has(b, {"running"})'
  PROVE  RunsMatch'
<1> SUFFICES ASSUME NEW v \in Slots, NEW w \in Slots,
                    slots'[w].at \in RunPCs, slots'[w].b \notin overtaken'
             PROVE  (/\ Has(slots[w].b, {"running"})
                     /\ slots[v].at \in RunPCs /\ slots[v].b = slots[w].b => v = w)'
  BY DEF RunsMatch
<1>1. PICK b : b = slots'[w].b
  OBVIOUS
<1>2. slots[w].at \in RunPCs /\ b = slots[w].b /\ b \notin overtaken
  BY <1>1
<1>3. Has(b, {"running"})
  BY <1>2 DEF RunsMatch
<1>4. Has(b, {"running"})'
  BY <1>1, <1>3
<1>5. slots'[v].at \in RunPCs /\ slots'[v].b = slots'[w].b => v = w
  BY <1>1, <1>2 DEF RunsMatch
<1> QED BY <1>1, <1>4, <1>5 DEF Has

(* What was decided on stays decided while attempts only grow and a document
   that has ended changes by a new attempt or by the end of its cooldown.  *)
LEMMA KeepDecided ==
  ASSUME TypeOK, Known, Decided, overtaken \subseteq overtaken',
         \A r \in Requests : calls'[r].at \in {"stat", "reset"} =>
            \/ calls'[r].force
            \/ /\ calls[r].at \in {"stat", "reset"}
               /\ calls'[r].b = calls[r].b /\ calls'[r].force = calls[r].force
               /\ calls'[r].seen = calls[r].seen,
         \A b \in Builds : doc[b] # None =>
            \/ doc'[b] = doc[b]
            \/ doc'[b].attempts \in Nat /\ doc'[b].attempts > doc[b].attempts
            \/ /\ doc'[b].attempts = doc[b].attempts
               /\ b \in overtaken' \/ Has(b, {"queued", "running"})
            \/ doc'[b] = [doc[b] EXCEPT !.recent = FALSE],
         \A b \in Builds : doc[b] # None => doc'[b] # None
  PROVE  Decided'
<1> SUFFICES ASSUME NEW r \in Requests, calls'[r].at \in {"stat", "reset"}, ~calls'[r].force
             PROVE  (/\ calls[r].seen <= doc[calls[r].b].attempts
                     /\ calls[r].seen = doc[calls[r].b].attempts /\ calls[r].b \notin overtaken =>
                          \/ Has(calls[r].b, {"done"})
                          \/ Has(calls[r].b, {"error"}) /\ ~CoolingDown(calls[r].b))'
  BY DEF Decided
<1>1. PICK b, seen : b = calls[r].b /\ seen = calls[r].seen
  OBVIOUS
<1>2. /\ calls[r].at \in {"stat", "reset"} /\ ~calls[r].force
      /\ calls'[r].b = b /\ calls'[r].seen = seen
  BY <1>1
<1> SUFFICES /\ seen <= doc'[b].attempts
             /\ seen = doc'[b].attempts /\ b \notin overtaken' =>
                  Has(b, {"done"})' \/ (Has(b, {"error"})' /\ ~CoolingDown(b)')
  BY <1>2 DEF Has, CoolingDown
<1>3. b \in Builds /\ doc[b] \in Build /\ seen \in Nat /\ doc[b].attempts \in Nat /\ doc[b] # None
  BY <1>1, <1>2, QueueAssumption DEF Known, TypeOK, Build
<1>4. seen <= doc[b].attempts
  BY <1>1, <1>2 DEF Decided
<1>5. seen = doc[b].attempts /\ b \notin overtaken =>
         Has(b, {"done"}) \/ (Has(b, {"error"}) /\ ~CoolingDown(b))
  BY <1>1, <1>2 DEF Decided
<1>6. doc'[b] # None
  BY <1>3
<1>7. CASE doc'[b] = doc[b]
  BY <1>2, <1>4, <1>5, <1>7 DEF Has, CoolingDown
<1>8. CASE doc'[b].attempts \in Nat /\ doc'[b].attempts > doc[b].attempts
  BY <1>2, <1>3, <1>4, <1>8
<1>9. CASE /\ doc'[b].attempts = doc[b].attempts
           /\ b \in overtaken' \/ Has(b, {"queued", "running"})
  BY <1>2, <1>4, <1>5, <1>9 DEF Has
<1>10. CASE doc'[b] = [doc[b] EXCEPT !.recent = FALSE]
  <2>1. doc'[b].attempts = doc[b].attempts /\ doc'[b].status = doc[b].status /\ doc'[b].recent = FALSE
    BY <1>3, <1>10 DEF Build
  <2> QED BY <1>2, <1>3, <1>4, <1>5, <1>6, <2>1 DEF Has, CoolingDown
<1> QED BY <1>3, <1>7, <1>8, <1>9, <1>10

(* Queued builds stay scheduled while those that were stay on their way.   *)
LEMMA KeepScheduled ==
  ASSUME QueuedScheduledUnlessStranded, stranded \subseteq stranded',
         \A b \in Builds \ stranded' : Has(b, {"queued"})' =>
            \/ Scheduled(b)'
            \/ Has(b, {"queued"}) /\ (Scheduled(b) => Scheduled(b)')
  PROVE  QueuedScheduledUnlessStranded'
BY DEF QueuedScheduledUnlessStranded

(* Running builds keep their run while it goes on.                         *)
LEMMA KeepRunning ==
  ASSUME RunningIsRun, stranded \subseteq stranded', boot = "reset" => boot' = "reset",
         \A b \in Builds \ stranded' : Has(b, {"running"})' =>
            \/ Runs(b)' # {}
            \/ Has(b, {"running"}) /\ (Runs(b) # {} => Runs(b)' # {})
  PROVE  RunningIsRun'
BY DEF RunningIsRun

(* A build stays on its way with what waits and who answers.               *)
LEMMA KeepOnItsWay ==
  ASSUME NEW b, OnItsWay(b), Waiting(b) => Waiting(b)',
         \A r \in Requests : calls[r].at = "enqueue" /\ calls[r].b = b =>
            calls'[r].at = "enqueue" /\ calls'[r].b = b
  PROVE  OnItsWay(b)'
BY DEF OnItsWay, Waiting

(* Faults stay within their bound.                                         *)
LEMMA FaultsBounded ==
  ASSUME TypeOK, NEW kind, NoFault \/ MayFail(kind)
  PROVE  faults' \in 0..MaxFaults
BY QueueAssumption DEF TypeOK, NoFault, MayFail

-----------------------------------------------------------------------------
(* The steps of requests.                                                  *)

Call == [at : {"idle", "find", "stat", "reset", "insert", "enqueue"},
         b : Builds \cup {None}, force : BOOLEAN, seen : 0..MaxAttempts]

(* A step of a request that writes nothing and enqueues nothing.           *)
LEMMA OnlyCalls ==
  ASSUME IInv, NEW r \in Requests, NEW row \in Call,
         calls' = [calls EXCEPT ![r] = row],
         UNCHANGED <<doc, art, part, pending, slots, boot, gc, wiped, stranded,
                     overtaken>>,
         faults' \in 0..MaxFaults,
         calls[r].at # "enqueue",
         row.at # "idle" => row.b \in Builds,
         row.at \in {"stat", "reset"} => doc[row.b] # None,
         row.at \in {"stat", "reset"} /\ ~row.force =>
            /\ row.seen <= doc[row.b].attempts
            /\ row.seen = doc[row.b].attempts /\ row.b \notin overtaken =>
                 Has(row.b, {"done"}) \/ (Has(row.b, {"error"}) /\ ~CoolingDown(row.b))
  PROVE  IInv'
<1>1. TypeOK'
  BY DEF IInv, TypeOK, Call
<1>2. calls'[r] = row /\ \A q \in Requests \ {r} : calls'[q] = calls[q]
  BY DEF IInv, TypeOK
<1>3. Known'
  BY <1>2 DEF IInv, Known
<1>4. RunningIsRun' /\ RunsMatch' /\ Placed' /\ DoneHasArtifact'
  BY DEF IInv, RunningIsRun, RunsMatch, Placed, DoneHasArtifact, Has, Runs
<1>5. Decided'
  <2>1. CoolingDown(row.b)' <=> CoolingDown(row.b)
    BY DEF CoolingDown
  <2>2. ASSUME NEW q \in Requests \ {r}, calls[q].at \in {"stat", "reset"} /\ ~calls[q].force
        PROVE  /\ calls[q].seen <= doc[calls[q].b].attempts
               /\ calls[q].seen = doc[calls[q].b].attempts /\ calls[q].b \notin overtaken =>
                  Has(calls[q].b, {"done"}) \/ (Has(calls[q].b, {"error"}) /\ ~CoolingDown(calls[q].b))
    BY <2>2 DEF IInv, Decided
  <2> QED BY <1>2, <2>1, <2>2 DEF Decided, Has, CoolingDown
<1>6. QueuedScheduledUnlessStranded'
  <2>1. ASSUME NEW b \in Builds, OnItsWay(b) PROVE OnItsWay(b)'
    <3>1. Waiting(b) => Waiting(b)'
      BY DEF Waiting
    <3> QED BY <1>2, <2>1, <3>1, KeepOnItsWay
  <2> QED BY <2>1, KeepScheduled DEF IInv, Scheduled, Has
<1> QED BY <1>1, <1>3, <1>4, <1>5, <1>6 DEF IInv

LEMMA ArriveStep ==
  ASSUME IInv, NEW r \in Requests, NEW b \in Builds, NEW force \in BOOLEAN, Arrive(r, b, force)
  PROVE  IInv'
<1>1. PICK row : row = [at |-> "find", b |-> b, force |-> force, seen |-> 0]
  OBVIOUS
<1>2. row \in Call /\ row.at = "find" /\ row.b \in Builds
  BY <1>1, QueueAssumption DEF Call
<1>3. calls[r].at # "enqueue" /\ faults' \in 0..MaxFaults
  BY DEF Arrive, IInv, TypeOK
<1> QED BY <1>1, <1>2, <1>3, OnlyCalls DEF Arrive

LEMMA ReturnOnly ==
  ASSUME IInv, NEW r \in Requests, Return(r), calls[r].at # "enqueue",
         UNCHANGED <<doc, art, part, pending, slots, boot, gc, wiped, stranded,
                     overtaken>>,
         faults' \in 0..MaxFaults
  PROVE  IInv'
<1>1. NoCall \in Call /\ NoCall.at = "idle"
  BY QueueAssumption DEF NoCall, Call
<1> QED BY <1>1, OnlyCalls DEF Return

LEMMA FindStep ==
  ASSUME IInv, NEW r \in Requests, Find(r)
  PROVE  IInv'
<1>1. PICK b, row : b = calls[r].b /\ row = calls[r]
  OBVIOUS
<1>2. /\ row \in Call /\ row.at = "find" /\ row.b = b /\ b \in Builds
      /\ calls[r].at # "enqueue" /\ doc[b] \in Build \cup {None}
      /\ UNCHANGED <<doc, art, part, pending, slots, boot, gc, wiped, stranded,
                     overtaken>>
      /\ faults' \in 0..MaxFaults
  BY <1>1 DEF Find, IInv, TypeOK, Known, Call
<1>3. CASE doc[b] = None /\ row.force /\ calls' = [calls EXCEPT ![r].force = FALSE]
  <2>1. PICK new : new = [row EXCEPT !.force = FALSE]
    OBVIOUS
  <2>2. new \in Call /\ new.at = "find" /\ new.b \in Builds /\ calls' = [calls EXCEPT ![r] = new]
    BY <1>1, <1>2, <1>3, <2>1 DEF Call
  <2> QED BY <1>2, <2>2, OnlyCalls
<1>4. CASE Return(r)
  BY <1>2, <1>4, ReturnOnly
<1>5. CASE Goto(r, "insert")
  <2>1. PICK new : new = [row EXCEPT !.at = "insert"]
    OBVIOUS
  <2>2. new \in Call /\ new.at = "insert" /\ new.b \in Builds /\ calls' = [calls EXCEPT ![r] = new]
    BY <1>1, <1>2, <1>5, <2>1 DEF Call, Goto
  <2> QED BY <1>2, <2>2, OnlyCalls
<1>6. CASE Has(b, {"done", "error"}) /\ row.force /\ Goto(r, "reset")
  <2>1. PICK new : new = [row EXCEPT !.at = "reset"]
    OBVIOUS
  <2>2. /\ new \in Call /\ new.at = "reset" /\ new.b = b /\ new.force /\ doc[new.b] # None
        /\ calls' = [calls EXCEPT ![r] = new]
    BY <1>1, <1>2, <1>6, <2>1 DEF Call, Goto, Has
  <2> QED BY <1>2, <2>2, OnlyCalls
<1>7. ASSUME NEW pc \in {"stat", "reset"}, Saw(r, b, pc),
             Has(b, {"done"}) \/ (Has(b, {"error"}) /\ ~CoolingDown(b))
      PROVE  IInv'
  <2>1. PICK new : new = [row EXCEPT !.at = pc, !.seen = doc[b].attempts]
    OBVIOUS
  <2>2. doc[b] \in Build /\ doc[b].attempts \in 0..MaxAttempts /\ doc[b].attempts \in Nat /\ doc[b] # None
    BY <1>2, <1>7, QueueAssumption DEF Has, Build
  <2>3. /\ new \in Call /\ new.at = pc /\ new.b = b /\ new.seen = doc[b].attempts
        /\ calls' = [calls EXCEPT ![r] = new]
    BY <1>1, <1>2, <1>7, <2>1, <2>2 DEF Call, Saw
  <2>4. new.seen <= doc[new.b].attempts /\ (Has(new.b, {"done"}) \/ (Has(new.b, {"error"}) /\ ~CoolingDown(new.b)))
    BY <1>7, <2>2, <2>3
  <2> QED BY <1>2, <2>2, <2>3, <2>4, OnlyCalls
<1> QED BY <1>1, <1>3, <1>4, <1>5, <1>6, <1>7 DEF Find

LEMMA StatStep ==
  ASSUME IInv, NEW r \in Requests, Stat(r)
  PROVE  IInv'
<1>1. /\ calls[r].at = "stat"
      /\ UNCHANGED <<doc, art, part, pending, slots, boot, gc, wiped, stranded,
                     overtaken>>
      /\ faults' \in 0..MaxFaults
  BY FaultsBounded DEF Stat, IInv
<1>2. CASE Return(r)
  BY <1>1, <1>2, ReturnOnly
<1>3. CASE Goto(r, "reset")
  <2>1. PICK new, row : new = [row EXCEPT !.at = "reset"] /\ row = calls[r]
    OBVIOUS
  <2>2. /\ new \in Call /\ new.at = "reset" /\ new.b = row.b /\ new.seen = row.seen
        /\ new.force = row.force /\ row.at = "stat" /\ calls' = [calls EXCEPT ![r] = new]
    BY <1>1, <1>3, <2>1 DEF Call, Goto, IInv, TypeOK
  <2>3. row.b \in Builds /\ doc[row.b] # None
    BY <1>1, <2>1 DEF IInv, Known
  <2>4. ~row.force =>
            /\ row.seen <= doc[row.b].attempts
            /\ row.seen = doc[row.b].attempts /\ row.b \notin overtaken =>
                 Has(row.b, {"done"}) \/ (Has(row.b, {"error"}) /\ ~CoolingDown(row.b))
    BY <1>1, <2>1 DEF IInv, Decided
  <2> QED BY <1>1, <2>2, <2>3, <2>4, OnlyCalls
<1> QED BY <1>2, <1>3 DEF Stat

LEMMA RejectedStep ==
  ASSUME IInv, NEW r \in Requests, Rejected(r)
  PROVE  IInv'
<1>1. faults' \in 0..MaxFaults
  BY FaultsBounded DEF Rejected, IInv
<1> QED BY <1>1, ReturnOnly DEF Rejected

(* A document is queued by the insert or by the reset.                     *)
LEMMA QueuedByRequest ==
  ASSUME IInv, NEW r \in Requests, NEW b \in Builds, NEW new \in Build,
         calls[r].at \in {"reset", "insert"}, calls[r].b = b,
         doc[b] = None \/ (Resettable(b) /\ new.attempts > doc[b].attempts),
         new.status = "queued",
         doc' = [doc EXCEPT ![b] = new], Goto(r, "enqueue"),
         UNCHANGED <<art, part, pending, slots, boot, gc, faults, wiped,
                     stranded, overtaken>>
  PROVE  IInv'
<1> USE DEF IInv
<1>1. TypeOK'
  BY DEF TypeOK, Goto
<1>2. /\ calls'[r].at = "enqueue" /\ calls'[r].b = b
      /\ \A q \in Requests \ {r} : calls'[q] = calls[q]
  BY DEF TypeOK, Goto
<1>3. doc'[b] = new /\ \A c \in Builds \ {b} : doc'[c] = doc[c]
  BY DEF TypeOK
<1>4. new # None /\ \A c \in Builds : doc[c] # None => doc'[c] # None
  BY <1>3, QueueAssumption
<1>5. Known'
  <2>1. \A w \in Slots : /\ slots[w].at # "idle" => slots[w].b \in Builds
                         /\ slots[w].at \in RunPCs => doc'[slots[w].b] # None
    BY <1>4 DEF Known, RunPCs
  <2>2. \A q \in Requests \ {r} :
            /\ calls[q].at # "idle" => calls[q].b \in Builds
            /\ calls[q].at \in {"stat", "reset"} => doc'[calls[q].b] # None
    BY <1>4 DEF Known
  <2> QED BY <1>2, <2>1, <2>2 DEF Known
<1>6. RunsMatch'
  <2>1. ASSUME NEW w \in Slots, NEW c, slots'[w].at \in RunPCs, slots'[w].b = c, Has(c, {"running"})
        PROVE  Has(c, {"running"})'
    <3>1. c \in Builds /\ c # b
      BY <2>1 DEF Known, RunPCs, Has, Resettable
    <3> QED BY <1>3, <2>1, <3>1 DEF Has
  <2> QED BY <2>1, KeepRunsMatch
<1>7. Placed'
  BY DEF Placed
<1>8. DoneHasArtifact'
  BY <1>3 DEF DoneHasArtifact, Has
<1>9. RunningIsRun'
  <2>1. \A c : Runs(c)' = Runs(c)
    BY DEF Runs
  <2>2. \A c \in Builds : Has(c, {"running"})' => Has(c, {"running"})
    BY <1>3 DEF Has
  <2> QED BY <2>1, <2>2, KeepRunning
<1>10. Decided'
  <2>1. \A q \in Requests : calls'[q].at \in {"stat", "reset"} => q # r /\ calls'[q] = calls[q]
    BY <1>2
  <2>2. new.attempts \in Nat
    BY QueueAssumption DEF Build
  <2> QED BY <1>3, <1>4, <2>1, <2>2, KeepDecided
<1>11. QueuedScheduledUnlessStranded'
  <2>1. ASSUME NEW c \in Builds, Scheduled(c) PROVE Scheduled(c)'
    <3>1. CASE OnItsWay(c)
      <4>1. Waiting(c) => Waiting(c)'
        BY DEF Waiting
      <4>2. \A q \in Requests : calls[q].at = "enqueue" /\ calls[q].b = c =>
              calls'[q].at = "enqueue" /\ calls'[q].b = c
        BY <1>2
      <4> QED BY <3>1, <4>1, <4>2, KeepOnItsWay DEF Scheduled
    <3> QED BY <2>1, <3>1 DEF Scheduled
  <2>2. Scheduled(b)'
    BY <1>2 DEF Scheduled, OnItsWay
  <2>3. \A c \in Builds \ {b} : Has(c, {"queued"})' => Has(c, {"queued"})
    BY <1>3 DEF Has
  <2> QED BY <2>1, <2>2, <2>3, KeepScheduled
<1> QED BY <1>1, <1>5, <1>6, <1>7, <1>8, <1>9, <1>10, <1>11

LEMMA ResetStep ==
  ASSUME IInv, NEW r \in Requests, Reset(r)
  PROVE  IInv'
<1>1. PICK b : b = calls[r].b
  OBVIOUS
<1>2. /\ calls[r].at = "reset" /\ b \in Builds /\ doc[b] \in Build
      /\ UNCHANGED <<art, part, pending, slots, boot, gc, faults, wiped,
                     stranded, overtaken>>
  BY <1>1 DEF Reset, IInv, Known, TypeOK
<1>3. CASE Return(r) /\ UNCHANGED doc
  <2>1. faults' \in 0..MaxFaults
    BY <1>2 DEF IInv, TypeOK
  <2> QED BY <1>2, <1>3, <2>1, ReturnOnly
<1>4. CASE /\ Resettable(b) /\ doc[b].attempts < MaxAttempts
           /\ doc' = [doc EXCEPT ![b] = [status |-> "queued", path |-> FALSE,
                                          attempts |-> doc[b].attempts + 1,
                                          recent |-> FALSE]]
           /\ Goto(r, "enqueue")
  <2>1. PICK new : new = [status |-> "queued", path |-> FALSE,
                          attempts |-> doc[b].attempts + 1, recent |-> FALSE]
    OBVIOUS
  <2>2. doc[b].attempts \in 1..MaxAttempts /\ MaxAttempts \in Nat
    BY <1>2, QueueAssumption DEF Build
  <2>3. doc[b].attempts + 1 \in 1..MaxAttempts /\ doc[b].attempts + 1 > doc[b].attempts
    BY <1>4, <2>2
  <2>4. /\ new \in Build /\ new.status = "queued" /\ new.attempts > doc[b].attempts
        /\ doc' = [doc EXCEPT ![b] = new]
    BY <1>4, <2>1, <2>3 DEF Build
  <2> QED BY <1>1, <1>2, <1>4, <2>4, QueuedByRequest
<1> QED BY <1>1, <1>3, <1>4 DEF Reset

LEMMA InsertStep ==
  ASSUME IInv, NEW r \in Requests, Insert(r)
  PROVE  IInv'
<1>1. PICK b : b = calls[r].b
  OBVIOUS
<1>2. /\ calls[r].at = "insert" /\ b \in Builds
      /\ UNCHANGED <<art, part, pending, slots, boot, gc, faults, wiped,
                     stranded, overtaken>>
  BY <1>1 DEF Insert, IInv, Known, TypeOK
<1>3. CASE Return(r) /\ UNCHANGED doc
  <2>1. faults' \in 0..MaxFaults
    BY <1>2 DEF IInv, TypeOK
  <2> QED BY <1>2, <1>3, <2>1, ReturnOnly
<1>4. CASE /\ doc[b] = None
           /\ doc' = [doc EXCEPT ![b] = [status |-> "queued", path |-> FALSE,
                                          attempts |-> 1, recent |-> FALSE]]
           /\ Goto(r, "enqueue")
  <2>1. PICK new : new = [status |-> "queued", path |-> FALSE, attempts |-> 1, recent |-> FALSE]
    OBVIOUS
  <2>2. new \in Build /\ new.status = "queued" /\ doc' = [doc EXCEPT ![b] = new]
    BY <1>4, <2>1, QueueAssumption DEF Build
  <2> QED BY <1>1, <1>2, <1>4, <2>2, QueuedByRequest
<1> QED BY <1>1, <1>3, <1>4 DEF Insert

LEMMA AnsweredStep ==
  ASSUME IInv, NEW r \in Requests, Answered(r)
  PROVE  IInv'
<1> USE DEF IInv
<1>1. PICK b : b = calls[r].b
  OBVIOUS
<1>2. /\ calls[r].at = "enqueue" /\ b \in Builds /\ Enqueue(b) /\ calls' = [calls EXCEPT ![r] = NoCall]
      /\ UNCHANGED <<doc, art, part, boot, gc, faults, wiped, stranded, overtaken>>
  BY <1>1 DEF Answered, Known, Return
<1>3. /\ slots' \in [Slots -> Slot] /\ pending' \in Seq(Builds)
      /\ \A w \in Slots : slots[w].at # "idle" => slots'[w] = slots[w]
      /\ \A w \in Slots : slots'[w] = slots[w] \/ (slots'[w].at = "claim" /\ slots'[w].b \in Builds)
      /\ Waiting(b)' /\ \A c : Waiting(c) => Waiting(c)'
  BY <1>2, EnqueueFacts
<1>4. calls'[r] = NoCall /\ \A q \in Requests \ {r} : calls'[q] = calls[q]
  BY <1>2 DEF TypeOK
<1>5. TypeOK'
  <2>1. NoCall \in Call
    BY QueueAssumption DEF NoCall, Call
  <2> QED BY <1>2, <1>3, <2>1 DEF TypeOK, Slot, Call
<1>6. \A w \in Slots : slots'[w].at \in RunPCs => slots'[w] = slots[w]
  BY <1>3 DEF RunPCs
<1>7. Known'
  <2>1. \A w \in Slots : /\ slots'[w].at # "idle" => slots'[w].b \in Builds
                         /\ slots'[w].at \in RunPCs => doc[slots'[w].b] # None
    BY <1>3, <1>6 DEF Known
  <2>2. \A q \in Requests :
            /\ calls'[q].at # "idle" => calls'[q].b \in Builds
            /\ calls'[q].at \in {"stat", "reset"} => doc[calls'[q].b] # None
    BY <1>4 DEF Known, NoCall
  <2> QED BY <1>2, <2>1, <2>2 DEF Known
<1>8. RunsMatch'
  BY <1>2, <1>6, KeepRunsMatch DEF Has
<1>9. Placed'
  BY <1>2, <1>6 DEF Placed, RunPCs
<1>10. DoneHasArtifact'
  BY <1>2 DEF DoneHasArtifact, Has
<1>11. RunningIsRun'
  <2>1. \A c : Runs(c) \subseteq Runs(c)'
    BY <1>3 DEF Runs, RunPCs
  <2> QED BY <1>2, <2>1, KeepRunning DEF Has
<1>12. Decided'
  <2>1. \A q \in Requests : calls'[q].at \in {"stat", "reset"} => calls'[q] = calls[q]
    BY <1>4 DEF NoCall
  <2>2. doc' = doc /\ overtaken' = overtaken
    BY <1>2
  <2> QED BY <2>1, <2>2, KeepDecided
<1>13. QueuedScheduledUnlessStranded'
  <2>1. Scheduled(b)'
    BY <1>3 DEF Scheduled, OnItsWay, Waiting
  <2>2. ASSUME NEW c \in Builds \ {b}, Scheduled(c) PROVE Scheduled(c)'
    <3>1. CASE OnItsWay(c)
      <4>1. \A q \in Requests : calls[q].at = "enqueue" /\ calls[q].b = c =>
              calls'[q].at = "enqueue" /\ calls'[q].b = c
        BY <1>1, <1>4, <2>2
      <4> QED BY <1>3, <3>1, <4>1, KeepOnItsWay DEF Scheduled
    <3> QED BY <1>2, <2>2, <3>1 DEF Scheduled
  <2> QED BY <1>2, <2>1, <2>2, KeepScheduled DEF Has
<1> QED BY <1>5, <1>7, <1>8, <1>9, <1>10, <1>11, <1>12, <1>13

LEMMA AnswerLostStep ==
  ASSUME IInv, NEW r \in Requests, AnswerLost(r)
  PROVE  IInv'
<1> USE DEF IInv
<1>1. PICK b : b = calls[r].b
  OBVIOUS
<1>2. /\ calls[r].at = "enqueue" /\ b \in Builds /\ calls' = [calls EXCEPT ![r] = NoCall]
      /\ stranded' = stranded \cup {b} /\ faults < MaxFaults /\ faults' = faults + 1
      /\ UNCHANGED <<doc, art, part, pending, slots, boot, gc, wiped, overtaken>>
  BY <1>1 DEF AnswerLost, Known, Return, MayFail
<1>3. calls'[r] = NoCall /\ \A q \in Requests \ {r} : calls'[q] = calls[q]
  BY <1>2 DEF TypeOK
<1>4. TypeOK'
  <2>1. NoCall \in Call /\ faults' \in 0..MaxFaults
    BY <1>2, QueueAssumption DEF NoCall, Call, TypeOK
  <2> QED BY <1>2, <2>1 DEF TypeOK, Call
<1>5. Known'
  <2>1. \A q \in Requests :
            /\ calls'[q].at # "idle" => calls'[q].b \in Builds
            /\ calls'[q].at \in {"stat", "reset"} => doc[calls'[q].b] # None
    BY <1>3 DEF Known, NoCall
  <2> QED BY <1>2, <2>1 DEF Known
<1>6. RunsMatch' /\ Placed' /\ DoneHasArtifact'
  BY <1>2 DEF RunsMatch, Placed, DoneHasArtifact, Has
<1>7. RunningIsRun'
  BY <1>2, KeepRunning DEF Has, Runs
<1>8. Decided'
  <2>1. \A q \in Requests : calls'[q].at \in {"stat", "reset"} => calls'[q] = calls[q]
    BY <1>3 DEF NoCall
  <2>2. doc' = doc /\ overtaken' = overtaken
    BY <1>2
  <2> QED BY <2>1, <2>2, KeepDecided
<1>9. QueuedScheduledUnlessStranded'
  <2>1. ASSUME NEW c \in Builds \ stranded', Scheduled(c) PROVE Scheduled(c)'
    <3>1. CASE OnItsWay(c)
      <4>1. Waiting(c) => Waiting(c)'
        BY <1>2 DEF Waiting
      <4>2. \A q \in Requests : calls[q].at = "enqueue" /\ calls[q].b = c =>
              calls'[q].at = "enqueue" /\ calls'[q].b = c
        BY <1>1, <1>2, <1>3, <2>1
      <4> QED BY <3>1, <4>1, <4>2, KeepOnItsWay DEF Scheduled
    <3> QED BY <1>2, <2>1, <3>1 DEF Scheduled
  <2> QED BY <1>2, <2>1, KeepScheduled DEF Has
<1> QED BY <1>4, <1>5, <1>6, <1>7, <1>8, <1>9

-----------------------------------------------------------------------------
(* The steps of runs.                                                      *)

(* A run that ends, or does not start, leaves what the invariant says of the
   others, if it leaves its own build with an artifact, off "running" and not
   waiting for it.                                                         *)
LEMMA RunEnds ==
  ASSUME IInv, NEW w \in Slots, NEW b \in Builds,
         slots[w].at \in {"claim"} \cup RunPCs, slots[w].b = b, EndRun(w),
         doc' \in [Builds -> Build \cup {None}],
         \A c \in Builds \ {b} : doc'[c] = doc[c],
         \/ doc'[b] = doc[b]
         \/ /\ doc[b] # None /\ doc'[b] # None /\ doc'[b].attempts = doc[b].attempts
            /\ slots[w].at \in RunPCs \/ Claimable(b),
         UNCHANGED <<art, part, calls, boot, gc, wiped, overtaken>>,
         faults' \in 0..MaxFaults,
         stranded \subseteq stranded', stranded' \subseteq Builds,
         Has(b, {"running"})' => b \in stranded' \/ (slots[w].at = "claim" /\ Has(b, {"running"})),
         Has(b, {"queued"})' => b \in stranded' \/ (slots[w].at # "claim" /\ Has(b, {"queued"})),
         Has(b, {"done"})' => b \in art \cup wiped \cup overtaken
  PROVE  IInv'
<1> USE DEF IInv
<1>1. /\ slots' \in [Slots -> Slot] /\ pending' \in Seq(Builds)
      /\ \A v \in Slots \ {w} : slots[v].at # "idle" => slots'[v] = slots[v]
      /\ \A v \in Slots : \/ v # w /\ slots'[v] = slots[v]
                          \/ slots'[v].at = "idle"
                          \/ slots'[v].at = "claim" /\ slots'[v].b \in Builds
      /\ \A c : Waiting(c) => Waiting(c)' \/ (slots[w].at = "claim" /\ slots[w].b = c)
  BY EndRunFacts
<1>2. TypeOK'
  BY <1>1 DEF TypeOK, Slot
<1>3. \A c \in Builds : doc[c] # None => doc'[c] # None
  OBVIOUS
<1>4. \A v \in Slots : slots'[v].at \in RunPCs => v # w /\ slots'[v] = slots[v]
  BY <1>1 DEF RunPCs
<1>5. Known'
  <2>1. ASSUME NEW v \in Slots
        PROVE  /\ slots'[v].at # "idle" => slots'[v].b \in Builds
               /\ slots'[v].at \in RunPCs => doc'[slots'[v].b] # None
    <3>1. slots'[v].at # "idle" => slots'[v].b \in Builds
      BY <1>1 DEF Known
    <3>2. slots'[v].at \in RunPCs => doc'[slots'[v].b] # None
      <4> SUFFICES ASSUME slots'[v].at \in RunPCs PROVE doc'[slots[v].b] # None
        BY <1>4
      <4>1. slots[v].at \in RunPCs /\ slots[v].at # "idle"
        BY <1>4 DEF RunPCs
      <4>2. slots[v].b \in Builds /\ doc[slots[v].b] # None
        BY <4>1 DEF Known
      <4> QED BY <1>3, <4>2
    <3> QED BY <3>1, <3>2
  <2>2. \A q \in Requests :
            /\ calls[q].at # "idle" => calls[q].b \in Builds
            /\ calls[q].at \in {"stat", "reset"} => doc'[calls[q].b] # None
    BY <1>3 DEF Known
  <2> QED BY <2>1, <2>2 DEF Known
<1>6. RunsMatch'
  <2>1. ASSUME NEW v \in Slots, NEW c, slots'[v].at \in RunPCs, slots'[v].b = c,
               c \notin overtaken, Has(c, {"running"})
        PROVE  Has(c, {"running"})'
    <3>1. v # w /\ slots[v].at \in RunPCs /\ slots[v].b = c
      BY <1>4, <2>1
    <3>2. c \in Builds
      BY <3>1 DEF Known, RunPCs
    <3>3. doc'[c] = doc[c]
      <4>1. CASE c = b /\ slots[w].at \in RunPCs
        BY <2>1, <3>1, <4>1 DEF RunsMatch
      <4>2. CASE c = b /\ slots[w].at \notin RunPCs
        BY <2>1, <4>2 DEF Claimable, Has
      <4> QED BY <3>2, <4>1, <4>2
    <3> QED BY <2>1, <3>3 DEF Has
  <2> QED BY <1>4, <2>1, KeepRunsMatch
<1>7. Placed'
  BY <1>4 DEF Placed, RunPCs
<1>8. DoneHasArtifact'
  BY DEF DoneHasArtifact, Has
<1>9. RunningIsRun'
  <2>1. ASSUME NEW c \in Builds, c # b \/ slots[w].at = "claim", Runs(c) # {} PROVE Runs(c)' # {}
    <3>1. PICK v \in Slots : slots[v].at \in RunPCs /\ slots[v].b = c
      BY <2>1 DEF Runs
    <3>2. v # w /\ slots'[v] = slots[v]
      BY <1>1, <2>1, <3>1 DEF RunPCs
    <3> QED BY <3>1, <3>2 DEF Runs
  <2>2. \A c \in Builds \ {b} : Has(c, {"running"})' => Has(c, {"running"})
    BY DEF Has
  <2> QED BY <2>1, <2>2, KeepRunning
<1>10. Decided'
  <2>1. slots[w].at \in RunPCs => b \in overtaken' \/ Has(b, {"queued", "running"})
    BY DEF RunsMatch, Has
  <2>2. Claimable(b) => Has(b, {"queued", "running"})
    BY DEF Claimable, Has
  <2> QED BY <1>3, <2>1, <2>2, KeepDecided
<1>11. QueuedScheduledUnlessStranded'
  <2>1. ASSUME NEW c \in Builds, c # b \/ slots[w].at # "claim", Scheduled(c) PROVE Scheduled(c)'
    <3>1. CASE OnItsWay(c)
      <4>1. Waiting(c) => Waiting(c)'
        BY <1>1, <2>1
      <4> QED BY <3>1, <4>1, KeepOnItsWay DEF Scheduled
    <3> QED BY <2>1, <3>1 DEF Scheduled
  <2>2. \A c \in Builds \ {b} : Has(c, {"queued"})' => Has(c, {"queued"})
    BY DEF Has
  <2> QED BY <2>1, <2>2, KeepScheduled
<1> QED BY <1>2, <1>5, <1>6, <1>7, <1>8, <1>9, <1>10, <1>11

(* A run that goes on keeps all but what is said of the artifact.          *)
LEMMA RunGoesOn ==
  ASSUME IInv, NEW w \in Slots, NEW pc \in RunPCs,
         slots[w].at \in RunPCs, Step(w, pc),
         art' \subseteq Builds, part' \subseteq Builds, wiped' \subseteq Builds,
         UNCHANGED <<doc, calls, boot, gc, stranded, overtaken>>,
         faults' \in 0..MaxFaults,
         Placed', DoneHasArtifact'
  PROVE  IInv'
<1> USE DEF IInv
<1>1. /\ slots'[w].at = pc /\ slots'[w].b = slots[w].b /\ pending' = pending
      /\ \A v \in Slots \ {w} : slots'[v] = slots[v]
  BY DEF TypeOK, Step
<1>2. TypeOK'
  <2>1. slots' \in [Slots -> Slot]
    BY DEF TypeOK, Slot, Step
  <2> QED BY <1>1, <2>1 DEF TypeOK, Slot
<1>3. \A v \in Slots : slots'[v].b = slots[v].b /\ (slots'[v].at \in RunPCs <=> slots[v].at \in RunPCs)
  BY <1>1
<1>4. Known'
  <2>1. \A v \in Slots : slots'[v].at # "idle" => slots[v].at # "idle"
    BY <1>1 DEF RunPCs
  <2> QED BY <1>3, <2>1 DEF Known
<1>5. RunsMatch'
  BY <1>3, KeepRunsMatch DEF Has
<1>6. RunningIsRun'
  <2>1. \A c : Runs(c) \subseteq Runs(c)'
    BY <1>3 DEF Runs
  <2> QED BY <2>1, KeepRunning DEF Has
<1>7. Decided'
  BY KeepDecided
<1>8. QueuedScheduledUnlessStranded'
  <2>1. ASSUME NEW c \in Builds, Scheduled(c) PROVE Scheduled(c)'
    <3>1. CASE OnItsWay(c)
      <4>1. \A v \in Slots : slots[v].at = "claim" => slots'[v] = slots[v]
        BY <1>1 DEF RunPCs
      <4>2. Waiting(c) => Waiting(c)'
        BY <1>1, <4>1 DEF Waiting
      <4> QED BY <3>1, <4>2, KeepOnItsWay DEF Scheduled
    <3> QED BY <2>1, <3>1 DEF Scheduled
  <2> QED BY <2>1, KeepScheduled DEF Has
<1> QED BY <1>2, <1>4, <1>5, <1>6, <1>7, <1>8

LEMMA ClaimStep ==
  ASSUME IInv, NEW w \in Slots, Claim(w)
  PROVE  IInv'
<1>1. PICK b : b = slots[w].b
  OBVIOUS
<1>2. /\ slots[w].at = "claim" /\ b \in Builds /\ doc[b] \in Build \cup {None}
      /\ UNCHANGED <<art, part, calls, boot, gc, faults, wiped, stranded, overtaken>>
  BY <1>1 DEF Claim, IInv, Known, TypeOK
<1>3. CASE ~Claimable(b) /\ EndRun(w) /\ UNCHANGED doc
  <2>1. doc' \in [Builds -> Build \cup {None}] /\ faults' \in 0..MaxFaults /\ stranded' \subseteq Builds
    BY <1>2, <1>3 DEF IInv, TypeOK
  <2>2. /\ Has(b, {"running"})' => Has(b, {"running"})
        /\ ~Has(b, {"queued"})'
        /\ Has(b, {"done"})' => b \in art \cup wiped \cup overtaken
    BY <1>2, <1>3 DEF Has, Claimable, IInv, DoneHasArtifact
  <2> QED BY <1>1, <1>2, <1>3, <2>1, <2>2, RunEnds
<1>4. CASE Claimable(b) /\ doc' = [doc EXCEPT ![b].status = "running"] /\ Step(w, "build")
  <2> USE DEF IInv
  <2>1. /\ slots'[w].at = "build" /\ slots'[w].b = b /\ pending' = pending
        /\ \A v \in Slots \ {w} : slots'[v] = slots[v]
    BY <1>1, <1>4 DEF TypeOK, Step
  <2>2. /\ doc[b] \in Build /\ doc[b].status = "queued" /\ \A c \in Builds \ {b} : doc'[c] = doc[c]
        /\ doc'[b] \in Build /\ doc'[b].status = "running" /\ doc'[b].attempts = doc[b].attempts
    BY <1>2, <1>4 DEF Claimable, Has, TypeOK, Build
  <2>3. TypeOK'
    <3>1. slots' \in [Slots -> Slot]
      BY <1>4 DEF TypeOK, Slot, Step, RunPCs
    <3>2. doc' \in [Builds -> Build \cup {None}]
      BY <1>2, <1>4, <2>2 DEF TypeOK
    <3> QED BY <1>2, <2>1, <3>1, <3>2 DEF TypeOK, Slot
  <2>4. \A c \in Builds : doc[c] # None => doc'[c] # None
    BY <2>2, QueueAssumption
  <2>5. Known'
    <3>1. ASSUME NEW v \in Slots
          PROVE  /\ slots'[v].at # "idle" => slots'[v].b \in Builds
                 /\ slots'[v].at \in RunPCs => doc'[slots[v].b] # None /\ slots'[v].b = slots[v].b
      <4>1. CASE v = w
        BY <1>1, <1>2, <2>1, <2>2, <4>1, QueueAssumption
      <4>2. CASE v # w
        <5>1. slots'[v].at \in RunPCs => slots[v].b \in Builds /\ doc[slots[v].b] # None
          BY <2>1, <4>2 DEF Known, RunPCs
        <5> QED BY <2>1, <2>4, <4>2, <5>1 DEF Known
      <4> QED BY <4>1, <4>2
    <3>2. \A q \in Requests :
            /\ calls[q].at # "idle" => calls[q].b \in Builds
            /\ calls[q].at \in {"stat", "reset"} => doc'[calls[q].b] # None
      BY <2>4 DEF Known
    <3> QED BY <1>2, <3>1, <3>2 DEF Known
  <2>6. ASSUME NEW v \in Slots, slots[v].at \in RunPCs, slots[v].b = b PROVE b \in overtaken
    BY <2>2, <2>6 DEF RunsMatch, Has
  <2>7. RunsMatch'
    <3> SUFFICES ASSUME NEW u \in Slots, NEW v \in Slots,
                        slots'[v].at \in RunPCs, slots'[v].b \notin overtaken
                 PROVE  /\ Has(slots[v].b, {"running"})'
                        /\ slots'[u].at \in RunPCs /\ slots'[u].b = slots'[v].b => u = v
      BY <1>2 DEF RunsMatch
    <3>1. CASE v = w
      <4>1. Has(slots[v].b, {"running"})'
        BY <2>1, <2>2, <3>1, QueueAssumption DEF Has
      <4>2. slots'[u].at \in RunPCs /\ slots'[u].b = slots'[v].b => u = v
        BY <2>1, <2>6, <3>1
      <4> QED BY <4>1, <4>2
    <3>2. CASE v # w
      <4>1. PICK c : c = slots[v].b
        OBVIOUS
      <4>2. slots'[v] = slots[v] /\ c \notin overtaken /\ Has(c, {"running"}) /\ c \in Builds
        BY <2>1, <3>2, <4>1 DEF RunsMatch, Known, RunPCs
      <4>3. c # b
        BY <2>2, <4>2 DEF Has
      <4>4. Has(slots[v].b, {"running"})'
        BY <2>2, <4>1, <4>2, <4>3 DEF Has
      <4>5. slots'[u].at \in RunPCs /\ slots'[u].b = slots'[v].b => u = v
        BY <2>1, <4>1, <4>2, <4>3 DEF RunsMatch
      <4> QED BY <4>4, <4>5
    <3> QED BY <3>1, <3>2
  <2>8. Placed'
    BY <1>2, <2>1 DEF Placed, RunPCs
  <2>9. DoneHasArtifact'
    BY <1>2, <2>2 DEF DoneHasArtifact, Has
  <2>10. RunningIsRun'
    <3>1. Runs(b)' # {}
      BY <2>1 DEF Runs, RunPCs
    <3>2. ASSUME NEW c \in Builds, Runs(c) # {} PROVE Runs(c)' # {}
      <4>1. PICK v \in Slots : slots[v].at \in RunPCs /\ slots[v].b = c
        BY <3>2 DEF Runs
      <4>2. v # w
        BY <1>2, <4>1 DEF RunPCs
      <4> QED BY <2>1, <4>1, <4>2 DEF Runs
    <3>3. \A c \in Builds \ {b} : Has(c, {"running"})' => Has(c, {"running"})
      BY <2>2 DEF Has
    <3> QED BY <1>2, <3>1, <3>2, <3>3, KeepRunning
  <2>11. Decided'
    <3>1. Has(b, {"queued", "running"})
      BY <1>4 DEF Claimable, Has
    <3> QED BY <1>2, <2>2, <2>4, <3>1, KeepDecided
  <2>12. QueuedScheduledUnlessStranded'
    <3>1. ASSUME NEW c \in Builds \ {b}, Scheduled(c) PROVE Scheduled(c)'
      <4>1. CASE OnItsWay(c)
        <5>1. \A v \in Slots : slots[v].at = "claim" /\ slots[v].b = c => slots'[v] = slots[v]
          BY <1>1, <2>1, <3>1
        <5>2. Waiting(c) => Waiting(c)'
          BY <2>1, <5>1 DEF Waiting
        <5> QED BY <1>2, <4>1, <5>2, KeepOnItsWay DEF Scheduled
      <4> QED BY <1>2, <3>1, <4>1 DEF Scheduled
    <3>2. ~Has(b, {"queued"})' /\ \A c \in Builds \ {b} : Has(c, {"queued"})' => Has(c, {"queued"})
      BY <2>2 DEF Has
    <3> QED BY <1>2, <3>1, <3>2, KeepScheduled
  <2> QED BY <2>3, <2>5, <2>7, <2>8, <2>9, <2>10, <2>11, <2>12
<1> QED BY <1>1, <1>3, <1>4 DEF Claim

LEMMA PackStep ==
  ASSUME IInv, NEW w \in Slots, Pack(w)
  PROVE  IInv'
<1>1. PICK pc \in {"write", "fail"} : Step(w, pc)
  BY DEF Pack
<1>2. /\ slots[w].at = "build" /\ slots'[w].at = pc /\ \A v \in Slots \ {w} : slots'[v] = slots[v]
      /\ UNCHANGED <<doc, art, part, calls, boot, gc, faults, wiped, stranded, overtaken>>
  BY <1>1 DEF Pack, Step, IInv, TypeOK
<1>3. Placed' /\ DoneHasArtifact'
  BY <1>2 DEF IInv, Placed, DoneHasArtifact, Has
<1>4. slots[w].at \in RunPCs /\ pc \in RunPCs
  BY <1>2 DEF RunPCs
<1>5. art' \subseteq Builds /\ part' \subseteq Builds /\ wiped' \subseteq Builds /\ faults' \in 0..MaxFaults
  BY <1>2 DEF IInv, TypeOK
<1> QED BY <1>1, <1>2, <1>3, <1>4, <1>5, RunGoesOn

LEMMA WritePartStep ==
  ASSUME IInv, NEW w \in Slots, WritePart(w)
  PROVE  IInv'
<1>1. PICK pc \in {"rm", "fail"} : Step(w, pc)
  BY DEF WritePart
<1>2. /\ slots[w].at = "write" /\ slots'[w].at = pc /\ \A v \in Slots \ {w} : slots'[v] = slots[v]
      /\ UNCHANGED <<doc, art, calls, boot, gc, wiped, stranded, overtaken>>
  BY <1>1 DEF WritePart, Step, IInv, TypeOK
<1>3. faults' \in 0..MaxFaults
  BY FaultsBounded DEF WritePart, IInv
<1>4. Placed' /\ DoneHasArtifact'
  BY <1>2 DEF IInv, Placed, DoneHasArtifact, Has
<1>5. slots[w].at \in RunPCs /\ pc \in RunPCs
  BY <1>2 DEF RunPCs
<1>6. slots[w].b \in Builds /\ part' \subseteq part \cup {slots[w].b}
  BY <1>2 DEF WritePart, IInv, Known
<1>7. art' \subseteq Builds /\ part' \subseteq Builds /\ wiped' \subseteq Builds
  BY <1>2, <1>6 DEF IInv, TypeOK
<1> QED BY <1>1, <1>2, <1>3, <1>4, <1>5, <1>7, RunGoesOn

LEMMA RemoveOldStep ==
  ASSUME IInv, NEW w \in Slots, RemoveOld(w)
  PROVE  IInv'
<1>1. PICK b : b = slots[w].b
  OBVIOUS
<1>2. /\ slots[w].at = "rm" /\ Step(w, "rename") /\ slots'[w].at = "rename"
      /\ \A v \in Slots \ {w} : slots'[v] = slots[v]
      /\ art \ {b} \subseteq art' /\ art' \subseteq art
      /\ UNCHANGED <<doc, part, calls, boot, gc, wiped, stranded, overtaken>>
  BY <1>1 DEF RemoveOld, Step, IInv, TypeOK
<1>3. slots[w].at \in RunPCs /\ "rename" \in RunPCs
  BY <1>2 DEF RunPCs
<1>4. b \notin overtaken => Has(b, {"running"}) /\ \A v \in Slots : slots[v].at = "done" => slots[v].b # b
  BY <1>1, <1>2, <1>3 DEF IInv, RunsMatch, RunPCs
<1>5. Placed'
  <2> SUFFICES ASSUME NEW v \in Slots, slots'[v].at = "done", slots'[v].b \notin wiped \cup overtaken
               PROVE  slots'[v].b \in art'
    BY <1>2 DEF Placed
  <2>1. slots'[v] = slots[v]
    BY <1>2
  <2>2. slots[v].b \in art /\ slots[v].b # b
    BY <1>4, <2>1 DEF IInv, Placed
  <2> QED BY <1>2, <2>1, <2>2
<1>6. DoneHasArtifact'
  BY <1>2, <1>4 DEF IInv, DoneHasArtifact, Has
<1>7. art' \subseteq Builds /\ part' \subseteq Builds /\ wiped' \subseteq Builds
  BY <1>2 DEF IInv, TypeOK
<1>8. faults' \in 0..MaxFaults
  BY FaultsBounded DEF RemoveOld, IInv
<1> QED BY <1>2, <1>3, <1>5, <1>6, <1>7, <1>8, RunGoesOn

LEMMA RenameStep ==
  ASSUME IInv, NEW w \in Slots, Rename(w)
  PROVE  IInv'
<1>1. PICK b : b = slots[w].b
  OBVIOUS
<1>2. /\ slots[w].at = "rename" /\ slots[w].at \in RunPCs /\ {"done", "fail"} \subseteq RunPCs /\ b \in Builds
      /\ UNCHANGED <<doc, calls, boot, gc, stranded, overtaken>>
      /\ faults' \in 0..MaxFaults
  BY <1>1, FaultsBounded DEF Rename, IInv, Known, RunPCs
<1>3. CASE /\ art' = art \cup {b} /\ part' = part \ {b} /\ wiped' = wiped \ {b}
           /\ Step(w, "done")
  <2>1. slots'[w].b = b /\ \A v \in Slots \ {w} : slots'[v] = slots[v]
    BY <1>1, <1>3 DEF Step, IInv, TypeOK
  <2>2. Placed'
    <3> SUFFICES ASSUME NEW v \in Slots, slots'[v].at = "done", slots'[v].b \notin wiped' \cup overtaken
                 PROVE  slots'[v].b \in art'
      BY <1>2 DEF Placed
    <3>1. CASE slots'[v].b = b
      BY <1>3, <3>1
    <3>2. CASE slots'[v].b # b
      BY <1>3, <2>1, <3>2 DEF IInv, Placed
    <3> QED BY <3>1, <3>2
  <2>3. DoneHasArtifact'
    BY <1>2, <1>3 DEF IInv, DoneHasArtifact, Has
  <2>4. art' \subseteq Builds /\ part' \subseteq Builds /\ wiped' \subseteq Builds
    BY <1>2, <1>3 DEF IInv, TypeOK
  <2> QED BY <1>2, <1>3, <2>2, <2>3, <2>4, RunGoesOn
<1>4. CASE Step(w, "fail") /\ UNCHANGED <<art, part, wiped>>
  <2>1. slots'[w].at = "fail" /\ \A v \in Slots \ {w} : slots'[v] = slots[v]
    BY <1>4 DEF Step, IInv, TypeOK
  <2>2. Placed' /\ DoneHasArtifact'
    BY <1>2, <1>4, <2>1 DEF IInv, Placed, DoneHasArtifact, Has
  <2>3. art' \subseteq Builds /\ part' \subseteq Builds /\ wiped' \subseteq Builds
    BY <1>4 DEF IInv, TypeOK
  <2> QED BY <1>2, <1>4, <2>2, <2>3, RunGoesOn
<1> QED BY <1>1, <1>3, <1>4 DEF Rename

LEMMA DoneStep ==
  ASSUME IInv, NEW w \in Slots, Done(w)
  PROVE  IInv'
<1>1. PICK b : b = slots[w].b
  OBVIOUS
<1>2. /\ slots[w].at = "done" /\ slots[w].at \in RunPCs /\ b \in Builds /\ doc[b] \in Build
      /\ doc' = [doc EXCEPT ![b].status = "done", ![b].path = TRUE, ![b].recent = TRUE]
      /\ EndRun(w) /\ UNCHANGED <<art, part, calls, boot, gc, faults, wiped, stranded, overtaken>>
  BY <1>1 DEF Done, MarkDone, IInv, Known, TypeOK, RunPCs
<1>3. doc'[b] \in Build /\ doc'[b].attempts = doc[b].attempts /\ doc'[b].status = "done"
  BY <1>2 DEF Build, IInv, TypeOK
<1>4. doc' \in [Builds -> Build \cup {None}] /\ \A c \in Builds \ {b} : doc'[c] = doc[c]
  BY <1>2, <1>3 DEF IInv, TypeOK
<1>5. ~Has(b, {"running"})' /\ ~Has(b, {"queued"})'
  BY <1>3 DEF Has
<1>6. b \in art \cup wiped \cup overtaken
  BY <1>1, <1>2 DEF IInv, Placed
<1>7. faults' \in 0..MaxFaults /\ stranded' \subseteq Builds /\ doc[b] # None /\ doc'[b] # None
  BY <1>2, <1>3, QueueAssumption DEF IInv, TypeOK
<1> QED BY <1>1, <1>2, <1>3, <1>4, <1>5, <1>6, <1>7, RunEnds

LEMMA FailStep ==
  ASSUME IInv, NEW w \in Slots, Fail(w)
  PROVE  IInv'
<1>1. PICK b : b = slots[w].b
  OBVIOUS
<1>2. /\ slots[w].at = "fail" /\ slots[w].at \in RunPCs /\ b \in Builds /\ doc[b] \in Build
      /\ doc' = [doc EXCEPT ![b].status = "error", ![b].recent = TRUE]
      /\ EndRun(w) /\ UNCHANGED <<art, part, calls, boot, gc, faults, wiped, stranded, overtaken>>
  BY <1>1 DEF Fail, IInv, Known, TypeOK, RunPCs
<1>3. doc'[b] \in Build /\ doc'[b].attempts = doc[b].attempts /\ doc'[b].status = "error"
  BY <1>2 DEF Build, IInv, TypeOK
<1>4. doc' \in [Builds -> Build \cup {None}] /\ \A c \in Builds \ {b} : doc'[c] = doc[c]
  BY <1>2, <1>3 DEF IInv, TypeOK
<1>5. ~Has(b, {"running"})' /\ ~Has(b, {"queued"})' /\ ~Has(b, {"done"})'
  BY <1>3 DEF Has
<1>6. faults' \in 0..MaxFaults /\ stranded' \subseteq Builds /\ doc[b] # None /\ doc'[b] # None
  BY <1>2, <1>3, QueueAssumption DEF IInv, TypeOK
<1> QED BY <1>1, <1>2, <1>3, <1>4, <1>5, <1>6, RunEnds

LEMMA ClaimRejectedStep ==
  ASSUME IInv, NEW w \in Slots, ClaimRejected(w)
  PROVE  IInv'
<1>1. PICK b : b = slots[w].b
  OBVIOUS
<1>2. /\ slots[w].at = "claim" /\ b \in Builds /\ MayFail("reject")
      /\ stranded' = IF Claimable(b) THEN stranded \cup {b} ELSE stranded
      /\ EndRun(w) /\ UNCHANGED <<art, part, calls, boot, gc, wiped, overtaken>>
  BY <1>1 DEF ClaimRejected, IInv, Known
<1>3. faults' \in 0..MaxFaults /\ stranded' \subseteq Builds /\ stranded \subseteq stranded'
  BY <1>2, FaultsBounded DEF IInv, TypeOK
<1>4. CASE UNCHANGED doc
  <2>1. Has(b, {"done"})' => b \in art \cup wiped \cup overtaken
    BY <1>2, <1>4 DEF IInv, DoneHasArtifact, Has
  <2>2. doc' \in [Builds -> Build \cup {None}]
    BY <1>4 DEF IInv, TypeOK
  <2>3. /\ Has(b, {"running"})' => Has(b, {"running"})
        /\ Has(b, {"queued"})' => b \in stranded'
    BY <1>2, <1>4 DEF Has, Claimable
  <2> QED BY <1>1, <1>2, <1>3, <1>4, <2>1, <2>2, <2>3, RunEnds
<1>5. CASE Claimable(b) /\ doc' = [doc EXCEPT ![b].status = "running"]
  <2>1. doc[b] \in Build
    BY <1>2, <1>5 DEF IInv, TypeOK, Claimable, Has
  <2>2. doc'[b] \in Build /\ doc'[b].attempts = doc[b].attempts /\ doc'[b].status = "running"
    BY <1>2, <1>5, <2>1 DEF Build, IInv, TypeOK
  <2>3. doc' \in [Builds -> Build \cup {None}] /\ \A c \in Builds \ {b} : doc'[c] = doc[c]
    BY <1>2, <1>5, <2>2 DEF IInv, TypeOK
  <2>4. ~Has(b, {"queued"})' /\ ~Has(b, {"done"})' /\ doc[b] # None /\ doc'[b] # None
    BY <2>1, <2>2, QueueAssumption DEF Has
  <2>5. b \in stranded'
    BY <1>2, <1>5
  <2> QED BY <1>1, <1>2, <1>3, <1>5, <2>2, <2>3, <2>4, <2>5, RunEnds
<1> QED BY <1>1, <1>4, <1>5 DEF ClaimRejected

LEMMA FailRejectedStep ==
  ASSUME IInv, NEW w \in Slots, FailRejected(w)
  PROVE  IInv'
<1>1. PICK b : b = slots[w].b
  OBVIOUS
<1>2. /\ slots[w].at \in RunPCs /\ b \in Builds /\ MayFail("reject")
      /\ stranded' = stranded \cup {b}
      /\ EndRun(w) /\ UNCHANGED <<doc, art, part, calls, boot, gc, wiped, overtaken>>
  BY <1>1 DEF FailRejected, IInv, Known, RunPCs
<1>3. faults' \in 0..MaxFaults /\ stranded' \subseteq Builds /\ doc' \in [Builds -> Build \cup {None}]
  BY <1>2, FaultsBounded DEF IInv, TypeOK
<1>4. Has(b, {"done"})' => b \in art \cup wiped \cup overtaken
  BY <1>2 DEF IInv, DoneHasArtifact, Has
<1> QED BY <1>1, <1>2, <1>3, <1>4, RunEnds

(* A run whose last update is rejected goes to its catch; if the update took
   effect, its build is overtaken.                                         *)
LEMMA DoneRejectedStep ==
  ASSUME IInv, NEW w \in Slots, DoneRejected(w)
  PROVE  IInv'
<1> USE DEF IInv
<1>1. PICK b : b = slots[w].b
  OBVIOUS
<1>2. /\ slots[w].at = "done" /\ slots[w].at \in RunPCs /\ "fail" \in RunPCs /\ b \in Builds /\ doc[b] \in Build
      /\ Step(w, "fail")
      /\ UNCHANGED <<art, part, calls, boot, gc, wiped, stranded>>
  BY <1>1 DEF DoneRejected, Known, TypeOK, RunPCs
<1>3. faults' \in 0..MaxFaults
  BY FaultsBounded DEF DoneRejected
<1>4. /\ slots'[w].at = "fail" /\ slots'[w].b = b /\ pending' = pending
      /\ \A v \in Slots \ {w} : slots'[v] = slots[v]
  BY <1>1, <1>2 DEF TypeOK, Step
<1>5. CASE UNCHANGED <<doc, overtaken>>
  <2>1. Placed' /\ DoneHasArtifact'
    BY <1>2, <1>4, <1>5 DEF Placed, DoneHasArtifact, Has
  <2>2. art' \subseteq Builds /\ part' \subseteq Builds /\ wiped' \subseteq Builds
    BY <1>2 DEF TypeOK
  <2> QED BY <1>2, <1>3, <1>5, <2>1, <2>2, RunGoesOn
<1>6. CASE MarkDone(b) /\ overtaken' = overtaken \cup {b}
  <2>1. /\ doc' \in [Builds -> Build \cup {None}] /\ \A c \in Builds \ {b} : doc'[c] = doc[c]
        /\ doc'[b] \in Build /\ doc'[b].status = "done" /\ doc'[b].attempts = doc[b].attempts
    BY <1>2, <1>6 DEF MarkDone, TypeOK, Build
  <2>2. TypeOK'
    <3>1. slots' \in [Slots -> Slot]
      BY <1>2 DEF TypeOK, Slot, Step
    <3> QED BY <1>2, <1>3, <1>4, <1>6, <2>1, <3>1 DEF TypeOK, Slot
  <2>3. \A c \in Builds : doc[c] # None => doc'[c] # None
    BY <2>1, QueueAssumption
  <2>4. \A v \in Slots : slots'[v].b = slots[v].b /\ (slots'[v].at \in RunPCs <=> slots[v].at \in RunPCs)
    BY <1>1, <1>2, <1>4
  <2>5. \A v \in Slots : slots[v].at \in RunPCs => slots[v].b \in Builds /\ doc[slots[v].b] # None
    BY DEF Known, RunPCs
  <2>6. Known'
    <3>1. \A v \in Slots : slots'[v].at # "idle" => slots[v].at # "idle"
      BY <1>2, <1>4
    <3> QED BY <1>2, <2>3, <2>4, <2>5, <3>1 DEF Known
  <2>7. RunsMatch'
    <3>1. \A c \in Builds \ {b} : Has(c, {"running"}) => Has(c, {"running"})'
      BY <2>1 DEF Has
    <3> QED BY <1>6, <2>4, <2>5, <3>1, KeepRunsMatch
  <2>8. Placed'
    BY <1>2, <1>4, <1>6 DEF Placed
  <2>9. DoneHasArtifact'
    BY <1>2, <1>6, <2>1 DEF DoneHasArtifact, Has
  <2>10. RunningIsRun'
    <3>1. \A c : Runs(c) \subseteq Runs(c)'
      BY <2>4 DEF Runs
    <3>2. \A c \in Builds : Has(c, {"running"})' => Has(c, {"running"})
      BY <2>1 DEF Has
    <3> QED BY <1>2, <3>1, <3>2, KeepRunning
  <2>11. Decided'
    BY <1>2, <1>6, <2>1, <2>3, KeepDecided
  <2>12. QueuedScheduledUnlessStranded'
    <3>1. ASSUME NEW c \in Builds, Scheduled(c) PROVE Scheduled(c)'
      <4>1. CASE OnItsWay(c)
        <5>1. \A v \in Slots : slots[v].at = "claim" => slots'[v] = slots[v]
          BY <1>2, <1>4
        <5>2. Waiting(c) => Waiting(c)'
          BY <1>4, <5>1 DEF Waiting
        <5> QED BY <1>2, <4>1, <5>2, KeepOnItsWay DEF Scheduled
      <4> QED BY <1>2, <3>1, <4>1 DEF Scheduled
    <3>2. \A c \in Builds : Has(c, {"queued"})' => Has(c, {"queued"})
      BY <2>1 DEF Has
    <3> QED BY <1>2, <3>1, <3>2, KeepScheduled
  <2> QED BY <2>2, <2>6, <2>7, <2>8, <2>9, <2>10, <2>11, <2>12
<1> QED BY <1>1, <1>5, <1>6 DEF DoneRejected

-----------------------------------------------------------------------------
(* Restart, time and the collector.                                        *)

LEMMA CrashStep ==
  ASSUME IInv, Crash
  PROVE  IInv'
<1>1. /\ slots' = [w \in Slots |-> Idle] /\ calls' = [r \in Requests |-> NoCall]
      /\ pending' = <<>> /\ boot' = "reset" /\ gc' = None /\ stranded' = {}
      /\ faults < MaxFaults /\ faults' = faults + 1
      /\ UNCHANGED <<doc, art, part, wiped, overtaken>>
  BY DEF Crash, MayFail
<1>2. TypeOK'
  <2>1. Idle \in Slot /\ NoCall \in Call /\ faults' \in 0..MaxFaults /\ pending' \in Seq(Builds)
    BY <1>1, QueueAssumption DEF IInv, TypeOK, Idle, NoCall, Slot, Call
  <2> QED BY <1>1, <2>1 DEF IInv, TypeOK, Slot, Call
<1>3. (\A w \in Slots : slots'[w].at = "idle") /\ (\A r \in Requests : calls'[r].at = "idle")
  BY <1>1 DEF Idle, NoCall
<1>4. Known' /\ Placed' /\ Decided'
  BY <1>3 DEF Known, Placed, Decided, RunPCs
<1>5. RunsMatch'
  BY <1>3 DEF RunsMatch, RunPCs
<1>6. DoneHasArtifact'
  BY <1>1 DEF IInv, DoneHasArtifact, Has
<1>7. RunningIsRun' /\ QueuedScheduledUnlessStranded'
  BY <1>1 DEF RunningIsRun, QueuedScheduledUnlessStranded, Scheduled
<1> QED BY <1>2, <1>4, <1>5, <1>6, <1>7 DEF IInv

LEMMA ResetRunningStep ==
  ASSUME IInv, ResetRunning
  PROVE  IInv'
<1> USE DEF IInv, Requeue
<1>1. /\ overtaken' = overtaken \cup {b \in Builds : Has(b, {"running"}) /\ Runs(b) # {}}
      /\ boot = "reset" /\ boot' = "list"
      /\ UNCHANGED <<art, part, pending, slots, calls, gc, faults, wiped, stranded>>
  BY DEF ResetRunning
<1>2. ASSUME NEW b \in Builds
      PROVE  /\ doc'[b] \in Build \cup {None}
             /\ ~Has(b, {"running"}) => doc'[b] = doc[b]
             /\ Has(b, {"running"}) =>
                  doc'[b] \in Build /\ doc'[b].status = "queued" /\ doc'[b].attempts = doc[b].attempts
  <2>1. doc'[b] = IF b \in {c \in Builds : Has(c, {"running"})} THEN [doc[b] EXCEPT !.status = "queued"] ELSE doc[b]
    BY DEF ResetRunning
  <2>2. doc[b] \in Build \cup {None}
    BY DEF TypeOK
  <2> QED BY <2>1, <2>2 DEF Build, Has
<1>3. TypeOK'
  <2>1. doc' \in [Builds -> Build \cup {None}]
    BY <1>2 DEF ResetRunning
  <2> QED BY <1>1, <2>1 DEF TypeOK
<1>4. \A b \in Builds : doc[b] # None => doc'[b] # None
  BY <1>2, QueueAssumption
<1>5. Known'
  BY <1>1, <1>4 DEF Known, RunPCs
<1>6. RunsMatch'
  <2>1. ASSUME NEW w \in Slots, NEW b, slots'[w].at \in RunPCs, slots'[w].b = b,
               b \notin overtaken', Has(b, {"running"})
        PROVE  Has(b, {"running"})'
    BY <1>1, <2>1 DEF Known, RunPCs, Runs
  <2> QED BY <1>1, <2>1, KeepRunsMatch
<1>7. Placed'
  BY <1>1 DEF Placed
<1>8. DoneHasArtifact'
  BY <1>1, <1>2 DEF DoneHasArtifact, Has
<1>9. RunningIsRun'
  BY <1>2 DEF RunningIsRun, Has
<1>10. Decided'
  <2>1. \A b \in Builds : Has(b, {"running"}) => Has(b, {"queued", "running"})
    BY DEF Has
  <2>2. overtaken \subseteq overtaken'
    BY <1>1
  <2> QED BY <1>1, <1>2, <1>4, <2>1, <2>2, KeepDecided
<1>11. QueuedScheduledUnlessStranded'
  BY <1>1 DEF QueuedScheduledUnlessStranded, Scheduled
<1> QED BY <1>3, <1>5, <1>6, <1>7, <1>8, <1>9, <1>10, <1>11

LEMMA ResumeStep ==
  ASSUME IInv, Resume
  PROVE  IInv'
<1> USE DEF IInv
<1>1. /\ boot = "list" /\ boot' = "over"
      /\ UNCHANGED <<doc, art, part, calls, gc, faults, wiped, stranded, overtaken>>
  BY DEF Resume
<1>2. /\ slots' \in [Slots -> Slot] /\ pending' \in Seq(Builds)
      /\ \A w \in Slots : slots[w].at # "idle" => slots'[w] = slots[w]
      /\ \A w \in Slots : slots'[w] = slots[w] \/ (slots'[w].at = "claim" /\ slots'[w].b \in Builds)
      /\ \A b \in Builds : Has(b, {"queued"}) => Waiting(b)'
  BY ResumeFacts
<1>3. TypeOK'
  BY <1>1, <1>2 DEF TypeOK, Slot
<1>4. \A w \in Slots : slots'[w].at \in RunPCs => slots'[w] = slots[w]
  BY <1>2 DEF RunPCs
<1>5. Known'
  <2>1. \A w \in Slots : /\ slots'[w].at # "idle" => slots'[w].b \in Builds
                         /\ slots'[w].at \in RunPCs => doc[slots'[w].b] # None
    BY <1>2, <1>4 DEF Known
  <2> QED BY <1>1, <2>1 DEF Known
<1>6. RunsMatch'
  BY <1>1, <1>4, KeepRunsMatch DEF Has
<1>7. Placed'
  BY <1>1, <1>4 DEF Placed, RunPCs
<1>8. DoneHasArtifact'
  BY <1>1 DEF DoneHasArtifact, Has
<1>9. RunningIsRun'
  <2>1. \A c : Runs(c) \subseteq Runs(c)'
    BY <1>2 DEF Runs, RunPCs
  <2> QED BY <1>1, <2>1, KeepRunning DEF Has
<1>10. Decided'
  BY <1>1, KeepDecided
<1>11. QueuedScheduledUnlessStranded'
  <2>1. \A b \in Builds : Has(b, {"queued"})' => Has(b, {"queued"})
    BY <1>1 DEF Has
  <2>2. \A b \in Builds : Waiting(b)' => Scheduled(b)'
    BY DEF Scheduled, OnItsWay, Waiting
  <2> QED BY <1>2, <2>1, <2>2 DEF QueuedScheduledUnlessStranded
<1> QED BY <1>3, <1>5, <1>6, <1>7, <1>8, <1>9, <1>10, <1>11

(* A recovery that is skipped strands what nobody of this process goes on
   with, also of the documents its updateMany reached.                     *)
LEMMA SkipRecoveryStep ==
  ASSUME IInv, SkipRecovery
  PROVE  IInv'
<1> USE DEF IInv
<1>1. PICK S \in SUBSET {b \in Builds : Has(b, {"running"}) /\ boot = "reset"} :
          /\ Requeue(S)
          /\ stranded' = stranded \cup
               {b \in Builds : \/ (b \in S \/ Has(b, {"queued"})) /\ ~OnItsWay(b)
                               \/ Has(b, {"running"}) /\ b \notin S /\ Runs(b) = {}}
  BY DEF SkipRecovery
<1>2. /\ boot' = "over" /\ MayFail("reject")
      /\ UNCHANGED <<art, part, pending, slots, calls, gc, wiped>>
  BY DEF SkipRecovery
<1>3. overtaken' = overtaken \cup {b \in S : Runs(b) # {}}
  BY <1>1 DEF Requeue
<1>4. ASSUME NEW b \in Builds
      PROVE  /\ doc'[b] \in Build \cup {None}
             /\ b \notin S => doc'[b] = doc[b]
             /\ b \in S => Has(b, {"running"}) /\
                  doc'[b] \in Build /\ doc'[b].status = "queued" /\ doc'[b].attempts = doc[b].attempts
  <2>1. doc'[b] = IF b \in S THEN [doc[b] EXCEPT !.status = "queued"] ELSE doc[b]
    BY <1>1 DEF Requeue
  <2>2. doc[b] \in Build \cup {None}
    BY DEF TypeOK
  <2>3. b \in S => Has(b, {"running"})
    BY <1>1
  <2> QED BY <2>1, <2>2, <2>3 DEF Build, Has
<1>5. TypeOK'
  <2>1. doc' \in [Builds -> Build \cup {None}]
    BY <1>1, <1>4 DEF Requeue
  <2>2. stranded' \subseteq Builds /\ overtaken' \subseteq Builds /\ faults' \in 0..MaxFaults
    BY <1>1, <1>2, <1>3, FaultsBounded DEF TypeOK
  <2> QED BY <1>2, <2>1, <2>2 DEF TypeOK
<1>6. \A b \in Builds : doc[b] # None => doc'[b] # None
  BY <1>4, QueueAssumption
<1>7. Known'
  BY <1>2, <1>6 DEF Known, RunPCs
<1>8. RunsMatch'
  <2>1. ASSUME NEW w \in Slots, NEW b, slots'[w].at \in RunPCs, slots'[w].b = b,
               b \notin overtaken', Has(b, {"running"})
        PROVE  Has(b, {"running"})'
    <3>1. b \in Builds /\ b \notin S
      BY <1>2, <1>3, <2>1 DEF Known, RunPCs, Runs
    <3> QED BY <1>4, <2>1, <3>1 DEF Has
  <2> QED BY <1>2, <1>3, <2>1, KeepRunsMatch
<1>9. Placed'
  BY <1>2, <1>3 DEF Placed
<1>10. DoneHasArtifact'
  BY <1>2, <1>3, <1>4 DEF DoneHasArtifact, Has
<1>11. RunningIsRun'
  <2>1. \A b \in Builds : Has(b, {"running"})' => b \notin S /\ Has(b, {"running"})
    BY <1>4 DEF Has
  <2>2. \A b : Runs(b)' = Runs(b)
    BY <1>2 DEF Runs
  <2> QED BY <1>1, <2>1, <2>2 DEF RunningIsRun
<1>12. Decided'
  <2>1. \A b \in Builds : Has(b, {"running"}) => Has(b, {"queued", "running"})
    BY DEF Has
  <2>2. overtaken \subseteq overtaken'
    BY <1>3
  <2> QED BY <1>2, <1>4, <1>6, <2>1, <2>2, KeepDecided
<1>13. QueuedScheduledUnlessStranded'
  <2>1. ASSUME NEW b \in Builds, OnItsWay(b) PROVE OnItsWay(b)'
    <3>1. Waiting(b) => Waiting(b)'
      BY <1>2 DEF Waiting
    <3> QED BY <1>2, <2>1, <3>1, KeepOnItsWay
  <2>2. \A b \in Builds : Has(b, {"queued"})' => b \in S \/ Has(b, {"queued"})
    BY <1>4 DEF Has
  <2> QED BY <1>1, <2>1, <2>2 DEF QueuedScheduledUnlessStranded, Scheduled
<1> QED BY <1>5, <1>7, <1>8, <1>9, <1>10, <1>11, <1>12, <1>13

LEMMA CoolDownStep ==
  ASSUME IInv, NEW b \in Builds, CoolDown(b)
  PROVE  IInv'
<1> USE DEF IInv
<1>1. /\ doc[b] \in Build /\ doc' = [doc EXCEPT ![b].recent = FALSE]
      /\ UNCHANGED <<art, part, pending, slots, calls, boot, gc, faults, wiped, stranded, overtaken>>
  BY DEF CoolDown, Has, TypeOK
<1>2. /\ doc'[b] = [doc[b] EXCEPT !.recent = FALSE] /\ doc'[b] \in Build /\ doc'[b].status = doc[b].status
      /\ \A c \in Builds \ {b} : doc'[c] = doc[c]
  BY <1>1 DEF TypeOK, Build
<1>3. TypeOK'
  <2>1. doc' \in [Builds -> Build \cup {None}]
    BY <1>1, <1>2 DEF TypeOK
  <2> QED BY <1>1, <2>1 DEF TypeOK
<1>4. \A c \in Builds : (doc'[c] # None <=> doc[c] # None) /\ (doc[c] # None => doc'[c].status = doc[c].status)
  BY <1>1, <1>2, QueueAssumption
<1>5. Known'
  BY <1>1, <1>4 DEF Known, RunPCs
<1>6. \A S : \A c \in Builds : Has(c, S)' <=> Has(c, S)
  BY <1>4 DEF Has
<1>7. RunsMatch'
  <2>1. \A w \in Slots : slots[w].at \in RunPCs => slots[w].b \in Builds
    BY DEF Known, RunPCs
  <2> QED BY <1>1, <1>6, <2>1, KeepRunsMatch
<1>8. Placed'
  BY <1>1 DEF Placed
<1>9. DoneHasArtifact'
  BY <1>1, <1>6 DEF DoneHasArtifact
<1>10. RunningIsRun'
  <2>1. \A c : Runs(c)' = Runs(c)
    BY <1>1 DEF Runs
  <2> QED BY <1>1, <1>6, <2>1, KeepRunning
<1>11. Decided'
  <2>1. \A c \in Builds : doc[c] # None => doc'[c] = doc[c] \/ doc'[c] = [doc[c] EXCEPT !.recent = FALSE]
    BY <1>2
  <2> QED BY <1>1, <1>4, <2>1, KeepDecided
<1>12. QueuedScheduledUnlessStranded'
  <2>1. \A c \in Builds : OnItsWay(c)' <=> OnItsWay(c)
    BY <1>1 DEF OnItsWay
  <2> QED BY <1>1, <1>6, <2>1, KeepScheduled DEF Scheduled
<1> QED BY <1>3, <1>5, <1>7, <1>8, <1>9, <1>10, <1>11, <1>12

(* Whoever removes an artifact from outside leaves a trace in wiped.       *)
LEMMA RemovedOutside ==
  ASSUME IInv, UNCHANGED <<doc, part, pending, slots, calls, boot, stranded, overtaken>>,
         gc' \in Builds \cup {None}, faults' \in 0..MaxFaults, art' \subseteq art,
         wiped \subseteq wiped', wiped' \subseteq Builds, art \ art' \subseteq wiped'
  PROVE  IInv'
<1>1. TypeOK'
  BY DEF IInv, TypeOK
<1>2. Known' /\ RunsMatch' /\ Placed' /\ DoneHasArtifact'
  BY DEF IInv, Known, RunsMatch, Placed, DoneHasArtifact, Has
<1>3. RunningIsRun'
  BY DEF IInv, RunningIsRun, Has, Runs
<1>4. Decided'
  BY KeepDecided DEF IInv
<1>5. QueuedScheduledUnlessStranded'
  BY DEF IInv, QueuedScheduledUnlessStranded, Has, Scheduled, OnItsWay
<1> QED BY <1>1, <1>2, <1>3, <1>4, <1>5 DEF IInv

LEMMA WipeStep ==
  ASSUME IInv, NEW b \in Builds, Wipe(b)
  PROVE  IInv'
<1>1. faults' \in 0..MaxFaults /\ gc' \in Builds \cup {None} /\ wiped' \subseteq Builds
  BY QueueAssumption DEF Wipe, MayFail, IInv, TypeOK
<1> QED BY <1>1, RemovedOutside DEF Wipe

LEMMA FindOrphanStep ==
  ASSUME IInv, NEW b \in Builds, FindOrphan(b)
  PROVE  IInv'
<1>1. faults' \in 0..MaxFaults /\ gc' \in Builds \cup {None} /\ wiped' \subseteq Builds
  BY DEF FindOrphan, IInv, TypeOK
<1> QED BY <1>1, RemovedOutside DEF FindOrphan

LEMMA RemoveOrphanStep ==
  ASSUME IInv, RemoveOrphan
  PROVE  IInv'
<1>1. faults' \in 0..MaxFaults /\ gc' \in Builds \cup {None} /\ wiped' \subseteq Builds
  BY FaultsBounded DEF RemoveOrphan, IInv, TypeOK
<1>2. wiped \subseteq wiped' /\ art \ art' \subseteq wiped' /\ art' \subseteq art
  BY DEF RemoveOrphan
<1> QED BY <1>1, <1>2, RemovedOutside DEF RemoveOrphan

-----------------------------------------------------------------------------
(* The theorems.                                                           *)

(* At the start nothing is known, but artifacts an earlier database left.  *)
LEMMA InitHolds == Init => IInv
<1> SUFFICES ASSUME Init PROVE IInv
  OBVIOUS
<1>1. Idle \in Slot /\ NoCall \in Call /\ 0 \in 0..MaxFaults /\ <<>> \in Seq(Builds)
  BY QueueAssumption DEF Idle, NoCall, Slot, Call
<1>2. TypeOK
  BY <1>1, QueueAssumption DEF Init, TypeOK, Slot, Call
<1>3. Known /\ RunsMatch /\ Placed /\ Decided
  BY DEF Init, Known, RunsMatch, Placed, Decided, Idle, NoCall, RunPCs
<1>4. RunningIsRun /\ DoneHasArtifact /\ QueuedScheduledUnlessStranded
  BY DEF Init, RunningIsRun, DoneHasArtifact, QueuedScheduledUnlessStranded, Has
<1> QED BY <1>2, <1>3, <1>4 DEF IInv

(* Every step keeps the invariant.                                         *)
LEMMA NextKeeps == IInv /\ [Next]_vars => IInv'
<1> SUFFICES ASSUME IInv, [Next]_vars PROVE IInv'
  OBVIOUS
<1>1. ASSUME NEW r \in Requests,
             \/ \E b \in Builds, force \in BOOLEAN : Arrive(r, b, force)
             \/ RequestStep(r) \/ Rejected(r) \/ AnswerLost(r)
      PROVE  IInv'
  BY <1>1, ArriveStep, FindStep, StatStep, ResetStep, InsertStep, AnsweredStep, RejectedStep,
     AnswerLostStep
     DEF RequestStep
<1>2. ASSUME NEW w \in Slots, RunStep(w) \/ RunRejected(w) PROVE IInv'
  BY <1>2, ClaimStep, PackStep, WritePartStep, RemoveOldStep, RenameStep, DoneStep, FailStep,
     ClaimRejectedStep, DoneRejectedStep, FailRejectedStep DEF RunStep, RunRejected
<1>3. CASE Crash \/ RecoveryStep \/ SkipRecovery
  BY <1>3, CrashStep, ResetRunningStep, ResumeStep, SkipRecoveryStep DEF RecoveryStep
<1>4. ASSUME NEW b \in Builds, CoolDown(b) \/ Wipe(b) \/ FindOrphan(b) PROVE IInv'
  BY <1>4, CoolDownStep, WipeStep, FindOrphanStep
<1>5. CASE RemoveOrphan
  BY <1>5, RemoveOrphanStep
<1>6. CASE UNCHANGED vars
  <2>1. TypeOK' /\ Known' /\ RunsMatch' /\ Placed' /\ DoneHasArtifact'
    BY <1>6 DEF vars, IInv, TypeOK, Known, RunsMatch, Placed, DoneHasArtifact, Has
  <2>2. RunningIsRun' /\ QueuedScheduledUnlessStranded'
    BY <1>6 DEF vars, IInv, RunningIsRun, QueuedScheduledUnlessStranded, Has, Runs, Scheduled, OnItsWay
  <2>3. Decided'
    BY <1>6, KeepDecided DEF vars, IInv
  <2> QED BY <2>1, <2>2, <2>3 DEF IInv
<1> QED BY <1>1, <1>2, <1>3, <1>4, <1>5, <1>6 DEF Next

(* Invariance: documents, slots, queue and artifacts agree (runBuild, pump,
   ensureBuild and configureBuildQueue), for any requests, slots, crashes and
   rejected calls.                                                         *)
THEOREM Invariance == Spec => []IInv
<1> QED BY InitHolds, NextKeeps, PTL DEF Spec

(* A queued build is on its way to a slot, unless a call of its request or run
   was rejected or a recovery was skipped: the request that finds it queued may
   leave it.                                                               *)
THEOREM QueuedIsScheduled == Spec => []QueuedScheduledUnlessStranded
<1>1. IInv => QueuedScheduledUnlessStranded
  BY DEF IInv
<1> QED BY <1>1, Invariance, PTL

(* A build that is done has its artifact, unless somebody else removed it or
   two runs shared its files.                                              *)
THEOREM ArtifactOfDone == Spec => []DoneHasArtifact
<1>1. IInv => DoneHasArtifact
  BY DEF IInv
<1> QED BY <1>1, Invariance, PTL

(* The claim of runBuild lets one run of a build through at a time, unless its
   document moved on under a run: requeued by the recovery, or done by an update
   that was rejected.                                                      *)
THEOREM SingleRun == Spec => []SingleRunUnlessOvertaken
<1>1. IInv => SingleRunUnlessOvertaken
  <2> SUFFICES ASSUME IInv, NEW b \in Builds \ overtaken PROVE Cardinality(Runs(b)) <= 1
    BY DEF SingleRunUnlessOvertaken
  <2>1. \A v, w \in Runs(b) : v = w
    BY DEF IInv, RunsMatch, Runs
  <2>2. CASE Runs(b) = {}
    BY <2>2, FS_EmptySet
  <2>3. CASE Runs(b) # {}
    <3>1. PICK w : Runs(b) = {w}
      BY <2>1, <2>3
    <3> QED BY <3>1, FS_Singleton
  <2> QED BY <2>2, <2>3
<1> QED BY <1>1, Invariance, PTL

(* Only the reset of a request queues a build that has failed.             *)
LEMMA OnlyResetRequeues ==
  ASSUME IInv, [Next]_vars, NEW b \in Builds, Has(b, {"error"}), doc'[b].status = "queued"
  PROVE  \E r \in Requests : calls[r].at = "reset" /\ calls[r].b = b
<1>1. doc[b] \in Build /\ doc[b].status = "error" /\ doc[b] # None /\ doc'[b] # doc[b]
  BY DEF Has, IInv, TypeOK
<1>2. ASSUME NEW r \in Requests,
             \/ \E c \in Builds, force \in BOOLEAN : Arrive(r, c, force)
             \/ RequestStep(r) \/ Rejected(r) \/ AnswerLost(r)
      PROVE  calls[r].at = "reset" /\ calls[r].b = b
  <2>1. Reset(r) \/ Insert(r)
    BY <1>1, <1>2 DEF RequestStep, Arrive, Find, Stat, Answered, Rejected, AnswerLost
  <2>2. doc[calls[r].b] # None
    BY <1>1, <2>1 DEF Insert, Reset, Resettable, Has, IInv, TypeOK
  <2> QED BY <1>1, <2>1, <2>2 DEF Insert, Reset, IInv, TypeOK
<1>3. ASSUME NEW w \in Slots, RunStep(w) \/ RunRejected(w) PROVE FALSE
  <2>1. Claim(w) \/ Done(w) \/ Fail(w) \/ ClaimRejected(w) \/ DoneRejected(w)
    BY <1>1, <1>3 DEF RunStep, RunRejected, Pack, WritePart, RemoveOld, Rename, FailRejected
  <2>2. CASE Claim(w) \/ ClaimRejected(w)
    BY <1>1, <2>2 DEF Claim, ClaimRejected, Claimable, Has, IInv, TypeOK, Build
  <2>3. CASE Done(w) \/ DoneRejected(w)
    BY <1>1, <2>3 DEF Done, DoneRejected, MarkDone, IInv, TypeOK, Build
  <2>4. CASE Fail(w)
    BY <1>1, <2>4 DEF Fail, IInv, TypeOK, Build
  <2> QED BY <2>1, <2>2, <2>3, <2>4
<1>4. ~(Crash \/ RecoveryStep \/ SkipRecovery)
  BY <1>1 DEF Crash, RecoveryStep, ResetRunning, Resume, SkipRecovery, Requeue, Has
<1>5. ASSUME NEW c \in Builds PROVE ~(CoolDown(c) \/ Wipe(c) \/ FindOrphan(c))
  BY <1>1 DEF CoolDown, Wipe, FindOrphan, Has, IInv, TypeOK, Build
<1>6. ~RemoveOrphan /\ ~UNCHANGED vars
  BY <1>1 DEF RemoveOrphan, vars
<1> QED BY <1>2, <1>3, <1>4, <1>5, <1>6 DEF Next

(* RetryWindow: the churn guard of ensureBuild lets a build that failed too
   often through once per cooldown, but for an admin's force and for a request
   that decided on an earlier attempt.                                     *)
THEOREM RetryWindow == Spec => RetryWindowUnlessStale
<1>1. ASSUME IInv, [Next]_vars, NEW b \in Builds \ overtaken,
             Has(b, {"error"}), doc[b].attempts >= MaxQuick, doc[b].recent, doc'[b].status = "queued"
      PROVE  \E r \in Requests :
                   /\ calls[r].at = "reset" /\ calls[r].b = b
                   /\ calls[r].force \/ calls[r].seen < doc[b].attempts
  <2>1. PICK r \in Requests : calls[r].at = "reset" /\ calls[r].b = b
    BY <1>1, OnlyResetRequeues
  <2>2. CASE ~calls[r].force
    <3>1. /\ calls[r].seen <= doc[b].attempts
          /\ calls[r].seen = doc[b].attempts =>
                Has(b, {"done"}) \/ (Has(b, {"error"}) /\ ~CoolingDown(b))
      BY <1>1, <2>1, <2>2 DEF IInv, Decided
    <3>2. CoolingDown(b) /\ ~Has(b, {"done"})
      BY <1>1 DEF CoolingDown, Has
    <3>3. calls[r].seen \in Nat /\ doc[b].attempts \in Nat
      BY <1>1, QueueAssumption DEF IInv, TypeOK, Build, Has
    <3> QED BY <2>1, <3>1, <3>2, <3>3
  <2> QED BY <2>1, <2>2
<1>2. IInv /\ [Next]_vars =>
        [\A b \in Builds \ overtaken :
          (/\ Has(b, {"error"}) /\ doc[b].attempts >= MaxQuick /\ doc[b].recent
           /\ doc'[b].status = "queued")
             => \E r \in Requests :
                   /\ calls[r].at = "reset" /\ calls[r].b = b
                   /\ calls[r].force \/ calls[r].seen < doc[b].attempts]_vars
  BY <1>1
<1> QED BY <1>2, Invariance, PTL DEF Spec, RetryWindowUnlessStale

=============================================================================
