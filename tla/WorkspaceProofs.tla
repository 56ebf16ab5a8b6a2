--------------------------- MODULE WorkspaceProofs --------------------------
(***************************************************************************)
(* Proofs about module Workspace, for every number of operations, clients, *)
(* handlers, processes, crashes and failing receipt writes.                *)
(***************************************************************************)
EXTENDS Workspace, TLAPS, SequenceTheorems

\* The bounds, in the form the arithmetic below needs.
LEMMA Limits == RingLimit \in Nat /\ RingLimit >= 1
BY LimitAssumption

Entry == [op : Ops, version : Nat]

-----------------------------------------------------------------------------
(* The ring                                                                 *)

\* slice(-RECENT_OPERATION_LIMIT) of a longer list: what it keeps, and that it
\* keeps it in order.
LEMMA PushFacts ==
    ASSUME NEW ring \in Seq(Entry), NEW entry \in Entry,
           Len(ring) <= RingLimit
    PROVE  /\ Push(ring, entry) \in Seq(Entry)
           /\ Len(Push(ring, entry)) =
                 IF Len(ring) < RingLimit THEN Len(ring) + 1 ELSE RingLimit
           /\ Push(ring, entry)[Len(Push(ring, entry))] = entry
           /\ \A i \in 1..(Len(Push(ring, entry)) - 1) :
                 Push(ring, entry)[i] =
                    ring[IF Len(ring) < RingLimit THEN i ELSE i + 1]
<1>1. CASE Len(ring) < RingLimit
  BY <1>1 DEF Push
<1>2. CASE Len(ring) = RingLimit
  <2> DEFINE kept == SubSeq(ring, 2, Len(ring))
  <2>1. Push(ring, entry) = Append(kept, entry)
    BY <1>2 DEF Push
  <2>2. /\ kept \in Seq(Entry)
        /\ Len(kept) = RingLimit - 1
        /\ \A i \in 1..(RingLimit - 1) : kept[i] = ring[i + 1]
    <3>1. 2 \in Int /\ Len(ring) \in Nat /\ RingLimit \in Nat /\ RingLimit >= 1
      BY Limits, <1>2
    <3>2. CASE RingLimit = 1
      BY <1>2, <3>2, SubSeqProperties
    <3>3. CASE RingLimit # 1
      BY <1>2, <3>1, <3>3, SubSeqProperties
    <3>4. QED BY <3>2, <3>3
  <2> HIDE DEF kept
  <2>3. QED BY <1>2, <2>1, <2>2
<1>3. QED BY Limits, <1>1, <1>2

\* A commit keeps the document and its ring in step.
LEMMA AppliedFacts ==
    ASSUME NEW d \in Doc, NEW o \in Ops, RingMatches(d), d.seed # None
    PROVE  /\ Applied(d, o) \in Doc
           /\ Applied(d, o).seed = d.seed
           /\ Applied(d, o).project = Append(d.project, o)
           /\ Applied(d, o).version = d.version + 1
           /\ RingMatches(Applied(d, o))
<1> DEFINE n == d.version
           entry == [op |-> o, version |-> n + 1]
           ring == d.ring
           r == Len(ring)
           new == Push(ring, entry)
           project == Append(d.project, o)
<1>1. /\ ring \in Seq(Entry) /\ n \in Nat /\ d.project \in Seq(Ops)
      /\ d.seed \in Seeds \cup {None} /\ r \in Nat
      /\ entry \in Entry /\ entry.op = o /\ entry.version = n + 1
  BY DEF Doc, Entry
<1>r. /\ n = Len(d.project)
      /\ n < RingLimit => r = n
      /\ n >= RingLimit => r = RingLimit
      /\ \A i \in 1..r : ring[i].op = d.project[n - r + i]
      /\ \A i \in 1..r : ring[i].version = n - r + i
  <2>1. /\ n = Len(d.project)
        /\ r = IF n < RingLimit THEN n ELSE RingLimit
        /\ \A i \in 1..r : /\ ring[i].op = d.project[n - r + i]
                           /\ ring[i].version = n - r + i
    BY DEF RingMatches
  <2> HIDE DEF n, r, ring
  <2>2. n < RingLimit => r = n
    BY <2>1
  <2>3. n >= RingLimit => r = RingLimit
    BY <1>1, <2>1, Limits
  <2>4. QED BY <2>1, <2>2, <2>3
<1>2. /\ project \in Seq(Ops) /\ Len(project) = n + 1
      /\ \A i \in 1..n : project[i] = d.project[i]
      /\ project[n + 1] = o
  BY Limits, <1>1, <1>r
<1>3. Applied(d, o) = [seed |-> d.seed, project |-> project,
                       version |-> n + 1, ring |-> new]
  BY DEF Applied
<1> HIDE DEF n, entry, ring, r, project
<1>4. /\ new \in Seq(Entry) /\ Len(new) \in Nat
      /\ n + 1 < RingLimit => Len(new) = n + 1
      /\ n + 1 >= RingLimit => Len(new) = RingLimit
      /\ new[Len(new)] = entry
      /\ n < RingLimit => \A i \in 1..(Len(new) - 1) : new[i] = ring[i]
      /\ n >= RingLimit => \A i \in 1..(Len(new) - 1) : new[i] = ring[i + 1]
  <2>1. Len(ring) <= RingLimit
    BY Limits, <1>1, <1>r DEF r
  <2>2. Len(ring) < RingLimit <=> n < RingLimit
    BY Limits, <1>1, <1>r DEF r
  <2>3. /\ new \in Seq(Entry) /\ Len(new) \in Nat
        /\ Len(new) = IF Len(ring) < RingLimit THEN Len(ring) + 1
                                               ELSE RingLimit
        /\ new[Len(new)] = entry
        /\ \A i \in 1..(Len(new) - 1) :
              new[i] = ring[IF Len(ring) < RingLimit THEN i ELSE i + 1]
    BY <1>1, <2>1, PushFacts
  <2> HIDE DEF new
  <2>4. CASE n < RingLimit
    BY Limits, <1>1, <1>r, <2>2, <2>3, <2>4 DEF r
  <2>5. CASE n >= RingLimit
    BY Limits, <1>1, <1>r, <2>2, <2>3, <2>5 DEF r
  <2>6. QED BY Limits, <1>1, <2>4, <2>5
<1> HIDE DEF new
<1>5. Applied(d, o) \in Doc
  BY <1>1, <1>2, <1>3, <1>4 DEF Doc, Entry
<1>7. ASSUME NEW i \in 1..Len(new)
      PROVE  /\ new[i].op = project[n + 1 - Len(new) + i]
             /\ new[i].version = n + 1 - Len(new) + i
  <2>1. CASE i = Len(new)
    <3>1. n + 1 - Len(new) + i = n + 1
      BY <1>1, <1>4, <2>1
    <3> QED BY <1>1, <1>2, <1>4, <2>1, <3>1
  <2>2. CASE i # Len(new) /\ n < RingLimit
    <3>1. new[i] = ring[i] /\ i \in 1..r /\ Len(new) = n + 1 /\ r = n
      BY Limits, <1>1, <1>r, <1>4, <2>2
    <3>2. n + 1 - Len(new) + i = n - r + i /\ n - r + i \in 1..n
      BY <1>1, <3>1
    <3> QED BY Limits, <1>1, <1>r, <1>2, <3>1, <3>2
  <2>3. CASE i # Len(new) /\ n >= RingLimit
    <3>1. new[i] = ring[i + 1] /\ i + 1 \in 1..r
      BY Limits, <1>1, <1>r, <1>4, <2>3
    <3>2. /\ n - r + (i + 1) = n + 1 - Len(new) + i
          /\ n - r + (i + 1) \in 1..n
      <4>1. n \in Nat /\ r = RingLimit /\ Len(new) = RingLimit /\ n >= r
        BY Limits, <1>1, <1>r, <1>4, <2>3
      <4>2. i \in 1..RingLimit /\ i # RingLimit
        BY <4>1, <2>3
      <4> QED BY <4>1, <4>2, Limits
    <3> QED BY Limits, <1>1, <1>r, <1>2, <3>1, <3>2
  <2>4. QED BY Limits, <1>1, <2>1, <2>2, <2>3
<1>8. RingMatches(Applied(d, o))
  <2>1. /\ Applied(d, o).version = n + 1 /\ Applied(d, o).ring = new
        /\ Applied(d, o).project = project /\ Applied(d, o).seed # None
    BY <1>3
  <2> DEFINE a == Applied(d, o)
  <2> HIDE DEF a
  <2>2. Len(new) = IF n + 1 < RingLimit THEN n + 1 ELSE RingLimit
    BY Limits, <1>1, <1>4
  <2>3. \A i \in 1..Len(a.ring) :
           /\ a.ring[i].op = a.project[a.version - Len(a.ring) + i]
           /\ a.ring[i].version = a.version - Len(a.ring) + i
    <3>1. a.ring = new /\ a.project = project /\ a.version = n + 1
      BY <2>1 DEF a
    <3> QED BY <1>1, <1>4, <1>7, <3>1
  <2>4. QED BY <1>2, <2>1, <2>2, <2>3 DEF RingMatches, a
<1>9. QED BY <1>3, <1>5, <1>8 DEF n, project

\* The ring remembers the last RingLimit operations of the project: what is
\* not in it was not among them.
LEMMA RingRemembers ==
    ASSUME NEW d \in Doc, NEW o, RingMatches(d), ~InRing(o, d.ring),
           NEW i \in 1..Len(d.project), d.project[i] = o
    PROVE  Len(d.project) - i >= RingLimit
<1> DEFINE n == Len(d.project)
           r == Len(d.ring)
           k == i - (n - r)
<1>1. /\ d.version = n /\ n \in Nat /\ r \in Nat /\ i \in 1..n
      /\ r = IF n < RingLimit THEN n ELSE RingLimit
      /\ \A x \in 1..r : d.ring[x].op = d.project[n - r + x]
      /\ \A x \in 1..r : d.ring[x].op # o
  BY DEF RingMatches, Doc, InRing
<1> HIDE DEF n, r
<1>2. ASSUME k \in 1..r PROVE FALSE
  <2>1. n - r + k = i
    BY <1>1
  <2>2. d.ring[k].op = d.project[i]
    BY <1>1, <1>2, <2>1
  <2> QED BY <1>1, <1>2, <2>2
<1>3. n - i >= RingLimit
  BY <1>1, <1>2
<1>4. QED BY <1>3 DEF n

\* Appending an id that was not among the last RingLimit ones keeps equal ids
\* apart.
LEMMA AppendSpaced ==
    ASSUME NEW q \in Seq(Ops), NEW o \in Ops, Spaced(q),
           \A i \in 1..Len(q) : q[i] = o => Len(q) - i >= RingLimit
    PROVE  Spaced(Append(q, o))
<1> DEFINE p == Append(q, o)
           n == Len(q)
<1>1. /\ Len(p) = n + 1 /\ n \in Nat
      /\ p[n + 1] = o /\ \A i \in 1..n : p[i] = q[i]
      /\ \A i, j \in 1..n : i < j /\ q[i] = q[j] => j - i > RingLimit
      /\ \A i \in 1..n : q[i] = o => n - i >= RingLimit
  BY DEF Spaced
<1> HIDE DEF p, n
<1>2. ASSUME NEW i \in 1..(n + 1), NEW j \in 1..(n + 1), i < j, p[i] = p[j]
      PROVE  j - i > RingLimit
  <2>1. CASE j \in 1..n
    BY <1>1, <1>2, <2>1
  <2>2. CASE j = n + 1
    BY Limits, <1>1, <1>2, <2>2
  <2>3. QED BY <1>1, <2>1, <2>2
<1>3. QED BY <1>1, <1>2 DEF Spaced, p

-----------------------------------------------------------------------------
(* The type invariant                                                       *)

LEMMA InitCore == Init => Core
<1> SUFFICES ASSUME Init PROVE Core
  OBVIOUS
<1>1. NoWorkspace \in Doc /\ RingMatches(NoWorkspace)
  BY Limits DEF NoWorkspace, Seeded, Doc, RingMatches
<1>2. TypeOK
  BY <1>1 DEF Init, TypeOK, NoReply, Replies, PCs
<1>3. DedupWindow
  BY DEF Init, DedupWindow, Spaced, NoWorkspace, Seeded
<1>4. \A h \in Handlers : SnapshotOK(h)
  BY <1>1 DEF Init, SnapshotOK, InQueueBody, NoWorkspace, Seeded
<1>5. JobsOK /\ QueueOK
  BY DEF Init, JobsOK, QueueOK, InQueueBody
<1>6. QED BY <1>1, <1>2, <1>3, <1>4, <1>5 DEF Init, Core

\* What a handler inside the body of the queue may rely on.
LEMMA BodyFacts ==
    ASSUME Core, NEW h \in Handlers, pc[h] \in InQueueBody
    PROVE  /\ job[h] \in Ops
           /\ queue[ProcOf[h]] \in Seq(Handlers)
           /\ queue[ProcOf[h]] # <<>>
           /\ Tail(queue[ProcOf[h]]) \in Seq(Handlers)
           /\ cur[h] \in Doc
           /\ cur[h].version \in Nat
<1>1. job[h] \in Ops /\ queue[ProcOf[h]] \in Seq(Handlers) /\ cur[h] \in Doc
  BY MappingAssumption DEF Core, TypeOK, JobsOK
<1>2. queue[ProcOf[h]] # <<>>
  BY <1>1 DEF Core, QueueOK
<1>3. QED BY <1>1, <1>2 DEF Doc

\* A compare-and-swap that matches replaces the very document that was read.
LEMMA MatchIsFresh ==
    ASSUME Core, NEW h \in Handlers, pc[h] = "commit", Matches(h)
    PROVE  cur[h] = ws /\ ws.seed # None /\ ~InRing(job[h], ws.ring)
BY DEF Core, SnapshotOK, InQueueBody, Matches

LEMMA TypeStep == Core /\ [Next]_vars => TypeOK'
<1> SUFFICES ASSUME Core, [Next]_vars PROVE TypeOK'
  OBVIOUS
<1>0. TypeOK
  BY DEF Core
<1>k. /\ NoReply \in Replies
      /\ [kind |-> "refused", version |-> 0] \in Replies
      /\ [kind |-> "seeded", version |-> 0] \in Replies
      /\ [kind |-> "seeded", version |-> ws.version] \in Replies
  BY <1>0 DEF Replies, NoReply, TypeOK, Doc
<1>p. /\ "idle" \in PCs /\ "seed" \in PCs /\ "tellSeed" \in PCs
      /\ "read" \in PCs /\ "receipt" \in PCs /\ "backfill" \in PCs
      /\ "locks" \in PCs /\ "assets" \in PCs /\ "commit" \in PCs
      /\ "insert" \in PCs /\ "tell" \in PCs
  BY DEF PCs, InQueueBody
<1>h. ASSUME NEW h \in Handlers
      PROVE  /\ ProcOf[h] \in Procs
             /\ Append(queue[ProcOf[h]], h) \in Seq(Handlers)
             /\ Append(room[ProcOf[h]], 0) \in Seq(Nat)
             /\ Append(room[ProcOf[h]], cur[h].version) \in Seq(Nat)
             /\ [kind |-> "duplicate", version |-> cur[h].version] \in Replies
             /\ [kind |-> "accepted", version |-> cur[h].version] \in Replies
  <2>1. /\ ProcOf[h] \in Procs
        /\ queue[ProcOf[h]] \in Seq(Handlers)
        /\ room[ProcOf[h]] \in Seq(Nat)
        /\ cur[h] \in Doc
    BY <1>0, MappingAssumption DEF TypeOK
  <2>2. cur[h].version \in Nat
    BY <2>1 DEF Doc
  <2>3. QED BY <2>1, <2>2 DEF Replies
<1>t. ASSUME NEW h \in Handlers, pc[h] \in InQueueBody
      PROVE  /\ Tail(queue[ProcOf[h]]) \in Seq(Handlers)
             /\ receipts \cup {job[h]} \subseteq Ops
  BY <1>0, <1>t, BodyFacts DEF TypeOK
<1>b. \A l \in {"receipt", "backfill", "locks", "assets", "commit", "insert",
                "tell"} : l \in InQueueBody
  BY DEF InQueueBody
<1> USE DEF Goto, Answer, Release
<1>1. ASSUME NEW h \in Handlers, NEW s \in Seeds, SubmitSeed(h, s)
      PROVE  TypeOK'
  BY <1>0, <1>1, <1>k, <1>p DEF SubmitSeed, TypeOK
<1>2. ASSUME NEW h \in Handlers, NEW o \in Ops, Submit(h, o)
      PROVE  TypeOK'
  BY <1>0, <1>2, <1>k, <1>p, <1>h DEF Submit, TypeOK
<1>3. ASSUME NEW h \in Handlers, Seed(h)
      PROVE  TypeOK'
  <2>1. job[h] \in Seeds /\ Seeded(job[h]) \in Doc
    BY <1>3 DEF Seed, Core, JobsOK, Seeded, Doc
  <2>2. ws.seed \in Seeds \cup {None}
    BY <1>0 DEF TypeOK, Doc
  <2>3. QED BY <1>0, <1>3, <1>k, <1>p, <2>1, <2>2 DEF Seed, TypeOK
<1>4. ASSUME NEW h \in Handlers, TellSeed(h)
      PROVE  TypeOK'
  BY <1>0, <1>4, <1>k, <1>p, <1>h DEF TellSeed, TypeOK
<1>5. ASSUME NEW h \in Handlers, RefuseSeed(h)
      PROVE  TypeOK'
  BY <1>0, <1>5, <1>k, <1>p DEF RefuseSeed, TypeOK
<1>6. ASSUME NEW h \in Handlers, Read(h)
      PROVE  TypeOK'
  BY <1>0, <1>6, <1>p DEF Read, TypeOK
<1>7. ASSUME NEW h \in Handlers, CheckReceipt(h)
      PROVE  TypeOK'
  <2>1. pc' \in [Handlers -> PCs]
    BY <1>0, <1>7, <1>p DEF CheckReceipt, TypeOK
  <2>2. reply' \in [Handlers -> Replies]
    BY <1>0, <1>7, <1>h DEF CheckReceipt, TypeOK
  <2>3. queue' \in [Procs -> Seq(Handlers)]
    BY <1>0, <1>7, <1>h, <1>t, <1>b DEF CheckReceipt, TypeOK
  <2>4. QED BY <1>0, <1>7, <2>1, <2>2, <2>3 DEF CheckReceipt, TypeOK
<1>8. ASSUME NEW h \in Handlers, Backfill(h)
      PROVE  TypeOK'
  <2>1. receipts' \subseteq Ops /\ outages' \in Nat
    BY <1>0, <1>8, <1>t, <1>b DEF Backfill, WriteReceipt, TypeOK
  <2>2. /\ pc' \in [Handlers -> PCs] /\ reply' \in [Handlers -> Replies]
        /\ queue' \in [Procs -> Seq(Handlers)]
    BY <1>0, <1>8, <1>p, <1>h, <1>t, <1>b DEF Backfill, TypeOK
  <2>3. QED BY <1>0, <1>8, <2>1, <2>2 DEF Backfill, TypeOK
<1>9. ASSUME NEW h \in Handlers, CheckLocks(h)
      PROVE  TypeOK'
  <2>1. pc' \in [Handlers -> PCs] /\ raced' \in [Handlers -> BOOLEAN]
    BY <1>0, <1>9, <1>p DEF CheckLocks, TypeOK
  <2>2. /\ reply' \in [Handlers -> Replies]
        /\ queue' \in [Procs -> Seq(Handlers)]
    BY <1>0, <1>9, <1>k, <1>h, <1>t, <1>b DEF CheckLocks, TypeOK
  <2>3. QED BY <1>0, <1>9, <2>1, <2>2 DEF CheckLocks, TypeOK
<1>10. ASSUME NEW h \in Handlers, CheckAssets(h)
       PROVE  TypeOK'
  BY <1>0, <1>10, <1>p DEF CheckAssets, TypeOK
<1>11. ASSUME NEW h \in Handlers, Refuse(h)
       PROVE  TypeOK'
  <2>1. Tail(queue[ProcOf[h]]) \in Seq(Handlers)
    <3>1. queue[ProcOf[h]] \in Seq(Handlers)
      BY <1>0, <1>h DEF TypeOK
    <3>2. pc[h] \in InQueueBody \cup {"read"}
      BY <1>11, <1>b DEF Refuse
    <3>3. queue[ProcOf[h]] # <<>>
      BY <3>1, <3>2 DEF Core, QueueOK
    <3> QED BY <3>1, <3>3
  <2> QED BY <1>0, <1>11, <1>k, <1>p, <1>h, <2>1 DEF Refuse, TypeOK
<1>12. ASSUME NEW h \in Handlers, Commit(h) \/ CommitUnheard(h)
       PROVE  TypeOK'
  <2>1. Applied(cur[h], job[h]) \in Doc
    BY <1>12, <1>b, BodyFacts, MatchIsFresh, AppliedFacts
       DEF Commit, CommitUnheard, Core
  <2>2. CASE Commit(h)
    BY <1>0, <1>p, <2>1, <2>2 DEF Commit, TypeOK
  <2>3. CASE CommitUnheard(h)
    <3>1. pc' \in [Handlers -> PCs] /\ reply' \in [Handlers -> Replies]
      BY <1>0, <1>k, <1>p, <2>3 DEF CommitUnheard, TypeOK
    <3>2. queue' \in [Procs -> Seq(Handlers)]
      BY <1>0, <1>h, <1>t, <1>b, <2>3 DEF CommitUnheard, TypeOK
    <3>3. QED BY <1>0, <2>1, <2>3, <3>1, <3>2 DEF CommitUnheard, TypeOK
  <2>4. QED BY <1>12, <2>2, <2>3
<1>13. ASSUME NEW h \in Handlers, Conflict(h)
       PROVE  TypeOK'
  <2>1. pc' \in [Handlers -> PCs]
    BY <1>0, <1>13, <1>p DEF Conflict, TypeOK
  <2>0. tries' \in [Handlers -> Nat]
    <3>1. tries \in [Handlers -> Nat] /\ tries[h] + 1 \in Nat
      BY <1>0 DEF TypeOK
    <3>2. tries' = [tries EXCEPT ![h] = tries[h] + 1] \/ tries' = tries
      BY <1>13 DEF Conflict
    <3>3. QED BY <3>1, <3>2
  <2>2. /\ reply' \in [Handlers -> Replies]
        /\ queue' \in [Procs -> Seq(Handlers)]
    BY <1>0, <1>13, <1>k, <1>h, <1>t, <1>b DEF Conflict, TypeOK
  <2>3. QED BY <1>0, <1>13, <2>0, <2>1, <2>2 DEF Conflict, TypeOK
<1>14. ASSUME NEW h \in Handlers, InsertReceipt(h)
       PROVE  TypeOK'
  <2>1. receipts' \subseteq Ops /\ outages' \in Nat
    BY <1>0, <1>14, <1>t, <1>b DEF InsertReceipt, WriteReceipt, TypeOK
  <2>2. QED BY <1>0, <1>14, <1>p, <2>1 DEF InsertReceipt, TypeOK
<1>15. ASSUME NEW h \in Handlers, Tell(h)
       PROVE  TypeOK'
  <2>1. room' \in [Procs -> Seq(Nat)] /\ queue' \in [Procs -> Seq(Handlers)]
    BY <1>0, <1>15, <1>h, <1>t, <1>b DEF Tell, TypeOK
  <2>2. pc' \in [Handlers -> PCs] /\ reply' \in [Handlers -> Replies]
    BY <1>0, <1>15, <1>p, <1>h DEF Tell, TypeOK
  <2>3. QED BY <1>0, <1>15, <2>1, <2>2 DEF Tell, TypeOK
<1>16. ASSUME NEW e \in Entities, NEW c \in Clients, AcquireLock(c, e)
       PROVE  TypeOK'
  BY <1>0, <1>16 DEF AcquireLock, TypeOK
<1>17. ASSUME NEW e \in Entities, DropLock(e)
       PROVE  TypeOK'
  BY <1>0, <1>17 DEF DropLock, TypeOK
<1>18. ASSUME NEW p \in Procs, Crash(p)
       PROVE  TypeOK'
  BY <1>0, <1>18, <1>k, <1>p DEF Crash, TypeOK
<1>19. CASE UNCHANGED vars
  BY <1>0, <1>19 DEF vars, TypeOK
<1> HIDE DEF Goto, Answer, Release
<1>20. QED
  BY <1>1, <1>2, <1>3, <1>4, <1>5, <1>6, <1>7, <1>8, <1>9, <1>10, <1>11,
     <1>12, <1>13, <1>14, <1>15, <1>16, <1>17, <1>18, <1>19
     DEF Next, HandlerStep

-----------------------------------------------------------------------------
(* The invariant is inductive                                               *)

LEMMA JobsStep == Core /\ [Next]_vars => JobsOK'
<1> SUFFICES ASSUME Core, [Next]_vars, NEW g \in Handlers
             PROVE  /\ pc'[g] \in {"seed", "tellSeed"} => job'[g] \in Seeds
                    /\ pc'[g] \in InQueueBody \cup {"read"} => job'[g] \in Ops
  BY DEF JobsOK
<1>0. /\ pc \in [Handlers -> PCs] /\ job \in [Handlers -> Ops \cup Seeds \cup {None}]
      /\ pc[g] \in {"seed", "tellSeed"} => job[g] \in Seeds
      /\ pc[g] \in InQueueBody \cup {"read"} => job[g] \in Ops
  BY DEF Core, TypeOK, JobsOK
<1> USE DEF Goto, Answer, InQueueBody
<1>1. ASSUME NEW h \in Handlers, NEW s \in Seeds, SubmitSeed(h, s)
      PROVE  /\ pc'[g] \in {"seed", "tellSeed"} => job'[g] \in Seeds
             /\ pc'[g] \in InQueueBody \cup {"read"} => job'[g] \in Ops
  BY <1>0, <1>1 DEF SubmitSeed
<1>2. ASSUME NEW h \in Handlers, NEW o \in Ops, Submit(h, o)
      PROVE  /\ pc'[g] \in {"seed", "tellSeed"} => job'[g] \in Seeds
             /\ pc'[g] \in InQueueBody \cup {"read"} => job'[g] \in Ops
  BY <1>0, <1>2 DEF Submit
<1>3. ASSUME NEW h \in Handlers, Seed(h)
      PROVE  /\ pc'[g] \in {"seed", "tellSeed"} => job'[g] \in Seeds
             /\ pc'[g] \in InQueueBody \cup {"read"} => job'[g] \in Ops
  BY <1>0, <1>3 DEF Seed
<1>4. ASSUME NEW h \in Handlers, HandlerStep(h), ~Seed(h)
      PROVE  /\ job' = job
             /\ \A f \in Handlers :
                   pc'[f] = pc[f] \/ pc'[f] = "idle" \/
                   (pc[f] \in InQueueBody \cup {"read"}
                      /\ pc'[f] \in InQueueBody \cup {"read"})
  BY <1>0, <1>4
     DEF HandlerStep, TellSeed, RefuseSeed, Read, CheckReceipt, Backfill,
         CheckLocks, CheckAssets, Refuse, Commit, CommitUnheard, Conflict,
         InsertReceipt, Tell
<1>5. ASSUME NEW p \in Procs, Crash(p)
      PROVE  job' = job /\ (pc'[g] = pc[g] \/ pc'[g] = "idle")
  BY <1>0, <1>5 DEF Crash
<1>6. ASSUME \/ UNCHANGED vars
             \/ \E e \in Entities :
                   DropLock(e) \/ \E c \in Clients : AcquireLock(c, e)
      PROVE  job' = job /\ pc' = pc
  BY <1>6 DEF vars, DropLock, AcquireLock
<1>7. QED
  BY <1>0, <1>1, <1>2, <1>3, <1>4, <1>5, <1>6 DEF Next

\* Every handler step either gives the turn up and ends the request, or moves
\* inside the request and leaves the queue alone.
EndsTurn(h) ==
    /\ Turn(h)
    /\ pc' = [pc EXCEPT ![h] = "idle"]
    /\ queue' = [queue EXCEPT ![ProcOf[h]] = Tail(@)]
Moves(h) ==
    /\ queue' = queue
    /\ \A g \in Handlers : g # h => pc'[g] = pc[g]
    /\ pc'[h] \in InQueueBody \cup {"read"} => pc[h] \in InQueueBody \cup {"read"}
    /\ pc'[h] \in InQueueBody => Turn(h)

LEMMA StepsAreTurns ==
    ASSUME Core, NEW h \in Handlers, HandlerStep(h)
    PROVE  EndsTurn(h) \/ Moves(h)
<1>0. /\ pc \in [Handlers -> PCs]
      /\ pc[h] \in InQueueBody => Turn(h)
  BY DEF Core, TypeOK, QueueOK
<1> USE DEF Goto, Answer, Release, InQueueBody
<1>1. CASE Seed(h) \/ TellSeed(h) \/ RefuseSeed(h)
  BY <1>0, <1>1 DEF Seed, TellSeed, RefuseSeed, Moves
<1>2. CASE Read(h) \/ CheckAssets(h) \/ Commit(h) \/ InsertReceipt(h)
  BY <1>0, <1>2 DEF Read, CheckAssets, Commit, InsertReceipt, Moves
<1>3. CASE Backfill(h) \/ CommitUnheard(h) \/ Tell(h) \/ Refuse(h)
  BY <1>0, <1>3 DEF Backfill, CommitUnheard, Tell, Refuse, EndsTurn
<1>4. CASE CheckReceipt(h)
  BY <1>0, <1>4 DEF CheckReceipt, Moves, EndsTurn
<1>5. CASE CheckLocks(h)
  BY <1>0, <1>5 DEF CheckLocks, Moves, EndsTurn
<1>6. CASE Conflict(h)
  BY <1>0, <1>6 DEF Conflict, Moves, EndsTurn
<1>7. QED
  BY <1>1, <1>2, <1>3, <1>4, <1>5, <1>6 DEF HandlerStep

LEMMA QueueStep == Core /\ [Next]_vars => QueueOK'
<1> DEFINE P(g) ==
      /\ pc[g] \in InQueueBody \cup {"read"} =>
            \E i \in 1..Len(queue[ProcOf[g]]) : queue[ProcOf[g]][i] = g
      /\ pc[g] \in InQueueBody => Turn(g)
<1> SUFFICES ASSUME Core, [Next]_vars, NEW g \in Handlers PROVE P(g)'
  BY DEF QueueOK
<1>0. /\ pc \in [Handlers -> PCs]
      /\ queue \in [Procs -> Seq(Handlers)]
      /\ \A h \in Handlers : P(h)
      /\ \A h \in Handlers : ProcOf[h] \in Procs
  BY MappingAssumption DEF Core, TypeOK, QueueOK
<1>1. ASSUME NEW h \in Handlers, NEW s \in Seeds, SubmitSeed(h, s)
      PROVE  P(g)'
  BY <1>0, <1>1 DEF SubmitSeed, Goto, InQueueBody, Turn
<1>2. ASSUME NEW h \in Handlers, NEW o \in Ops, Submit(h, o)
      PROVE  P(g)'
  <2> DEFINE q == queue[ProcOf[h]]
  <2>1. /\ q \in Seq(Handlers)
        /\ queue' = [queue EXCEPT ![ProcOf[h]] = Append(q, h)]
        /\ pc' = [pc EXCEPT ![h] = "read"]
    BY <1>0, <1>2 DEF Submit, Goto
  <2>2. CASE g = h
    <3>1. queue'[ProcOf[g]] = Append(q, h) /\ pc'[g] = "read"
      BY <1>0, <2>1, <2>2
    <3>2. Len(q) + 1 \in 1..Len(Append(q, h)) /\ Append(q, h)[Len(q) + 1] = h
      BY <1>0, <2>1
    <3> QED BY <2>2, <3>1, <3>2 DEF InQueueBody
  <2>3. CASE g # h /\ ProcOf[g] = ProcOf[h]
    <3>1. queue'[ProcOf[g]] = Append(q, h) /\ pc'[g] = pc[g]
      BY <1>0, <2>1, <2>3
    <3>2. ASSUME NEW i \in 1..Len(q), q[i] = g
          PROVE  /\ i \in 1..Len(Append(q, h)) /\ Append(q, h)[i] = g
                 /\ Head(Append(q, h)) = Head(q)
      BY <2>1, <3>2
    <3> HIDE DEF q
    <3>3. pc[g] \in InQueueBody \cup {"read"} => \E i \in 1..Len(q) : q[i] = g
      BY <1>0, <2>3 DEF q
    <3>4. pc[g] \in InQueueBody => Head(q) = g
      BY <1>0, <2>3 DEF q, Turn
    <3> QED BY <3>1, <3>2, <3>3, <3>4 DEF Turn
  <2>4. CASE ProcOf[g] # ProcOf[h]
    BY <1>0, <2>1, <2>4 DEF Turn
  <2>5. QED BY <2>2, <2>3, <2>4
<1>3. ASSUME NEW h \in Handlers, EndsTurn(h)
      PROVE  P(g)'
  <2> DEFINE q == queue[ProcOf[h]]
  <2>1. CASE g = h
    BY <1>0, <1>3, <2>1 DEF EndsTurn, InQueueBody
  <2>2. CASE g # h /\ ProcOf[g] = ProcOf[h]
    <3>1. /\ queue'[ProcOf[g]] = Tail(q) /\ pc'[g] = pc[g]
          /\ q \in Seq(Handlers) /\ Head(q) = h
      BY <1>0, <1>3, <2>2 DEF EndsTurn, Turn
    <3>2. pc[g] \notin InQueueBody
      BY <1>0, <2>2, <3>1 DEF Turn
    <3>3. ASSUME NEW i \in 1..Len(q), q[i] = g
          PROVE  i - 1 \in 1..Len(Tail(q)) /\ Tail(q)[i - 1] = g
      BY <2>2, <3>1, <3>3
    <3>4. pc[g] = "read" => \E i \in 1..Len(q) : q[i] = g
      BY <1>0, <2>2
    <3> HIDE DEF q
    <3> QED BY <3>1, <3>2, <3>3, <3>4
  <2>3. CASE ProcOf[g] # ProcOf[h]
    BY <1>0, <1>3, <2>3 DEF EndsTurn, Turn
  <2>4. QED BY <2>1, <2>2, <2>3
<1>4. ASSUME NEW h \in Handlers, Moves(h)
      PROVE  P(g)'
  BY <1>0, <1>4 DEF Moves, Turn
<1>5. ASSUME NEW p \in Procs, Crash(p)
      PROVE  P(g)'
  BY <1>0, <1>5 DEF Crash, Turn, InQueueBody
<1>6. ASSUME \/ UNCHANGED vars
             \/ \E e \in Entities :
                   DropLock(e) \/ \E c \in Clients : AcquireLock(c, e)
      PROVE  P(g)'
  <2>1. pc' = pc /\ queue' = queue
    BY <1>6 DEF vars, DropLock, AcquireLock
  <2> QED BY <1>0, <2>1 DEF Turn
<1> HIDE DEF P
<1>7. QED
  BY <1>1, <1>2, <1>3, <1>4, <1>5, <1>6, StepsAreTurns DEF Next

\* What one step of the whole system can do to the document.
Extends(o) == ws.seed # None /\ ~InRing(o, ws.ring) /\ ws' = Applied(ws, o)

LEMMA DocStep ==
    Core /\ [Next]_vars =>
        \/ ws' = ws
        \/ ws.seed = None /\ \E s \in Seeds : ws' = Seeded(s)
        \/ \E o \in Ops : Extends(o)
<1> SUFFICES ASSUME Core, [Next]_vars, ws' # ws
             PROVE  \/ ws.seed = None /\ \E s \in Seeds : ws' = Seeded(s)
                    \/ \E o \in Ops : Extends(o)
  OBVIOUS
<1>1. ASSUME NEW h \in Handlers, Seed(h)
      PROVE  ws.seed = None /\ \E s \in Seeds : ws' = Seeded(s)
  BY <1>1 DEF Seed, Core, JobsOK
<1>2. ASSUME NEW h \in Handlers, Commit(h) \/ CommitUnheard(h)
      PROVE  \E o \in Ops : Extends(o)
  <2>1. /\ pc[h] = "commit" /\ Matches(h)
        /\ ws' = Applied(cur[h], job[h])
    BY <1>2 DEF Commit, CommitUnheard
  <2>2. job[h] \in Ops
    BY <2>1, BodyFacts DEF InQueueBody
  <2> QED BY <2>1, <2>2, MatchIsFresh DEF Extends
<1>3. ASSUME NEW h \in Handlers,
             \/ \E s \in Seeds : SubmitSeed(h, s)
             \/ \E o \in Ops : Submit(h, o)
             \/ HandlerStep(h) /\ ~(Seed(h) \/ Commit(h) \/ CommitUnheard(h))
      PROVE  FALSE
  BY <1>3
     DEF SubmitSeed, Submit, HandlerStep, TellSeed, RefuseSeed, Read,
         CheckReceipt, Backfill, CheckLocks, CheckAssets, Refuse, Conflict,
         InsertReceipt, Tell
<1>4. ASSUME \/ UNCHANGED vars
             \/ \E e \in Entities :
                   DropLock(e) \/ \E c \in Clients : AcquireLock(c, e)
             \/ \E p \in Procs : Crash(p)
      PROVE  FALSE
  BY <1>4 DEF vars, DropLock, AcquireLock, Crash
<1>5. QED
  BY <1>1, <1>2, <1>3, <1>4 DEF Next, HandlerStep

LEMMA LogStep ==
    Core /\ [Next]_vars => RingMatches(ws)' /\ DedupWindow' /\ ws.version <= ws'.version
<1> SUFFICES ASSUME Core, [Next]_vars
             PROVE  RingMatches(ws)' /\ DedupWindow' /\ ws.version <= ws'.version
  OBVIOUS
<1>0. /\ ws \in Doc /\ RingMatches(ws) /\ DedupWindow
      /\ ws.version \in Nat /\ ws.project \in Seq(Ops)
  BY DEF Core, TypeOK, Doc
<1>1. CASE ws' = ws
  BY <1>0, <1>1 DEF RingMatches, DedupWindow
<1>2. ASSUME NEW s \in Seeds, ws.seed = None, ws' = Seeded(s)
      PROVE  RingMatches(ws)' /\ DedupWindow' /\ ws.version <= ws'.version
  <2>1. ws'.project = <<>> /\ ws'.version = 0 /\ ws'.ring = <<>>
    BY <1>2 DEF Seeded
  <2>2. RingMatches(ws)'
    BY <2>1, Limits DEF RingMatches
  <2>3. DedupWindow'
    BY <2>1 DEF DedupWindow, Spaced
  <2>4. ws.version = 0
    BY <1>0, <1>2 DEF RingMatches
  <2>5. QED BY <2>1, <2>2, <2>3, <2>4
<1>3. ASSUME NEW o \in Ops, Extends(o)
      PROVE  RingMatches(ws)' /\ DedupWindow' /\ ws.version <= ws'.version
  <2>1. /\ ws' = Applied(ws, o) /\ RingMatches(Applied(ws, o))
        /\ ws'.project = Append(ws.project, o)
        /\ ws'.version = ws.version + 1
    BY <1>0, <1>3, AppliedFacts DEF Extends
  <2>2. \A i \in 1..Len(ws.project) :
           ws.project[i] = o => Len(ws.project) - i >= RingLimit
    BY <1>0, <1>3, RingRemembers DEF Extends
  <2>3. Spaced(Append(ws.project, o))
    BY <1>0, <2>2, AppendSpaced DEF DedupWindow
  <2>4. RingMatches(ws)'
    BY <2>1 DEF RingMatches
  <2>5. QED BY <1>0, <2>1, <2>3, <2>4 DEF DedupWindow
<1>4. QED BY <1>1, <1>2, <1>3, DocStep

\* A handler's snapshot stays as it is, or is taken anew by Read or Commit.
LEMMA CurStep ==
    ASSUME Core, [Next]_vars, NEW g \in Handlers
    PROVE  \/ /\ cur'[g] = cur[g]
              /\ pc'[g] \in InQueueBody => pc[g] \in InQueueBody
              /\ pc'[g] \in {"locks", "assets", "commit"} =>
                    ~InRing(job'[g], cur[g].ring)
           \/ /\ cur'[g] = ws' /\ ws'.seed # None
              /\ pc'[g] \notin {"locks", "assets", "commit"}
<1> DEFINE Kept == /\ cur'[g] = cur[g]
                   /\ pc'[g] \in InQueueBody => pc[g] \in InQueueBody
                   /\ pc'[g] \in {"locks", "assets", "commit"} =>
                         ~InRing(job'[g], cur[g].ring)
           Taken == /\ cur'[g] = ws' /\ ws'.seed # None
                    /\ pc'[g] \notin {"locks", "assets", "commit"}
<1>0. /\ pc \in [Handlers -> PCs]
      /\ cur \in [Handlers -> Doc]
      /\ job \in [Handlers -> Ops \cup Seeds \cup {None}]
      /\ pc[g] \in {"locks", "assets", "commit"} => ~InRing(job[g], cur[g].ring)
      /\ RingMatches(ws)
  BY DEF Core, TypeOK, SnapshotOK
<1> USE DEF Goto, Answer, Release, InQueueBody
<1>1. ASSUME NEW h \in Handlers, Read(h) PROVE Kept \/ Taken
  BY <1>0, <1>1 DEF Read
<1>2. ASSUME NEW h \in Handlers, Commit(h) PROVE Kept \/ Taken
  <2>1. cur[h] = ws /\ ws.seed # None /\ job[h] \in Ops /\ ws \in Doc
    BY <1>2, MatchIsFresh, BodyFacts DEF Commit
  <2>2. ws'.seed # None
    BY <1>0, <1>2, <2>1, AppliedFacts DEF Commit
  <2> QED BY <1>0, <1>2, <2>2 DEF Commit
<1>3. ASSUME NEW h \in Handlers, CheckReceipt(h) PROVE Kept
  BY <1>0, <1>3 DEF CheckReceipt
<1>4. ASSUME NEW h \in Handlers,
             \/ \E s \in Seeds : SubmitSeed(h, s)
             \/ \E o \in Ops : Submit(h, o)
             \/ Seed(h)
      PROVE  Kept
  BY <1>0, <1>4 DEF SubmitSeed, Submit, Seed
<1>5. ASSUME NEW h \in Handlers, HandlerStep(h),
             ~(Read(h) \/ Commit(h) \/ CheckReceipt(h) \/ Seed(h))
      PROVE  Kept
  <2>1. cur' = cur /\ job' = job
    BY <1>5
       DEF HandlerStep, TellSeed, RefuseSeed, Backfill, CheckLocks,
           CheckAssets, Refuse, CommitUnheard, Conflict, InsertReceipt, Tell
  <2>2. \/ pc'[g] = pc[g]
        \/ pc'[g] \in {"idle", "read"}
        \/ pc[g] \in {"locks", "assets"} /\ pc'[g] \in {"assets", "commit"}
        \/ pc[g] = "insert" /\ pc'[g] = "tell"
    BY <1>0, <1>5
       DEF HandlerStep, TellSeed, RefuseSeed, Backfill, CheckLocks,
           CheckAssets, Refuse, CommitUnheard, Conflict, InsertReceipt, Tell
  <2> QED BY <1>0, <2>1, <2>2
<1>6. ASSUME \/ UNCHANGED vars
             \/ \E e \in Entities :
                   DropLock(e) \/ \E c \in Clients : AcquireLock(c, e)
             \/ \E p \in Procs : Crash(p)
      PROVE  Kept
  BY <1>0, <1>6 DEF vars, DropLock, AcquireLock, Crash
<1> HIDE DEF Kept, Taken
<1>7. Kept \/ Taken
  BY <1>1, <1>2, <1>3, <1>4, <1>5, <1>6 DEF Next, HandlerStep
<1>8. QED BY <1>7 DEF Kept, Taken

LEMMA SnapshotStep ==
    Core /\ [Next]_vars => \A g \in Handlers : SnapshotOK(g)'
<1> SUFFICES ASSUME Core, [Next]_vars, NEW g \in Handlers PROVE SnapshotOK(g)'
  OBVIOUS
<1>0. /\ ws \in Doc /\ cur[g] \in Doc /\ RingMatches(ws) /\ SnapshotOK(g)
      /\ ws.version \in Nat /\ cur[g].version \in Nat
  BY DEF Core, TypeOK, Doc
<1>1. RingMatches(ws)' /\ ws.version <= ws'.version /\ ws'.version \in Nat
  BY LogStep, TypeStep DEF TypeOK, Doc
<1>2. CASE /\ cur'[g] = ws' /\ ws'.seed # None
           /\ pc'[g] \notin {"locks", "assets", "commit"}
  BY <1>1, <1>2 DEF SnapshotOK, RingMatches
<1>3. CASE /\ cur'[g] = cur[g]
           /\ pc'[g] \in InQueueBody => pc[g] \in InQueueBody
           /\ pc'[g] \in {"locks", "assets", "commit"} =>
                 ~InRing(job'[g], cur[g].ring)
  <2>1. RingMatches(cur[g]) /\ cur[g].version <= ws'.version
    BY <1>0, <1>1 DEF SnapshotOK
  <2>2. ASSUME cur[g].version = ws'.version, cur[g].seed # None
        PROVE  cur[g] = ws'
    <3>1. CASE ws' = ws
      BY <1>0, <2>2, <3>1 DEF SnapshotOK
    <3>2. CASE ws.seed = None
      <4>1. ws.version = 0
        BY <1>0, <3>2 DEF RingMatches
      <4>2. cur[g] = ws
        BY <1>0, <2>2, <4>1 DEF SnapshotOK
      <4> QED BY <2>2, <3>2, <4>2
    <3>3. ASSUME NEW o \in Ops, Extends(o) PROVE FALSE
      <4>1. ws'.version = ws.version + 1
        BY <1>0, <3>3, AppliedFacts DEF Extends
      <4> QED BY <1>0, <2>2, <4>1 DEF SnapshotOK
    <3>4. QED BY <3>1, <3>2, <3>3, DocStep
  <2>3. pc'[g] \in InQueueBody => cur[g].seed # None
    BY <1>0, <1>3 DEF SnapshotOK
  <2>4. QED BY <1>3, <2>1, <2>2, <2>3 DEF SnapshotOK, RingMatches
<1>4. QED BY <1>2, <1>3, CurStep

-----------------------------------------------------------------------------
(* Answers, broadcasts, receipts and locks                                  *)

LEMMA InitRest ==
    Init => Truthful /\ AnswersHold /\ TellsAbove /\ BroadcastsInOrder /\ Watched /\ Receipted
<1> SUFFICES ASSUME Init
             PROVE  Truthful /\ AnswersHold /\ TellsAbove /\ BroadcastsInOrder /\ Watched /\ Receipted
  OBVIOUS
<1>1. /\ ws.project = <<>> /\ receipts = {} /\ \A h \in Handlers : cur[h].project = <<>>
      /\ \A h \in Handlers : pc[h] = "idle" /\ reply[h].kind = "none"
      /\ \A p \in Procs : room[p] = <<>>
  BY DEF Init, NoWorkspace, Seeded, NoReply
<1>2. Truthful /\ AnswersHold
  BY <1>1 DEF Truthful, AnswersHold, Past
<1>3. TellsAbove /\ BroadcastsInOrder /\ Watched
  BY <1>1 DEF TellsAbove, BroadcastsInOrder, Watched
<1>4. Receipted
  BY <1>1 DEF Receipted, AppliedOnce, Stored
<1> QED BY <1>2, <1>3, <1>4

\* Only one request of a process is inside the body of its queue.
LEMMA TurnAlone ==
    ASSUME Core, NEW g \in Handlers, NEW h \in Handlers, ProcOf[g] = ProcOf[h],
           pc[g] \in InQueueBody, pc[h] \in InQueueBody
    PROVE  g = h
BY DEF Core, QueueOK, Turn

\* The document only grows, and keeps its seed.
LEMMA DocGrows ==
    ASSUME Core, [Next]_vars
    PROVE  /\ Len(ws.project) <= Len(ws'.project)
           /\ \A i \in 1..Len(ws.project) : ws'.project[i] = ws.project[i]
           /\ ws.seed # None => ws'.seed = ws.seed
           /\ Len(ws.project) \in Nat /\ Len(ws'.project) \in Nat
           /\ ws.version = Len(ws.project) /\ ws'.version = Len(ws'.project)
<1>0. /\ ws \in Doc /\ RingMatches(ws) /\ ws.project \in Seq(Ops)
  BY DEF Core, TypeOK, Doc
<1>1. RingMatches(ws)' /\ ws'.project \in Seq(Ops)
  BY LogStep, TypeStep DEF TypeOK, Doc
<1>2. CASE ws' = ws
  BY <1>0, <1>2 DEF RingMatches
<1>3. ASSUME NEW s \in Seeds, ws.seed = None, ws' = Seeded(s)
      PROVE  /\ Len(ws.project) <= Len(ws'.project)
             /\ \A i \in 1..Len(ws.project) : ws'.project[i] = ws.project[i]
             /\ ws.seed # None => ws'.seed = ws.seed
  BY <1>0, <1>1, <1>3 DEF RingMatches, Seeded
<1>4. ASSUME NEW o \in Ops, Extends(o)
      PROVE  /\ Len(ws.project) <= Len(ws'.project)
             /\ \A i \in 1..Len(ws.project) : ws'.project[i] = ws.project[i]
             /\ ws.seed # None => ws'.seed = ws.seed
  <2>1. ws'.project = Append(ws.project, o) /\ ws'.seed = ws.seed
    BY <1>0, <1>4, AppliedFacts DEF Extends
  <2> QED BY <1>0, <2>1
<1> QED BY <1>0, <1>1, <1>2, <1>3, <1>4, DocStep DEF RingMatches

LEMMA StoredStays ==
    ASSUME Core, [Next]_vars, NEW o, Stored(o)
    PROVE  Stored(o)'
BY DocGrows DEF Stored

\* What is in the ring of an earlier document is stored.
LEMMA RingIsStored ==
    ASSUME NEW d \in Doc, RingMatches(d), Past(d), ws \in Doc, NEW o, InRing(o, d.ring)
    PROVE  Stored(o)
<1>1. PICK i \in 1..Len(d.ring) : d.ring[i].op = o
  BY DEF InRing
<1>2. d.project \in Seq(Ops) /\ d.ring \in Seq([op : Ops, version : Nat])
  BY DEF Doc
<1>3. PICK n, r : n = Len(d.project) /\ r = Len(d.ring)
  OBVIOUS
<1>4. n \in Nat /\ r \in Nat /\ i \in 1..r
  BY <1>1, <1>2, <1>3
<1>5. d.version = n /\ (r = IF n < RingLimit THEN n ELSE RingLimit)
  BY <1>3 DEF RingMatches
<1>6. r <= n
  BY <1>4, <1>5, Limits
<1>7. d.ring[i].op = d.project[d.version - Len(d.ring) + i]
  BY <1>1 DEF RingMatches
<1>8. PICK k : k = n - r + i
  OBVIOUS
<1>9. d.project[k] = o
  BY <1>1, <1>3, <1>5, <1>7, <1>8
<1>10. k \in 1..n
  BY <1>4, <1>6, <1>8
<1>11. n <= Len(ws.project) /\ ws.project[k] = o
  BY <1>3, <1>9, <1>10 DEF Past
<1>12. k \in 1..Len(ws.project)
  <2>1. Len(ws.project) \in Nat
    BY DEF Doc
  <2> QED BY <1>4, <1>10, <1>11, <2>1
<1> QED BY <1>11, <1>12 DEF Stored

\* A handler's place, its job and its answer in one step: what can happen to
\* them, and what the step has seen.
Rests(g) == pc'[g] = pc[g] /\ job'[g] = job[g] /\ reply'[g] = reply[g] /\ cur'[g] = cur[g]
Starts(g) == pc'[g] \in {"seed", "read"} /\ reply'[g].kind = "none"
Dies(g) == pc'[g] = "idle" /\ job'[g] = job[g] /\ (reply'[g] = reply[g] \/ reply'[g].kind = "none")
Refused(g) == pc'[g] = "idle" /\ job'[g] = job[g] /\ reply'[g].kind = "refused"
GoesOn(g) ==
    /\ job'[g] = job[g] /\ reply'[g] = reply[g]
    /\ \/ pc'[g] \in {"read", "receipt", "locks", "assets", "commit"}
       \/ pc[g] = "receipt" /\ pc'[g] = "backfill" /\ InRing(job[g], cur[g].ring) /\ cur'[g] = cur[g]
       \/ pc[g] = "insert" /\ pc'[g] = "tell" /\ cur'[g] = cur[g]
Commits1(g) ==
    /\ pc[g] = "commit" /\ Matches(g) /\ job'[g] = job[g] /\ reply'[g] = reply[g]
    /\ pc'[g] = "insert" /\ ws' = Applied(cur[g], job[g]) /\ cur'[g] = ws'
Repeats(g) ==
    /\ pc[g] \in InQueueBody /\ pc'[g] = "idle" /\ job'[g] = job[g]
    /\ reply'[g].kind = "duplicate"
    /\ job[g] \in receipts \/ pc[g] = "backfill"
Tells(g) ==
    /\ pc[g] = "tell" /\ pc'[g] = "idle" /\ job'[g] = job[g]
    /\ reply'[g] = [kind |-> "accepted", version |-> cur[g].version]
SeedsNew(g) ==
    /\ pc[g] = "seed" /\ pc'[g] = "tellSeed" /\ job'[g] = job[g] /\ reply'[g] = reply[g]
    /\ ws.seed = None /\ ws' = Seeded(job[g])
SeedsOld(g) ==
    /\ pc[g] = "seed" /\ pc'[g] = "idle" /\ reply'[g].kind = "seeded" /\ job'[g] = ws.seed
    /\ ws.seed # None /\ ws' = ws
SeedTold(g) ==
    pc[g] = "tellSeed" /\ pc'[g] = "idle" /\ reply'[g].kind = "seeded" /\ job'[g] = job[g] /\ ws' = ws

LEMMA RowStep ==
    ASSUME Core, [Next]_vars, NEW g \in Handlers
    PROVE  \/ Rests(g) \/ Starts(g) \/ Dies(g) \/ Refused(g) \/ GoesOn(g) \/ Commits1(g)
           \/ Repeats(g) \/ Tells(g) \/ SeedsNew(g) \/ SeedsOld(g) \/ SeedTold(g)
<1>0. /\ pc \in [Handlers -> PCs] /\ job \in [Handlers -> Ops \cup Seeds \cup {None}]
      /\ reply \in [Handlers -> Replies] /\ cur \in [Handlers -> Doc]
  BY DEF Core, TypeOK
<1> USE DEF Goto, Answer
<1>1. ASSUME NEW h \in Handlers, (\E s \in Seeds : SubmitSeed(h, s)) \/ (\E o \in Ops : Submit(h, o))
      PROVE  Rests(g) \/ Starts(g)
  BY <1>0, <1>1 DEF SubmitSeed, Submit, Rests, Starts, NoReply
<1>2. ASSUME NEW h \in Handlers, Seed(h) PROVE Rests(g) \/ SeedsNew(g) \/ SeedsOld(g)
  BY <1>0, <1>2 DEF Seed, Rests, SeedsNew, SeedsOld
<1>3. ASSUME NEW h \in Handlers, TellSeed(h) PROVE Rests(g) \/ SeedTold(g)
  BY <1>0, <1>3 DEF TellSeed, Rests, SeedTold
<1>4. ASSUME NEW h \in Handlers, RefuseSeed(h) \/ Refuse(h) \/ CommitUnheard(h) PROVE Rests(g) \/ Refused(g)
  BY <1>0, <1>4 DEF RefuseSeed, Refuse, CommitUnheard, Rests, Refused
<1>5. ASSUME NEW h \in Handlers, Read(h) \/ CheckAssets(h) \/ InsertReceipt(h) PROVE Rests(g) \/ GoesOn(g)
  BY <1>0, <1>5 DEF Read, CheckAssets, InsertReceipt, Rests, GoesOn
<1>6. ASSUME NEW h \in Handlers, CheckReceipt(h) PROVE Rests(g) \/ GoesOn(g) \/ Repeats(g)
  BY <1>0, <1>6 DEF CheckReceipt, Rests, GoesOn, Repeats, InQueueBody
<1>7. ASSUME NEW h \in Handlers, Backfill(h) PROVE Rests(g) \/ Repeats(g)
  BY <1>0, <1>7 DEF Backfill, Rests, Repeats, InQueueBody
<1>8. ASSUME NEW h \in Handlers, CheckLocks(h) \/ Conflict(h) PROVE Rests(g) \/ GoesOn(g) \/ Refused(g)
  BY <1>0, <1>8 DEF CheckLocks, Conflict, Rests, GoesOn, Refused
<1>9. ASSUME NEW h \in Handlers, Commit(h) PROVE Rests(g) \/ Commits1(g)
  BY <1>0, <1>9 DEF Commit, Rests, Commits1
<1>10. ASSUME NEW h \in Handlers, Tell(h) PROVE Rests(g) \/ Tells(g)
  BY <1>0, <1>10 DEF Tell, Rests, Tells
<1>11. ASSUME NEW p \in Procs, Crash(p) PROVE Rests(g) \/ Dies(g)
  BY <1>0, <1>11 DEF Crash, Rests, Dies, NoReply
<1>12. ASSUME \/ UNCHANGED vars
              \/ \E e \in Entities : DropLock(e) \/ \E c \in Clients : AcquireLock(c, e)
       PROVE  Rests(g)
  BY <1>12 DEF vars, DropLock, AcquireLock, Rests
<1> QED BY <1>1, <1>2, <1>3, <1>4, <1>5, <1>6, <1>7, <1>8, <1>9, <1>10, <1>11, <1>12 DEF Next, HandlerStep

LEMMA PastStep ==
    ASSUME Core, Truthful, [Next]_vars, NEW g \in Handlers
    PROVE  Past(cur[g])'
<1>1. CASE cur'[g] = cur[g]
  <2>1. Past(cur[g]) /\ Len(cur[g].project) \in Nat
    BY DEF Truthful, Core, TypeOK, Doc
  <2> QED BY <1>1, <2>1, DocGrows DEF Past
<1>2. CASE cur'[g] = ws'
  BY <1>2, DocGrows DEF Past
<1> QED BY <1>1, <1>2, CurStep

\* Receipts are written of what is stored.
LEMMA ReceiptStep ==
    ASSUME Core, Truthful, [Next]_vars
    PROVE  \A o \in receipts' : Stored(o)'
<1>1. ASSUME NEW h \in Handlers, Backfill(h) \/ InsertReceipt(h)
      PROVE  /\ receipts' = receipts \/ receipts' = receipts \cup {job[h]}
             /\ Stored(job[h])
  <2>1. /\ pc[h] \in {"backfill", "insert"} /\ ws \in Doc /\ cur[h] \in Doc /\ RingMatches(cur[h]) /\ Past(cur[h])
        /\ receipts' = receipts \/ receipts' = receipts \cup {job[h]}
    BY <1>1 DEF Backfill, InsertReceipt, WriteReceipt, Core, TypeOK, SnapshotOK, Truthful
  <2>2. CASE pc[h] = "backfill"
    BY <2>1, <2>2, RingIsStored DEF Truthful
  <2>3. CASE pc[h] = "insert"
    <3>1. cur[h].version \in 1..Len(cur[h].project) /\ cur[h].project[cur[h].version] = job[h]
      BY <2>3 DEF Truthful
    <3>2. Len(cur[h].project) \in Nat /\ Len(ws.project) \in Nat
      BY <2>1 DEF Doc, Core, TypeOK
    <3> QED BY <2>1, <3>1, <3>2 DEF Past, Stored
  <2> QED BY <2>1, <2>2, <2>3
<1>2. ASSUME ~\E h \in Handlers : Backfill(h) \/ InsertReceipt(h)
      PROVE  receipts' = receipts
  BY <1>2 DEF Next, HandlerStep, SubmitSeed, Submit, Seed, TellSeed, RefuseSeed, Read, CheckReceipt,
       CheckLocks, CheckAssets, Refuse, Commit, CommitUnheard, Conflict, Tell, DropLock, AcquireLock,
       Crash, vars
<1>3. \A o \in receipts' : Stored(o)
  BY <1>1, <1>2 DEF Truthful
<1> QED BY <1>3, StoredStays

\* What a handler has to tell, and has told.
ToTell(g) ==
    /\ pc[g] = "backfill" => InRing(job[g], cur[g].ring)
    /\ pc[g] \in {"insert", "tell"} =>
          /\ cur[g].version \in 1..Len(cur[g].project)
          /\ cur[g].project[cur[g].version] = job[g]
    /\ pc[g] = "tellSeed" => ws.seed = job[g]
Told(g) ==
    /\ reply[g].kind = "seeded" => ws.seed # None /\ ws.seed = job[g]
    /\ reply[g].kind = "accepted" =>
          /\ reply[g].version \in 1..Len(ws.project)
          /\ ws.project[reply[g].version] = job[g]
    /\ reply[g].kind = "duplicate" => Stored(job[g])

LEMMA ToldStays ==
    ASSUME Core, [Next]_vars, NEW g \in Handlers, Told(g), job'[g] = job[g],
           reply'[g] = reply[g] \/ reply'[g].kind \in {"none", "refused"}
    PROVE  Told(g)'
<1>1. CASE reply'[g].kind \in {"none", "refused"}
  BY <1>1 DEF Told
<1>2. CASE reply'[g] = reply[g]
  <2>1. Stored(job[g]) => Stored(job[g])'
    <3>1. PICK o : o = job[g]
      OBVIOUS
    <3>2. Stored(o) => Stored(o)'
      BY StoredStays
    <3> QED BY <3>1, <3>2 DEF Stored
  <2>2. reply[g].kind = "accepted" =>
          /\ reply[g].version \in 1..Len(ws'.project)
          /\ ws'.project[reply[g].version] = job[g]
    BY DocGrows DEF Told
  <2> QED BY <1>2, <2>1, <2>2, DocGrows DEF Told
<1> QED BY <1>1, <1>2

\* Every way a handler goes keeps what it tells true.
LEMMA TellStep ==
    ASSUME Core, Truthful, AnswersHold, [Next]_vars, NEW g \in Handlers
    PROVE  ToTell(g)' /\ Told(g)'
<1>1. ToTell(g) /\ Told(g) /\ Past(cur[g])
  BY DEF Truthful, AnswersHold, ToTell, Told
<1>2. /\ cur[g] \in Doc /\ RingMatches(cur[g]) /\ ws \in Doc /\ RingMatches(ws)
      /\ Len(cur[g].project) \in Nat /\ None \notin Seeds
      /\ pc[g] \in {"seed", "tellSeed"} => job[g] \in Seeds
  <2>1. cur[g] \in Doc /\ RingMatches(cur[g]) /\ ws \in Doc /\ RingMatches(ws)
    BY DEF Core, TypeOK, SnapshotOK
  <2>2. pc[g] \in {"seed", "tellSeed"} => job[g] \in Seeds
    BY DEF Core, JobsOK
  <2> QED BY <2>1, <2>2, AbsentAssumption DEF Doc
<1>3. CASE Rests(g)
  <2>1. pc[g] = "tellSeed" => ws'.seed = job[g]
    BY <1>1, <1>2, DocGrows DEF ToTell
  <2>2. ToTell(g)'
    BY <1>1, <1>3, <2>1 DEF Rests, ToTell
  <2> QED BY <1>1, <1>3, <2>2, ToldStays DEF Rests
<1>4. CASE Starts(g)
  BY <1>4 DEF Starts, ToTell, Told
<1>5. CASE Dies(g) \/ Refused(g)
  BY <1>1, <1>5, ToldStays DEF Dies, Refused, ToTell
<1>6. CASE GoesOn(g)
  <2>1. ToTell(g)'
    BY <1>1, <1>6 DEF GoesOn, ToTell
  <2> QED BY <1>1, <1>6, <2>1, ToldStays DEF GoesOn
<1>7. CASE Commits1(g)
  <2>1. cur[g] = ws /\ ws.seed # None /\ job[g] \in Ops
    BY <1>7, MatchIsFresh, BodyFacts DEF Commits1, InQueueBody
  <2>2. /\ ws'.project = Append(ws.project, job[g]) /\ ws'.version = ws.version + 1
        /\ ws.project \in Seq(Ops) /\ ws.version = Len(ws.project)
    <3>1. ws' = Applied(ws, job[g])
      BY <1>7, <2>1 DEF Commits1
    <3>2. ws.project \in Seq(Ops) /\ ws.version = Len(ws.project)
      BY <1>2 DEF Doc, RingMatches
    <3> QED BY <1>2, <2>1, <3>1, <3>2, AppliedFacts
  <2>3. ToTell(g)'
    BY <1>7, <2>1, <2>2 DEF Commits1, ToTell
  <2> QED BY <1>1, <1>7, <2>3, ToldStays DEF Commits1
<1>8. CASE Repeats(g)
  <2>1. Stored(job[g])
    BY <1>1, <1>2, <1>8, RingIsStored DEF Repeats, ToTell, Truthful
  <2>2. PICK o : o = job[g]
    OBVIOUS
  <2>3. Stored(o)'
    BY <2>1, <2>2, StoredStays
  <2>4. Stored(job[g])'
    BY <1>8, <2>2, <2>3 DEF Repeats, Stored
  <2> QED BY <1>8, <2>4 DEF Repeats, ToTell, Told
<1>9. CASE Tells(g)
  <2>1. cur[g].version \in 1..Len(cur[g].project) /\ cur[g].project[cur[g].version] = job[g]
    BY <1>1, <1>9 DEF Tells, ToTell
  <2>2. cur[g].version \in 1..Len(ws'.project) /\ ws'.project[cur[g].version] = job[g]
    <3>1. PICK v, n : v = cur[g].version /\ n = Len(cur[g].project)
      OBVIOUS
    <3>2. n \in Nat /\ v \in 1..n /\ n <= Len(ws.project) /\ ws.project[v] = job[g]
      BY <1>1, <1>2, <2>1, <3>1 DEF Past
    <3>3. v \in 1..Len(ws.project) /\ v \in 1..Len(ws'.project)
      BY <3>2, DocGrows
    <3>4. ws'.project[v] = job[g]
      BY <3>2, <3>3, DocGrows
    <3> QED BY <3>1, <3>3, <3>4
  <2> QED BY <1>9, <2>2 DEF Tells, ToTell, Told
<1>10. CASE SeedsNew(g)
  <2>1. ToTell(g)'
    BY <1>10 DEF SeedsNew, ToTell, Seeded
  <2> QED BY <1>1, <1>10, <2>1, ToldStays DEF SeedsNew
<1>11. CASE SeedsOld(g)
  BY <1>11 DEF SeedsOld, ToTell, Told
<1>12. CASE SeedTold(g)
  BY <1>1, <1>2, <1>12 DEF SeedTold, ToTell, Told
<1> QED BY <1>3, <1>4, <1>5, <1>6, <1>7, <1>8, <1>9, <1>10, <1>11, <1>12, RowStep

LEMMA TruthStep ==
    ASSUME Core, Truthful, AnswersHold, [Next]_vars
    PROVE  Truthful' /\ AnswersHold'
<1>1. \A g \in Handlers : Past(cur[g])'
  BY PastStep
<1>2. \A g \in Handlers : ToTell(g)' /\ Told(g)'
  BY TellStep
<1>3. Truthful'
  BY <1>1, <1>2, ReceiptStep DEF Truthful, ToTell, Told
<1>4. AnswersHold'
  BY <1>2 DEF AnswersHold, Told
<1> QED BY <1>3, <1>4

\* A broadcast is of the version just committed, in the turn that committed it.
LEMMA RoomStep ==
    ASSUME Core, Truthful, TellsAbove, BroadcastsInOrder, [Next]_vars
    PROVE  TellsAbove' /\ BroadcastsInOrder'
<1>0. /\ room \in [Procs -> Seq(Nat)] /\ ProcOf \in [Handlers -> Procs] /\ cur \in [Handlers -> Doc]
      /\ ws.version \in Nat /\ ws'.version \in Nat /\ ws.version <= ws'.version
  <2>1. ws.version <= ws'.version /\ ws'.version \in Nat
    BY DocGrows
  <2> QED BY <2>1, MappingAssumption DEF Core, TypeOK, Doc
<1>1. \/ room' = room
      \/ \E h \in Handlers : /\ room' = [room EXCEPT ![ProcOf[h]] = Append(@, 0)]
                             /\ TellSeed(h)
      \/ \E h \in Handlers : /\ room' = [room EXCEPT ![ProcOf[h]] = Append(@, cur[h].version)]
                             /\ Tell(h)
  BY DEF Next, HandlerStep, SubmitSeed, Submit, Seed, TellSeed, RefuseSeed, Read, CheckReceipt, Backfill,
       CheckLocks, CheckAssets, Refuse, Commit, CommitUnheard, Conflict, InsertReceipt, Tell, DropLock,
       AcquireLock, Crash, vars
<1>2. ASSUME NEW g \in Handlers, pc'[g] \in {"insert", "tell"}
      PROVE  \/ pc[g] \in {"insert", "tell"} /\ cur'[g] = cur[g]
             \/ pc[g] = "commit" /\ cur'[g].version = ws.version + 1 /\ room' = room
  <2>1. CASE Commits1(g)
    <3>1. cur[g] = ws /\ ws.seed # None /\ job[g] \in Ops
      BY <2>1, MatchIsFresh, BodyFacts DEF Commits1, InQueueBody
    <3>2. cur'[g].version = ws.version + 1
      BY <2>1, <3>1 DEF Commits1, Applied
    <3>3. ws'.version # ws.version
      BY <1>0, <2>1, <3>1 DEF Commits1, Applied
    <3>4. room' = room
      BY <1>1, <3>3 DEF TellSeed, Tell
    <3> QED BY <2>1, <3>2, <3>4 DEF Commits1
  <2>2. CASE Rests(g)
    BY <1>2, <2>2 DEF Rests
  <2>3. CASE GoesOn(g)
    BY <1>2, <2>3 DEF GoesOn
  <2> QED
    BY <1>2, <2>1, <2>2, <2>3, RowStep
       DEF Starts, Dies, Refused, Repeats, Tells, SeedsNew, SeedsOld, SeedTold
<1>3. ASSUME NEW h \in Handlers, NEW v \in Nat, room' = [room EXCEPT ![ProcOf[h]] = Append(@, v)],
             v <= ws.version,
             v = 0 \/ (\A i \in 1..Len(room[ProcOf[h]]) : room[ProcOf[h]][i] < v),
             \A g \in Handlers : pc[g] \in {"insert", "tell"} /\ pc'[g] \in {"insert", "tell"} /\ ProcOf[g] = ProcOf[h]
                => v < cur[g].version
      PROVE  TellsAbove' /\ BroadcastsInOrder'
  <2>1. /\ ProcOf[h] \in Procs /\ room[ProcOf[h]] \in Seq(Nat)
        /\ room'[ProcOf[h]] = Append(room[ProcOf[h]], v)
        /\ \A p \in Procs \ {ProcOf[h]} : room'[p] = room[p]
    BY <1>0, <1>3
  <2>2. PICK n : n = Len(room[ProcOf[h]]) /\ n \in Nat /\ Len(room'[ProcOf[h]]) = n + 1
    <3>1. PICK q \in Seq(Nat) : q = room[ProcOf[h]]
      BY <2>1
    <3>2. Len(q) \in Nat /\ Len(Append(q, v)) = Len(q) + 1
      OBVIOUS
    <3> QED BY <2>1, <3>1, <3>2
  <2>3. room'[ProcOf[h]][n + 1] = v /\ \A i \in 1..n : room'[ProcOf[h]][i] = room[ProcOf[h]][i]
    BY <2>1, <2>2
  <2>4. ASSUME NEW p \in Procs, NEW i \in 1..Len(room'[p])
        PROVE  room'[p][i] \in Nat /\ room'[p][i] <= ws'.version
    <3>1. CASE p = ProcOf[h] /\ i = n + 1
      BY <1>0, <1>3, <2>3, <3>1
    <3>2. CASE p = ProcOf[h] /\ i # n + 1
      <4>1. i \in 1..n /\ room'[p][i] = room[p][i]
        BY <2>2, <2>3, <3>2
      <4>2. room[p][i] <= ws.version /\ room[p][i] \in Nat
        BY <1>0, <2>2, <3>2, <4>1 DEF TellsAbove
      <4> QED BY <1>0, <4>1, <4>2
    <3>3. CASE p # ProcOf[h]
      <4>1. room'[p] = room[p]
        BY <2>1, <3>3
      <4>2. room[p][i] <= ws.version /\ room[p][i] \in Nat
        BY <1>0, <4>1 DEF TellsAbove
      <4> QED BY <1>0, <4>1, <4>2
    <3> QED BY <3>1, <3>2, <3>3
  <2>5. ASSUME NEW g \in Handlers, pc'[g] \in {"insert", "tell"}, NEW i \in 1..Len(room'[ProcOf[g]])
        PROVE  room'[ProcOf[g]][i] < cur'[g].version
    <3>1. CASE pc[g] \in {"insert", "tell"} /\ cur'[g] = cur[g]
      <4>1. CASE ProcOf[g] = ProcOf[h] /\ i = n + 1
        BY <1>3, <2>3, <2>5, <3>1, <4>1
      <4>2. CASE ProcOf[g] = ProcOf[h] /\ i # n + 1
        <5>1. i \in 1..n /\ room'[ProcOf[g]][i] = room[ProcOf[g]][i]
          BY <2>2, <2>3, <4>2
        <5> QED BY <2>2, <3>1, <4>2, <5>1 DEF TellsAbove
      <4>3. CASE ProcOf[g] # ProcOf[h]
        <5>1. room'[ProcOf[g]] = room[ProcOf[g]]
          BY <1>0, <2>1, <4>3
        <5> QED BY <3>1, <5>1 DEF TellsAbove
      <4> QED BY <4>1, <4>2, <4>3
    <3>2. CASE pc[g] = "commit" /\ cur'[g].version = ws.version + 1 /\ room' = room
      <4>1. Len(room'[ProcOf[h]]) = n
        BY <2>2, <3>2
      <4> QED BY <2>2, <4>1
    <3> QED BY <1>2, <2>5, <3>1, <3>2
  <2>6. TellsAbove'
    BY <2>4, <2>5 DEF TellsAbove
  <2>7. BroadcastsInOrder'
    <3> SUFFICES ASSUME NEW p \in Procs, NEW i \in 1..Len(room'[p]), NEW j \in 1..Len(room'[p]),
                        i < j, room'[p][j] # 0
                 PROVE  room'[p][i] < room'[p][j]
      BY DEF BroadcastsInOrder
    <3>1. CASE p # ProcOf[h]
      <4>1. room'[p] = room[p]
        BY <2>1, <3>1
      <4> QED BY <4>1 DEF BroadcastsInOrder
    <3>2. CASE p = ProcOf[h] /\ j = n + 1
      <4>1. i \in 1..n
        BY <2>2, <3>2
      <4> QED BY <1>3, <2>2, <2>3, <3>2, <4>1
    <3>3. CASE p = ProcOf[h] /\ j # n + 1
      <4>1. i \in 1..n /\ j \in 1..n
        BY <2>2, <3>3
      <4> QED BY <2>2, <2>3, <3>3, <4>1 DEF BroadcastsInOrder
    <3> QED BY <3>1, <3>2, <3>3
  <2> QED BY <2>6, <2>7
<1>4. CASE room' = room
  <2>1. BroadcastsInOrder'
    BY <1>4 DEF BroadcastsInOrder
  <2>2. ASSUME NEW p \in Procs, NEW i \in 1..Len(room[p])
        PROVE  room[p][i] \in Nat /\ room[p][i] <= ws.version /\ room[p][i] <= ws'.version
    BY <1>0 DEF TellsAbove
  <2>3. ASSUME NEW g \in Handlers, pc'[g] \in {"insert", "tell"}, NEW i \in 1..Len(room[ProcOf[g]])
        PROVE  room[ProcOf[g]][i] < cur'[g].version
    <3>1. CASE pc[g] \in {"insert", "tell"} /\ cur'[g] = cur[g]
      BY <3>1 DEF TellsAbove
    <3>2. CASE pc[g] = "commit" /\ cur'[g].version = ws.version + 1
      <4>1. room[ProcOf[g]][i] \in Nat /\ room[ProcOf[g]][i] <= ws.version
        BY <1>0, <2>2
      <4> QED BY <1>0, <3>2, <4>1
    <3> QED BY <1>2, <2>3, <3>1, <3>2
  <2> QED BY <1>4, <2>1, <2>2, <2>3 DEF TellsAbove
<1>5. ASSUME NEW h \in Handlers, TellSeed(h), room' = [room EXCEPT ![ProcOf[h]] = Append(@, 0)]
      PROVE  TellsAbove' /\ BroadcastsInOrder'
  <2>1. \A g \in Handlers : pc[g] \in {"insert", "tell"} => 0 < cur[g].version
    <3> SUFFICES ASSUME NEW g \in Handlers, pc[g] \in {"insert", "tell"} PROVE 0 < cur[g].version
      OBVIOUS
    <3>1. cur[g].version \in 1..Len(cur[g].project) /\ Len(cur[g].project) \in Nat
      BY <1>0 DEF Truthful, Doc
    <3> QED BY <3>1
  <2>2. 0 \in Nat /\ 0 <= ws.version
    BY <1>0
  <2> QED BY <1>3, <1>5, <2>1, <2>2
<1>6. ASSUME NEW h \in Handlers, Tell(h), room' = [room EXCEPT ![ProcOf[h]] = Append(@, cur[h].version)]
      PROVE  TellsAbove' /\ BroadcastsInOrder'
  <2>1. pc[h] = "tell" /\ pc'[h] = "idle" /\ cur[h].version \in Nat /\ cur[h].version <= ws.version
    BY <1>6 DEF Tell, Answer, Goto, Core, TypeOK, Doc, SnapshotOK
  <2>2. \A i \in 1..Len(room[ProcOf[h]]) : room[ProcOf[h]][i] < cur[h].version
    BY <2>1 DEF TellsAbove
  <2>3. \A g \in Handlers : ~(pc[g] \in {"insert", "tell"} /\ pc'[g] \in {"insert", "tell"} /\ ProcOf[g] = ProcOf[h])
    BY <2>1, TurnAlone DEF InQueueBody
  <2> QED BY <1>3, <1>6, <2>1, <2>2, <2>3
<1> QED BY <1>1, <1>4, <1>5, <1>6

-----------------------------------------------------------------------------
\* Who is past the lock check meets a foreign lock only if it is recorded.
LEMMA LocksStep ==
    ASSUME Core, Watched, [Next]_vars
    PROVE  Watched'
<1> SUFFICES ASSUME NEW g \in Handlers, pc'[g] \in {"assets", "commit"}
             PROVE  (\A e \in Touches[job'[g]] : locks'[e] \in {None, Author[job'[g]]}) \/ raced'[g]
  BY DEF Watched, ForeignLock
<1>0. /\ pc \in [Handlers -> PCs] /\ job \in [Handlers -> Ops \cup Seeds \cup {None}]
      /\ locks \in [Entities -> Clients \cup {None}] /\ raced \in [Handlers -> BOOLEAN]
      /\ pc[g] \in {"assets", "commit"} => job[g] \in Ops
  BY DEF Core, TypeOK, JobsOK, InQueueBody
<1>1. pc[g] \in {"assets", "commit"} =>
        (\A e \in Touches[job[g]] : locks[e] \in {None, Author[job[g]]}) \/ raced[g]
  BY DEF Watched, ForeignLock
<1> USE DEF Goto, Answer
<1>2. ASSUME NEW h \in Handlers, CheckLocks(h)
      PROVE  (\A e \in Touches[job'[g]] : locks'[e] \in {None, Author[job'[g]]}) \/ raced'[g]
  <2>1. CASE g = h
    BY <1>0, <1>2, <2>1 DEF CheckLocks, ForeignLock
  <2>2. CASE g # h
    BY <1>0, <1>1, <1>2, <2>2 DEF CheckLocks
  <2> QED BY <2>1, <2>2
<1>3. ASSUME NEW e \in Entities, NEW c \in Clients, AcquireLock(c, e)
      PROVE  (\A f \in Touches[job'[g]] : locks'[f] \in {None, Author[job'[g]]}) \/ raced'[g]
  <2>1. /\ pc' = pc /\ job' = job /\ locks' = [locks EXCEPT ![e] = c]
        /\ raced'[g] = (raced[g] \/ (pc[g] \in {"assets", "commit"} /\ e \in Touches[job[g]]))
    BY <1>3 DEF AcquireLock
  <2>2. Touches[job[g]] \subseteq Entities
    BY <1>0, <2>1, MappingAssumption
  <2>3. CASE e \in Touches[job[g]]
    BY <2>1, <2>3
  <2>4. CASE raced[g]
    BY <2>1, <2>4
  <2>5. CASE e \notin Touches[job[g]] /\ ~raced[g]
    <3>1. \A f \in Touches[job[g]] : locks'[f] = locks[f]
      BY <1>0, <2>1, <2>2, <2>5
    <3> QED BY <1>1, <2>1, <2>5, <3>1
  <2> QED BY <2>3, <2>4, <2>5
<1>4. ASSUME NEW e \in Entities, DropLock(e)
      PROVE  (\A f \in Touches[job'[g]] : locks'[f] \in {None, Author[job'[g]]}) \/ raced'[g]
  <2>1. UNCHANGED <<pc, job, raced>> /\ locks' = [locks EXCEPT ![e] = None]
    BY <1>4 DEF DropLock
  <2>2. Touches[job[g]] \subseteq Entities
    BY <1>0, <2>1, MappingAssumption
  <2>3. \A f \in Touches[job[g]] : locks'[f] = locks[f] \/ locks'[f] = None
    BY <1>0, <2>1, <2>2
  <2> QED BY <1>1, <2>1, <2>3
<1>5. ASSUME NEW h \in Handlers, (\E s \in Seeds : SubmitSeed(h, s)) \/ (\E o \in Ops : Submit(h, o)) \/ Seed(h)
      PROVE  /\ locks' = locks /\ raced'[g] = raced[g]
             /\ pc[g] \in {"assets", "commit"} /\ job'[g] = job[g]
  BY <1>0, <1>5 DEF SubmitSeed, Submit, Seed
<1>6. ASSUME NEW h \in Handlers, HandlerStep(h), ~Seed(h), ~CheckLocks(h)
      PROVE  /\ locks' = locks /\ raced'[g] = raced[g]
             /\ pc[g] \in {"assets", "commit"} /\ job'[g] = job[g]
  BY <1>0, <1>6 DEF HandlerStep, TellSeed, RefuseSeed, Read, CheckReceipt, Backfill, CheckAssets, Refuse,
       Commit, CommitUnheard, Conflict, InsertReceipt, Tell
<1>7. ASSUME UNCHANGED vars \/ \E p \in Procs : Crash(p)
      PROVE  /\ locks' = locks /\ raced'[g] = raced[g]
             /\ pc[g] \in {"assets", "commit"} /\ job'[g] = job[g]
  BY <1>0, <1>7 DEF vars, Crash
<1>8. CASE /\ locks' = locks /\ raced'[g] = raced[g]
           /\ pc[g] \in {"assets", "commit"} /\ job'[g] = job[g]
  BY <1>1, <1>8
<1> QED BY <1>2, <1>3, <1>4, <1>5, <1>6, <1>7, <1>8 DEF Next

\* A step without a fault: what it does to the project, the receipts and the
\* places of the handlers that commit.
Deciding == {"locks", "assets", "commit"}
Quiet ==
    /\ ws'.project = ws.project /\ receipts \subseteq receipts'
    /\ \A g \in Handlers : pc[g] = "insert" => pc'[g] = "insert" /\ job'[g] = job[g]
    /\ \A g \in Handlers : pc'[g] \in Deciding => pc[g] \in Deciding /\ job'[g] = job[g]

LEMMA FaultlessStep ==
    ASSUME Core, [Next]_vars, outages' = 0, crashes' = 0
    PROVE  /\ outages = 0 /\ crashes = 0
           /\ \/ Quiet
              \/ \E h \in Handlers : Commit(h) \/ CheckReceipt(h)
              \/ \E h \in Handlers : InsertReceipt(h) /\ receipts' = receipts \cup {job[h]}
<1>0. /\ pc \in [Handlers -> PCs] /\ job \in [Handlers -> Ops \cup Seeds \cup {None}]
      /\ outages \in Nat /\ crashes \in Nat
  BY DEF Core, TypeOK
<1> USE DEF Goto, Answer, Deciding
<1>1. ASSUME NEW h \in Handlers, (\E s \in Seeds : SubmitSeed(h, s)) \/ (\E o \in Ops : Submit(h, o))
      PROVE  outages = 0 /\ crashes = 0 /\ Quiet
  BY <1>0, <1>1 DEF SubmitSeed, Submit, Quiet
<1>2. ASSUME NEW h \in Handlers, Seed(h)
      PROVE  outages = 0 /\ crashes = 0 /\ Quiet
  <2>1. ws'.project = ws.project
    BY <1>2 DEF Seed, Seeded, Core, RingMatches
  <2> QED BY <1>0, <1>2, <2>1 DEF Seed, Quiet
<1>3. ASSUME NEW h \in Handlers, TellSeed(h) \/ RefuseSeed(h) \/ Read(h) \/ CheckLocks(h) \/ CheckAssets(h)
                                 \/ Refuse(h) \/ Conflict(h) \/ Tell(h)
      PROVE  outages = 0 /\ crashes = 0 /\ Quiet
  BY <1>0, <1>3 DEF TellSeed, RefuseSeed, Read, CheckLocks, CheckAssets, Refuse, Conflict, Tell, Quiet
<1>4. ASSUME NEW h \in Handlers, Backfill(h)
      PROVE  outages = 0 /\ crashes = 0 /\ Quiet
  BY <1>0, <1>4 DEF Backfill, WriteReceipt, Quiet
<1>5. ASSUME NEW h \in Handlers, Commit(h) \/ CheckReceipt(h)
      PROVE  outages = 0 /\ crashes = 0
  BY <1>5 DEF Commit, CheckReceipt
<1>6. ASSUME NEW h \in Handlers, InsertReceipt(h)
      PROVE  outages = 0 /\ crashes = 0 /\ receipts' = receipts \cup {job[h]}
  BY <1>0, <1>6 DEF InsertReceipt, WriteReceipt
<1>7. ASSUME (\E h \in Handlers : CommitUnheard(h)) \/ (\E p \in Procs : Crash(p))
      PROVE  FALSE
  BY <1>0, <1>7 DEF CommitUnheard, Crash
<1>8. ASSUME \/ UNCHANGED vars
             \/ \E e \in Entities : DropLock(e) \/ \E c \in Clients : AcquireLock(c, e)
      PROVE  outages = 0 /\ crashes = 0 /\ Quiet
  BY <1>8 DEF vars, DropLock, AcquireLock, Quiet
<1> QED BY <1>1, <1>2, <1>3, <1>4, <1>5, <1>6, <1>7, <1>8 DEF Next, HandlerStep

\* Within one process the receipt of a commit is written in the turn of the
\* commit, so that who asks for a receipt asks after it.
LEMMA OnceStep ==
    ASSUME Core, Receipted, [Next]_vars
    PROVE  Receipted'
<1> SUFFICES ASSUME OneProcess, outages' = 0, crashes' = 0
             PROVE  /\ AppliedOnce'
                    /\ \A o \in Ops : Stored(o)' => o \in receipts' \/ \E h \in Handlers : pc'[h] = "insert" /\ job'[h] = o
                    /\ \A g \in Handlers : \A o : pc'[g] \in Deciding /\ o = job'[g] => ~Stored(o)'
  BY DEF Receipted, Deciding, Stored, OneProcess
<1>0. /\ pc \in [Handlers -> PCs] /\ job \in [Handlers -> Ops \cup Seeds \cup {None}]
      /\ ws.project \in Seq(Ops)
  BY DEF Core, TypeOK, Doc
<1>1. /\ AppliedOnce
      /\ \A o \in Ops : Stored(o) => o \in receipts \/ \E h \in Handlers : pc[h] = "insert" /\ job[h] = o
      /\ \A h \in Handlers : pc[h] \in Deciding => ~Stored(job[h])
  BY FaultlessStep DEF Receipted, Deciding
<1>2. ASSUME NEW g \in Handlers, NEW h \in Handlers, pc[g] \in InQueueBody, pc[h] \in InQueueBody
      PROVE  g = h
  BY <1>2, TurnAlone DEF OneProcess
<1> USE DEF Goto, Answer
<1>3. CASE Quiet
  <2>1. AppliedOnce' /\ \A o : Stored(o)' <=> Stored(o)
    BY <1>1, <1>3 DEF Quiet, AppliedOnce, Stored
  <2>2. \A o \in Ops : Stored(o)' => o \in receipts' \/ \E h \in Handlers : pc'[h] = "insert" /\ job'[h] = o
    BY <1>1, <1>3, <2>1 DEF Quiet
  <2>3. \A g \in Handlers : \A o : pc'[g] \in Deciding /\ o = job'[g] => ~Stored(o)'
    BY <1>1, <1>3, <2>1 DEF Quiet
  <2> QED BY <2>1, <2>2, <2>3
<1>4. ASSUME NEW h \in Handlers, CheckReceipt(h)
      PROVE  /\ AppliedOnce'
             /\ \A o \in Ops : Stored(o)' => o \in receipts' \/ \E f \in Handlers : pc'[f] = "insert" /\ job'[f] = o
             /\ \A g \in Handlers : \A o : pc'[g] \in Deciding /\ o = job'[g] => ~Stored(o)'
  <2>1. /\ pc[h] = "receipt" /\ UNCHANGED <<ws, receipts, job>>
        /\ \A g \in Handlers \ {h} : pc'[g] = pc[g]
        /\ pc'[h] \in Deciding => job[h] \notin receipts
    BY <1>0, <1>4 DEF CheckReceipt, Deciding
  <2>2. AppliedOnce' /\ \A o : Stored(o)' <=> Stored(o)
    BY <1>1, <2>1 DEF AppliedOnce, Stored
  <2>3. \A f \in Handlers : pc[f] = "insert" => FALSE
    BY <1>2, <2>1 DEF InQueueBody
  <2>4. job[h] \in Ops
    BY <2>1, BodyFacts DEF InQueueBody
  <2>5. \A g \in Handlers : \A o : pc'[g] \in Deciding /\ o = job'[g] => ~Stored(o)'
    BY <1>1, <2>1, <2>2, <2>3, <2>4
  <2> QED BY <1>1, <2>1, <2>2, <2>3, <2>5
<1>5. ASSUME NEW h \in Handlers, InsertReceipt(h), receipts' = receipts \cup {job[h]}
      PROVE  /\ AppliedOnce'
             /\ \A o \in Ops : Stored(o)' => o \in receipts' \/ \E f \in Handlers : pc'[f] = "insert" /\ job'[f] = o
             /\ \A g \in Handlers : \A o : pc'[g] \in Deciding /\ o = job'[g] => ~Stored(o)'
  <2>1. /\ pc[h] = "insert" /\ UNCHANGED <<ws, job>> /\ pc'[h] = "tell"
        /\ \A g \in Handlers \ {h} : pc'[g] = pc[g]
    BY <1>0, <1>5 DEF InsertReceipt
  <2>2. AppliedOnce' /\ \A o : Stored(o)' <=> Stored(o)
    BY <1>1, <2>1 DEF AppliedOnce, Stored
  <2>3. \A o \in Ops : Stored(o)' => o \in receipts' \/ \E f \in Handlers : pc'[f] = "insert" /\ job'[f] = o
    BY <1>1, <1>5, <2>1, <2>2
  <2>4. \A g \in Handlers : \A o : pc'[g] \in Deciding /\ o = job'[g] => ~Stored(o)'
    BY <1>1, <2>1, <2>2 DEF Deciding
  <2> QED BY <2>2, <2>3, <2>4
<1>6. ASSUME NEW h \in Handlers, Commit(h)
      PROVE  /\ AppliedOnce'
             /\ \A o \in Ops : Stored(o)' => o \in receipts' \/ \E f \in Handlers : pc'[f] = "insert" /\ job'[f] = o
             /\ \A g \in Handlers : \A o : pc'[g] \in Deciding /\ o = job'[g] => ~Stored(o)'
  <2>1. /\ pc[h] = "commit" /\ Matches(h) /\ ws' = Applied(cur[h], job[h]) /\ UNCHANGED <<receipts, job>>
        /\ pc'[h] = "insert" /\ \A g \in Handlers \ {h} : pc'[g] = pc[g]
    BY <1>0, <1>6 DEF Commit
  <2>2. cur[h] = ws
    BY <2>1, MatchIsFresh
  <2>3. PICK n : n = Len(ws.project)
    OBVIOUS
  <2>4. /\ n \in Nat /\ Len(ws'.project) = n + 1 /\ ws'.project[n + 1] = job[h]
        /\ \A i \in 1..n : ws'.project[i] = ws.project[i]
    <3>1. ws'.project = Append(ws.project, job[h])
      BY <2>1, <2>2 DEF Applied
    <3>2. job[h] \in Ops
      BY <2>1, BodyFacts DEF InQueueBody
    <3> QED BY <1>0, <2>3, <3>1, <3>2
  <2>5. \A i \in 1..n : ws.project[i] # job[h]
    BY <1>1, <2>1, <2>3 DEF Stored, Deciding
  <2>6. AppliedOnce'
    <3> SUFFICES ASSUME NEW i \in 1..(n + 1), NEW j \in 1..(n + 1), ws'.project[i] = ws'.project[j]
                 PROVE  i = j
      BY <2>4 DEF AppliedOnce
    <3>1. CASE i \in 1..n /\ j \in 1..n
      BY <1>1, <2>3, <2>4, <3>1 DEF AppliedOnce
    <3>2. CASE i = n + 1 \/ j = n + 1
      BY <2>4, <2>5, <3>2
    <3> QED BY <2>4, <3>1, <3>2
  <2>7. \A o : Stored(o)' => Stored(o) \/ o = job[h]
    <3> SUFFICES ASSUME NEW o, NEW i \in 1..(n + 1), ws'.project[i] = o
                 PROVE  Stored(o) \/ o = job[h]
      BY <2>4 DEF Stored
    <3>1. CASE i = n + 1
      BY <2>4, <3>1
    <3>2. CASE i # n + 1
      BY <2>3, <2>4, <3>2 DEF Stored
    <3> QED BY <3>1, <3>2
  <2>8. \A o \in Ops : Stored(o)' => o \in receipts' \/ \E f \in Handlers : pc'[f] = "insert" /\ job'[f] = o
    BY <1>1, <2>1, <2>7
  <2>9. \A g \in Handlers : \A o : pc'[g] \in Deciding /\ o = job'[g] => ~Stored(o)'
    <3> SUFFICES ASSUME NEW g \in Handlers, pc'[g] \in Deciding PROVE FALSE
      OBVIOUS
    <3>1. g # h /\ pc[g] \in Deciding
      BY <2>1 DEF Deciding
    <3> QED BY <1>2, <2>1, <3>1 DEF Deciding, InQueueBody
  <2> QED BY <2>6, <2>8, <2>9
<1> QED BY <1>3, <1>4, <1>5, <1>6, FaultlessStep

-----------------------------------------------------------------------------
(* Theorems                                                                 *)

\* The inductive invariant holds in every reachable state.
THEOREM Invariance == Spec => []IInv
<1>1. Core /\ [Next]_vars => Core'
  BY TypeStep, JobsStep, QueueStep, LogStep, SnapshotStep DEF Core
<1>2. IInv /\ [Next]_vars => IInv'
  BY <1>1, TruthStep, RoomStep, LocksStep, OnceStep DEF IInv
<1>3. Init => IInv
  BY InitCore, InitRest DEF IInv
<1>4. QED BY <1>2, <1>3, PTL DEF Spec

\* The documents and the handlers' local state keep their shape.
THEOREM TypeCorrect == Spec => []TypeOK
<1>1. IInv => TypeOK
  BY DEF IInv, Core
<1>2. QED BY <1>1, Invariance, PTL

\* However many processes, retries, crashes and lost receipts there are, an
\* operation id is not applied twice within RingLimit versions.
THEOREM Deduplication == Spec => []DedupWindow
<1>1. IInv => DedupWindow
  BY DEF IInv, Core
<1>2. QED BY <1>1, Invariance, PTL

\* What a client was told stays true, whatever becomes of the processes.
THEOREM AnswersStayTrue == Spec => []AnswersHold
<1>1. IInv => AnswersHold
  BY DEF IInv
<1>2. QED BY <1>1, Invariance, PTL

\* No process tells its sockets of a version after a later one.
THEOREM RoomsHearInOrder == Spec => []BroadcastsInOrder
<1>1. IInv => BroadcastsInOrder
  BY DEF IInv
<1>2. QED BY <1>1, Invariance, PTL

\* Within one process, while no receipt write and no answer is lost, an
\* operation is applied once, however late its retries come.
THEOREM AppliedOnceInOneProcess ==
    ASSUME OneProcess
    PROVE  Spec => []AppliedOnceUnlessLost
<1>1. IInv => AppliedOnceUnlessLost
  BY DEF IInv, Receipted, AppliedOnceUnlessLost
<1>2. QED BY <1>1, Invariance, PTL

\* No operation is committed against a lock that was there when the handler
\* looked (workspaces.ts, foreignLockHolder).
THEOREM LocksAreEnforced == Spec => LocksEnforcedUnlessRaced
<1>1. IInv => (\A h \in Handlers : Commits(h) => ~ForeignLock(job[h]) \/ raced[h])
  BY DEF IInv, Watched, Commits
<1>2. QED BY <1>1, Invariance, PTL DEF LocksEnforcedUnlessRaced

\* The endpoints implement the append-only log of module WorkspaceLog.
THEOREM Refinement == Spec => ImplementsLog
<1>1. Init => Log!LogInit
  BY DEF Init, Log!LogInit, NoWorkspace, Seeded
<1>2. IInv /\ [Next]_vars => [Log!LogNext]_(Log!logVars)
  <2> SUFFICES ASSUME IInv, [Next]_vars
               PROVE  Log!LogNext \/ UNCHANGED Log!logVars
    OBVIOUS
  <2>0. /\ ws \in Doc /\ RingMatches(ws) /\ ws.project \in Seq(Ops)
        /\ ws.version \in Nat
    BY DEF IInv, Core, TypeOK, Doc
  <2>1. CASE ws' = ws
    BY <2>1 DEF Log!logVars
  <2>2. ASSUME NEW s \in Seeds, ws.seed = None, ws' = Seeded(s)
        PROVE  Log!LogNext
    <3>1. ws.project = <<>>
      BY <2>0, <2>2 DEF RingMatches
    <3>2. Log!Initialize(s)
      BY <2>2, <3>1 DEF Log!Initialize, Seeded
    <3> QED BY <3>2 DEF Log!LogNext
  <2>3. ASSUME NEW o \in Ops, Extends(o)
        PROVE  Log!LogNext
    <3>1. ws'.project = Append(ws.project, o) /\ ws'.seed = ws.seed
      BY <2>0, <2>3, AppliedFacts DEF Extends
    <3>2. \A i \in 1..Len(ws.project) :
             ws.project[i] = o => Len(ws.project) - i >= RingLimit
      BY <2>0, <2>3, RingRemembers DEF Extends
    <3>3. \A i \in Log!Remembered : ws.project[i] # o
      BY <2>0, <3>2, Limits DEF Log!Remembered
    <3>4. Log!Accept(o)
      BY <2>3, <3>1, <3>3 DEF Log!Accept, Extends
    <3> QED BY <3>4 DEF Log!LogNext
  <2>4. QED BY <2>1, <2>2, <2>3, DocStep DEF IInv
<1>3. QED BY <1>1, <1>2, Invariance, PTL DEF Spec, ImplementsLog, Log!LogSpec
=============================================================================
