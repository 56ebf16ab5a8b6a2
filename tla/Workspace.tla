----------------------------- MODULE Workspace ------------------------------
(***************************************************************************)
(* The durable live workspace of one pack (src/routes/workspaces.ts):      *)
(* the initialize and operations endpoints, run by request handlers inside *)
(* one or more server processes over a shared MongoDB.                     *)
(*                                                                         *)
(* Every action of a handler is one database call with the synchronous     *)
(* code up to the next await, so that anything may happen between two      *)
(* awaits: other handlers, lock traffic, another process, a crash.         *)
(* Authentication, body parsing and the role check only read and refuse;   *)
(* a request appears here once it has passed them.                         *)
(***************************************************************************)
EXTENDS Naturals, Sequences, FiniteSets

CONSTANTS
    Ops,          \* operation ids chosen by clients; a retry reuses its id
    Seeds,        \* projects sent to /workspace/initialize
    Clients,      \* (user, device) pairs
    Entities,     \* lockable groups, drawables and tattoos
    Author,       \* the client that sends (and resends) an operation
    Touches,      \* the entities an operation patches, upserts or deletes
    Handlers,     \* slots for requests in flight
    Procs,        \* server processes
    ProcOf,       \* the process a handler slot lives in
    None,         \* absent workspace, lock holder or job
    RingLimit,    \* RECENT_OPERATION_LIMIT (512 in the code)
    Attempts,     \* compare-and-swap attempts per request (5 in the code)
    MaxVersion,   \* bound on the version a run explores
    MaxCrashes,   \* bound on crashes and on commits whose answer is lost
    MaxOutages    \* bound on failing receipt writes

ASSUME LimitAssumption ==
    /\ RingLimit \in Nat \ {0}
    /\ Attempts \in Nat \ {0}
    /\ {MaxVersion, MaxCrashes, MaxOutages} \subseteq Nat
ASSUME MappingAssumption ==
    /\ Author \in [Ops -> Clients]
    /\ Touches \in [Ops -> SUBSET Entities]
    /\ ProcOf \in [Handlers -> Procs]
ASSUME AbsentAssumption == None \notin Seeds \cup Clients \cup Ops

VARIABLES
    ws,        \* the atelierWorkspaces document
    receipts,  \* operation ids with an atelierWorkspaceOperations document
    locks,     \* holder of the active lock of an entity, or None
    queue,     \* packQueues: per process, requests in arrival order
    pc,        \* where a handler is
    job,       \* the operation id or seed a handler works on
    cur,       \* the workspace document a handler has read
    tries,     \* failed compare-and-swaps of this request
    reply,     \* the last answer a handler gave
    room,      \* versions broadcast by a process, 0 for workspace-reset
    crashes, outages,
    raced      \* history: a touched entity was locked after the lock check

vars == <<ws, receipts, locks, queue, pc, job, cur, tries, reply, room,
          crashes, outages, raced>>

Seeded(s) == [seed |-> s, project |-> <<>>, version |-> 0, ring |-> <<>>]
NoWorkspace == Seeded(None)
Replies == [kind : {"none", "seeded", "accepted", "duplicate", "refused"},
            version : Nat]
NoReply == [kind |-> "none", version |-> 0]

\* The project is represented by the operations that produced it.
Doc == [seed : Seeds \cup {None}, project : Seq(Ops), version : Nat,
        ring : Seq([op : Ops, version : Nat])]

\* Inside the body of inPackQueue, holding the pack's turn in its process.
InQueueBody == {"receipt", "backfill", "locks", "assets", "commit", "insert",
                "tell"}
PCs == {"idle", "seed", "tellSeed", "read"} \cup InQueueBody

Init ==
    /\ ws = NoWorkspace
    /\ receipts = {}
    /\ locks = [e \in Entities |-> None]
    /\ queue = [p \in Procs |-> <<>>]
    /\ pc = [h \in Handlers |-> "idle"]
    /\ job = [h \in Handlers |-> None]
    /\ cur = [h \in Handlers |-> NoWorkspace]
    /\ tries = [h \in Handlers |-> 0]
    /\ reply = [h \in Handlers |-> NoReply]
    /\ room = [p \in Procs |-> <<>>]
    /\ crashes = 0
    /\ outages = 0
    /\ raced = [h \in Handlers |-> FALSE]

-----------------------------------------------------------------------------
(* Helpers                                                                  *)

Goto(h, l) == pc' = [pc EXCEPT ![h] = l]

\* Return from the endpoint with an answer.
Answer(h, kind, v) ==
    /\ Goto(h, "idle")
    /\ reply' = [reply EXCEPT ![h] = [kind |-> kind, version |-> v]]

\* Mutant: no finally block, an early return keeps the turn.
ReleaseForgotten(h) == UNCHANGED queue

\* The finally block of inPackQueue: the next request gets its turn.
Release(h) == queue' = [queue EXCEPT ![ProcOf[h]] = Tail(@)]

\* Mutant: requests of a process are not serialized.
TurnIgnored(h) == queue[ProcOf[h]] # <<>>

Turn(h) == Head(queue[ProcOf[h]]) = h

\* Mutants: the slice is missing, or keeps one entry too few.
PushUnbounded(ring, entry) == Append(ring, entry)
PushShort(ring, entry) ==
    IF Len(ring) < RingLimit THEN ring ELSE Append(Tail(ring), entry)

\* [...ring, entry].slice(-RECENT_OPERATION_LIMIT)
Push(ring, entry) ==
    IF Len(ring) < RingLimit
    THEN Append(ring, entry)
    ELSE Append(SubSeq(ring, Len(ring) - RingLimit + 2, Len(ring)), entry)

InRing(o, ring) == \E i \in 1..Len(ring) : ring[i].op = o

\* The document applyWorkspaceOperation and the update produce from d.
Applied(d, o) ==
    [seed |-> d.seed, project |-> Append(d.project, o),
     version |-> d.version + 1,
     ring |-> Push(d.ring, [op |-> o, version |-> d.version + 1])]

\* foreignLockHolder: an active lock of another user or device.
ForeignLock(o) == \E e \in Touches[o] : locks[e] \notin {None, Author[o]}

Active == {h \in Handlers : pc[h] # "idle"}

-----------------------------------------------------------------------------
(* POST /workspace/initialize                                               *)

SubmitSeed(h, s) ==
    /\ pc[h] = "idle"
    /\ Goto(h, "seed")
    /\ job' = [job EXCEPT ![h] = s]
    /\ reply' = [reply EXCEPT ![h] = NoReply]
    /\ UNCHANGED <<ws, receipts, locks, queue, cur, tries, room, crashes,
                   outages, raced>>

\* Mutant: an upsert instead of an insert.
SeedOverwrites(h) ==
    /\ pc[h] = "seed"
    /\ ws' = Seeded(job[h])
    /\ Goto(h, "tellSeed")
    /\ UNCHANGED <<receipts, locks, queue, job, cur, tries, reply, room,
                   crashes, outages, raced>>

\* insertOne; on a duplicate key the existing workspace is the answer.
Seed(h) ==
    /\ pc[h] = "seed"
    /\ IF ws.seed = None
       THEN /\ ws' = Seeded(job[h])
            /\ Goto(h, "tellSeed")
            /\ UNCHANGED <<job, reply>>
       ELSE /\ Answer(h, "seeded", ws.version)
            /\ job' = [job EXCEPT ![h] = ws.seed]
            /\ UNCHANGED ws
    /\ UNCHANGED <<receipts, locks, queue, cur, tries, room, crashes, outages,
                   raced>>

\* broadcast workspace-reset and answer 201.
TellSeed(h) ==
    /\ pc[h] = "tellSeed"
    /\ room' = [room EXCEPT ![ProcOf[h]] = Append(@, 0)]
    /\ Answer(h, "seeded", 0)
    /\ UNCHANGED <<ws, receipts, locks, queue, job, cur, tries, crashes,
                   outages, raced>>

\* head_changed, invalid project, too large, missing assets, or a read fails.
RefuseSeed(h) ==
    /\ pc[h] = "seed"
    /\ Answer(h, "refused", 0)
    /\ UNCHANGED <<ws, receipts, locks, queue, job, cur, tries, room, crashes,
                   outages, raced>>

-----------------------------------------------------------------------------
(* POST /workspace/operations                                               *)

\* A new operation or the retry of any earlier one enters the pack queue.
Submit(h, o) ==
    /\ pc[h] = "idle"
    /\ ws.version + Cardinality(Active) < MaxVersion
    /\ Goto(h, "read")
    /\ job' = [job EXCEPT ![h] = o]
    /\ tries' = [tries EXCEPT ![h] = 0]
    /\ reply' = [reply EXCEPT ![h] = NoReply]
    /\ queue' = [queue EXCEPT ![ProcOf[h]] = Append(@, h)]
    /\ raced' = [raced EXCEPT ![h] = FALSE]
    /\ UNCHANGED <<ws, receipts, locks, cur, room, crashes, outages>>

Read(h) ==
    /\ pc[h] = "read"
    /\ Turn(h)
    /\ ws.seed # None
    /\ cur' = [cur EXCEPT ![h] = ws]
    /\ Goto(h, "receipt")
    /\ UNCHANGED <<ws, receipts, locks, queue, job, tries, reply, room,
                   crashes, outages, raced>>

\* The durable receipt is looked up first, then the ring of the snapshot.
CheckReceipt(h) ==
    /\ pc[h] = "receipt"
    /\ \/ /\ job[h] \in receipts
          /\ Answer(h, "duplicate", cur[h].version)
          /\ Release(h)
       \/ /\ job[h] \notin receipts
          /\ Goto(h, IF InRing(job[h], cur[h].ring) THEN "backfill"
                                                    ELSE "locks")
          /\ UNCHANGED <<queue, reply>>
    /\ UNCHANGED <<ws, receipts, locks, job, cur, tries, room, crashes,
                   outages, raced>>

\* Mutant: no durable receipts.
WriteNoReceipt(h) == h \in Handlers /\ UNCHANGED <<receipts, outages>>

\* A receipt write that succeeds, or fails and is only logged.
WriteReceipt(h) ==
    \/ receipts' = receipts \cup {job[h]} /\ UNCHANGED outages
    \/ outages < MaxOutages /\ outages' = outages + 1 /\ UNCHANGED receipts

Backfill(h) ==
    /\ pc[h] = "backfill"
    /\ WriteReceipt(h)
    /\ Answer(h, "duplicate", cur[h].version)
    /\ Release(h)
    /\ UNCHANGED <<ws, locks, job, cur, tries, room, crashes, raced>>

\* Mutant: the lock check is missing.
SkipLocks(h) ==
    /\ pc[h] = "locks"
    /\ Goto(h, "assets")
    /\ raced' = [raced EXCEPT ![h] = FALSE]
    /\ UNCHANGED <<ws, receipts, locks, queue, job, cur, tries, reply, room,
                   crashes, outages>>

CheckLocks(h) ==
    /\ pc[h] = "locks"
    /\ IF ForeignLock(job[h])
       THEN Answer(h, "refused", 0) /\ Release(h)
       ELSE Goto(h, "assets") /\ UNCHANGED <<reply, queue>>
    /\ raced' = [raced EXCEPT ![h] = FALSE]
    /\ UNCHANGED <<ws, receipts, locks, job, cur, tries, room, crashes,
                   outages>>

\* The operation applies, the result fits and names only stored assets.
CheckAssets(h) ==
    /\ pc[h] = "assets"
    /\ Goto(h, "commit")
    /\ UNCHANGED <<ws, receipts, locks, queue, job, cur, tries, reply, room,
                   crashes, outages, raced>>

\* workspace_not_initialized, an invalid result, too large, missing assets,
\* or one of these database calls fails without effect.
Refuse(h) ==
    /\ \/ pc[h] = "read" /\ Turn(h)
       \/ pc[h] \in {"receipt", "locks", "assets", "commit"}
    /\ Answer(h, "refused", 0)
    /\ Release(h)
    /\ UNCHANGED <<ws, receipts, locks, job, cur, tries, room, crashes,
                   outages, raced>>

\* Mutant: the update is not conditional on the version read.
MatchesAlways(h) == h \in Handlers

\* findOneAndUpdate on { packId, version }: the compare-and-swap.
Matches(h) == ws.version = cur[h].version

Commit(h) ==
    /\ pc[h] = "commit"
    /\ Matches(h)
    /\ ws' = Applied(cur[h], job[h])
    /\ cur' = [cur EXCEPT ![h] = ws']
    /\ Goto(h, "insert")
    /\ UNCHANGED <<receipts, locks, queue, job, tries, reply, room, crashes,
                   outages, raced>>

\* The update is applied but the driver reports an error: 500 to the client.
CommitUnheard(h) ==
    /\ pc[h] = "commit"
    /\ Matches(h)
    /\ crashes < MaxCrashes
    /\ crashes' = crashes + 1
    /\ ws' = Applied(cur[h], job[h])
    /\ Answer(h, "refused", 0)
    /\ Release(h)
    /\ UNCHANGED <<receipts, locks, job, cur, tries, room, outages, raced>>

\* Another process committed first: read again, at most Attempts times.
Conflict(h) ==
    /\ pc[h] = "commit"
    /\ ~Matches(h)
    /\ IF tries[h] + 1 < Attempts
       THEN /\ tries' = [tries EXCEPT ![h] = @ + 1]
            /\ Goto(h, "read")
            /\ UNCHANGED <<reply, queue>>
       ELSE /\ Answer(h, "refused", 0)
            /\ Release(h)
            /\ UNCHANGED tries
    /\ UNCHANGED <<ws, receipts, locks, job, cur, room, crashes, outages,
                   raced>>

\* Mutant: a failed receipt write ends the request with an error.
InsertReceiptOrFail(h) ==
    /\ pc[h] = "insert"
    /\ \/ WriteReceipt(h) /\ receipts' # receipts /\ Goto(h, "tell")
          /\ UNCHANGED <<reply, queue>>
       \/ /\ outages < MaxOutages /\ outages' = outages + 1
          /\ Answer(h, "refused", 0) /\ Release(h) /\ UNCHANGED receipts
    /\ UNCHANGED <<ws, locks, job, cur, tries, room, crashes, raced>>

InsertReceipt(h) ==
    /\ pc[h] = "insert"
    /\ WriteReceipt(h)
    /\ Goto(h, "tell")
    /\ UNCHANGED <<ws, locks, queue, job, cur, tries, reply, room, crashes,
                   raced>>

\* broadcast workspace-changed, then answer.
Tell(h) ==
    /\ pc[h] = "tell"
    /\ room' = [room EXCEPT ![ProcOf[h]] = Append(@, cur[h].version)]
    /\ Answer(h, "accepted", cur[h].version)
    /\ Release(h)
    /\ UNCHANGED <<ws, receipts, locks, job, cur, tries, crashes, outages,
                   raced>>

-----------------------------------------------------------------------------
(* Environment                                                              *)

\* A lock is acquired through the lock endpoints (a free entity only; the
\* endpoints themselves are another component).
AcquireLock(c, e) ==
    /\ locks[e] = None
    /\ locks' = [locks EXCEPT ![e] = c]
    /\ raced' = [h \in Handlers |->
                    \/ raced[h]
                    \/ /\ pc[h] \in {"assets", "commit"}
                       /\ e \in Touches[job[h]]]
    /\ UNCHANGED <<ws, receipts, queue, pc, job, cur, tries, reply, room,
                   crashes, outages>>

\* A lock is released, broken or expires.
DropLock(e) ==
    /\ locks[e] # None
    /\ locks' = [locks EXCEPT ![e] = None]
    /\ UNCHANGED <<ws, receipts, queue, pc, job, cur, tries, reply, room,
                   crashes, outages, raced>>

\* The process dies and restarts: its requests and its queue are gone.
Crash(p) ==
    /\ crashes < MaxCrashes
    /\ crashes' = crashes + 1
    /\ pc' = [h \in Handlers |-> IF ProcOf[h] = p THEN "idle" ELSE pc[h]]
    /\ reply' = [h \in Handlers |->
                    IF ProcOf[h] = p /\ pc[h] # "idle" THEN NoReply
                                                       ELSE reply[h]]
    /\ queue' = [queue EXCEPT ![p] = <<>>]
    /\ UNCHANGED <<ws, receipts, locks, job, cur, tries, room, outages, raced>>

-----------------------------------------------------------------------------
(* Specification                                                            *)

HandlerStep(h) ==
    \/ Seed(h) \/ TellSeed(h) \/ RefuseSeed(h)
    \/ Read(h) \/ CheckReceipt(h) \/ Backfill(h)
    \/ CheckLocks(h) \/ CheckAssets(h) \/ Refuse(h)
    \/ Commit(h) \/ CommitUnheard(h) \/ Conflict(h)
    \/ InsertReceipt(h) \/ Tell(h)

Next ==
    \/ \E h \in Handlers :
          \/ \E s \in Seeds : SubmitSeed(h, s)
          \/ \E o \in Ops : Submit(h, o)
          \/ HandlerStep(h)
    \/ \E e \in Entities : DropLock(e) \/ \E c \in Clients : AcquireLock(c, e)
    \/ \E p \in Procs : Crash(p)

Spec == Init /\ [][Next]_vars

\* A request that has been accepted keeps running: the runtime resumes every
\* await.  Clients, locks and crashes are not fair.
FairSpec == Spec /\ \A h \in Handlers : WF_vars(HandlerStep(h))

-----------------------------------------------------------------------------
(* Properties                                                               *)

\* The shape of the documents and of the handlers' local state.
TypeOK ==
    /\ ws \in Doc
    /\ receipts \subseteq Ops
    /\ locks \in [Entities -> Clients \cup {None}]
    /\ queue \in [Procs -> Seq(Handlers)]
    /\ pc \in [Handlers -> PCs]
    /\ job \in [Handlers -> Ops \cup Seeds \cup {None}]
    /\ cur \in [Handlers -> Doc]
    /\ tries \in [Handlers -> Nat]
    /\ reply \in [Handlers -> Replies]
    /\ room \in [Procs -> Seq(Nat)]
    /\ crashes \in Nat /\ outages \in Nat
    /\ raced \in [Handlers -> BOOLEAN]

\* The embedded ring alone keeps an operation id from being applied again
\* within RingLimit versions, whatever crashes, however many processes write
\* and whether or not any receipt was ever stored.
Spaced(q) == \A i, j \in 1..Len(q) : i < j /\ q[i] = q[j] => j - i > RingLimit
DedupWindow == Spaced(ws.project)

\* An operation id takes effect once, however often it is retried.  The
\* receipts are there to make this hold after the ring has rolled over
\* (models/atelierWorkspace.ts, WorkspaceOperationReceipt).
AppliedOnce ==
    \A i, j \in 1..Len(ws.project) :
        ws.project[i] = ws.project[j] => i = j

\* Without a lost receipt or answer the receipts do their work: they are
\* written in the turn that commits, so that within one process no retry slips
\* in between, however late it comes.
AppliedOnceUnlessLost == outages = 0 /\ crashes = 0 => AppliedOnce

Stored(o) == \E i \in 1..Len(ws.project) : ws.project[i] = o

\* What a client was told stays true: an accepted operation sits at the
\* version of its answer, a duplicate is in the project already, and every
\* initializer was given the one seed the workspace has.
AnswersHold ==
    \A h \in Handlers :
        /\ reply[h].kind = "accepted" =>
              /\ reply[h].version \in 1..Len(ws.project)
              /\ ws.project[reply[h].version] = job[h]
        /\ reply[h].kind = "duplicate" => Stored(job[h])
        /\ reply[h].kind = "seeded" => ws.seed = job[h]

\* A process broadcasts the versions it committed in increasing order, each
\* one once: peers that apply them as they come never go back.
BroadcastsInOrder ==
    \A p \in Procs : \A i, j \in 1..Len(room[p]) :
        i < j /\ room[p][j] # 0 => room[p][i] < room[p][j]

\* The endpoints implement the log of accepted operations: seeded once, never
\* rewritten, one operation per version, none repeated inside the window.
Log == INSTANCE WorkspaceLog WITH
    seed <- ws.seed, log <- ws.project, Window <- RingLimit
ImplementsLog == Log!LogSpec

\* The operation a step commits, when it commits one.
Commits(h) == pc[h] = "commit" /\ pc'[h] # "commit" /\ ws' # ws

\* Edit locks are enforced (README, "enforced entity edit locks").  A lock that
\* was held when the handler looked, or that was taken earlier, is never
\* overridden: the only commits against a foreign lock are those of a
\* handler already past its lock check when the lock was acquired.
LocksEnforcedUnlessRaced ==
    [][\A h \in Handlers :
          Commits(h) => ~ForeignLock(job[h]) \/ raced[h]]_vars

\* Every accepted operation is broadcast, even when its receipt could not be
\* stored ("otherwise peers can remain stale forever").
CommitsReachRoom ==
    \A v \in 1..MaxVersion :
        ws.version >= v ~>
            \E p \in Procs : \E i \in 1..Len(room[p]) : room[p][i] = v

\* Every request is answered: no early return keeps the pack queue blocked.
Answered == \A h \in Handlers : pc[h] # "idle" ~> pc[h] = "idle"

-----------------------------------------------------------------------------
(* The inductive invariant: what is behind DedupWindow and ImplementsLog ... *)

\* A document is what its project says: one version per operation, and the
\* ring holds the last RingLimit of them with their versions.
RingMatches(d) ==
    /\ d.version = Len(d.project)
    /\ Len(d.ring) = IF d.version < RingLimit THEN d.version ELSE RingLimit
    /\ \A i \in 1..Len(d.ring) :
          /\ d.ring[i].op = d.project[d.version - Len(d.ring) + i]
          /\ d.ring[i].version = d.version - Len(d.ring) + i
    /\ d.seed = None => d.project = <<>>

\* A snapshot is a past state of the document; at equal versions it is the
\* document, which is what makes the compare-and-swap safe.
SnapshotOK(h) ==
    /\ RingMatches(cur[h])
    /\ cur[h].version <= ws.version
    /\ cur[h].version = ws.version /\ cur[h].seed # None => cur[h] = ws
    /\ pc[h] \in InQueueBody => cur[h].seed # None
    /\ pc[h] \in {"locks", "assets", "commit"} => ~InRing(job[h], cur[h].ring)

JobsOK ==
    \A h \in Handlers :
        /\ pc[h] \in {"seed", "tellSeed"} => job[h] \in Seeds
        /\ pc[h] \in InQueueBody \cup {"read"} => job[h] \in Ops

\* A request that waits or runs is in its process's queue, at the head when it
\* runs: at most one request per process is inside the body.
QueueOK ==
    \A h \in Handlers :
        /\ pc[h] \in InQueueBody \cup {"read"} =>
              \E i \in 1..Len(queue[ProcOf[h]]) : queue[ProcOf[h]][i] = h
        /\ pc[h] \in InQueueBody => Turn(h)

Core ==
    /\ TypeOK
    /\ JobsOK
    /\ QueueOK
    /\ RingMatches(ws)
    /\ \A h \in Handlers : SnapshotOK(h)
    /\ DedupWindow

-----------------------------------------------------------------------------
(* ... and behind the answers, the broadcasts, the receipts and the locks   *)

\* The document has only grown since it was d.
Past(d) ==
    /\ Len(d.project) <= Len(ws.project)
    /\ \A i \in 1..Len(d.project) : d.project[i] = ws.project[i]

\* What a request is about to answer or to write down is so.
Truthful ==
    /\ \A o \in receipts : Stored(o)
    /\ \A h \in Handlers :
          /\ Past(cur[h])
          /\ pc[h] = "backfill" => InRing(job[h], cur[h].ring)
          /\ pc[h] \in {"insert", "tell"} =>
                /\ cur[h].version \in 1..Len(cur[h].project)
                /\ cur[h].project[cur[h].version] = job[h]
          /\ pc[h] = "tellSeed" => ws.seed = job[h]
          /\ reply[h].kind = "seeded" => ws.seed # None

\* A version that is still to be told is above all that were told.
TellsAbove ==
    /\ \A p \in Procs : \A i \in 1..Len(room[p]) : room[p][i] <= ws.version
    /\ \A h \in Handlers : pc[h] \in {"insert", "tell"} =>
          \A i \in 1..Len(room[ProcOf[h]]) : room[ProcOf[h]][i] < cur[h].version

Watched ==
    \A h \in Handlers :
        pc[h] \in {"assets", "commit"} => ~ForeignLock(job[h]) \/ raced[h]

\* Within one process, what was stored has its receipt or is about to get it,
\* and whoever may commit has an operation that was not stored.
OneProcess == \A g, h \in Handlers : ProcOf[g] = ProcOf[h]

Receipted ==
    OneProcess /\ outages = 0 /\ crashes = 0 =>
        /\ AppliedOnce
        /\ \A o \in Ops : Stored(o) =>
              o \in receipts \/ \E h \in Handlers : pc[h] = "insert" /\ job[h] = o
        /\ \A h \in Handlers :
              pc[h] \in {"locks", "assets", "commit"} => ~Stored(job[h])

IInv ==
    /\ Core
    /\ Truthful /\ AnswersHold
    /\ TellsAbove /\ BroadcastsInOrder
    /\ Watched /\ Receipted
=============================================================================
