------------------------------ MODULE BuildQueue ----------------------------
(***************************************************************************)
(* The in-process build queue of src/builds/queue.ts: requests for builds  *)
(* (ensureBuild, forceRebuild), the dispatcher (enqueue, pump), the build  *)
(* runs (runBuild), the recovery at startup (configureBuildQueue) and the  *)
(* collection of orphan artifacts (gcOrphanBuilds in src/storage/gc.ts).   *)
(*                                                                         *)
(* An action is one database or file system call with the synchronous code *)
(* up to the next await. A build stands for its { packId, revision }.      *)
(***************************************************************************)
EXTENDS Naturals, Sequences, SequencesExt, FiniteSets

CONSTANTS
    Builds,       \* pairs of pack and revision
    Requests,     \* concurrent calls of ensureBuild and forceRebuild
    Concurrency,  \* ATELIER_BUILD_CONCURRENCY
    MaxQuick,     \* MAX_QUICK_ATTEMPTS
    Leftover,     \* artifacts on disk without a document (scripts/smoke.ts)
    Faults,       \* of "crash", "reject" of a call awaited, "wipe" of the disk
    EarlyRequests,  \* requests are served before the recovery has ended
    None,
    MaxAttempts,  \* bound on the runs of a build
    MaxFaults     \* bound on the faults that happen

Build == [status : {"queued", "running", "done", "error"},
          attempts : 1..MaxAttempts, path : BOOLEAN, recent : BOOLEAN]

ASSUME QueueAssumption ==
    /\ {Concurrency, MaxAttempts} \subseteq Nat \ {0}
    /\ {MaxQuick, MaxFaults} \subseteq Nat
    /\ Leftover \subseteq Builds /\ IsFiniteSet(Builds)
    /\ Faults \subseteq {"crash", "reject", "wipe"}
    /\ EarlyRequests \in BOOLEAN
    /\ None \notin Builds \cup Build

VARIABLES
    doc,      \* atelierBuilds
    art,      \* builds with an artifact on disk
    part,     \* builds with a .part file
    pending,  \* FIFO of builds waiting for a slot
    slots,    \* what each slot runs (running is the number of busy ones)
    calls,    \* where each request is
    boot,     \* where the recovery is
    gc,       \* artifact the collector is about to remove
    faults,
    wiped,    \* history: builds whose artifact somebody else removed
    stranded, \* history: builds a rejected call left without a run to come
    overtaken \* history: builds whose document moved on under a live run

vars == <<doc, art, part, pending, slots, calls, boot, gc, faults, wiped,
          stranded, overtaken>>

Slots == 1..Concurrency
Idle == [at |-> "idle", b |-> None]
NoCall == [at |-> "idle", b |-> None, force |-> FALSE, seen |-> 0]
RunPCs == {"build", "write", "rm", "rename", "done", "fail"}

Init ==
    /\ doc = [b \in Builds |-> None]
    /\ art = Leftover
    /\ part = {}
    /\ pending = <<>>
    /\ slots = [w \in Slots |-> Idle]
    /\ calls = [r \in Requests |-> NoCall]
    /\ boot = "reset"
    /\ gc = None
    /\ faults = 0
    /\ wiped = {} /\ stranded = {} /\ overtaken = {}

Has(b, S) == doc[b] # None /\ doc[b].status \in S
Runs(b) == {w \in Slots : slots[w].at \in RunPCs /\ slots[w].b = b}

\* Somebody of this process is about to claim b.
OnItsWay(b) ==
    \/ \E i \in DOMAIN pending : pending[i] = b
    \/ \E w \in Slots : slots[w].at = "claim" /\ slots[w].b = b
    \/ \E r \in Requests : calls[r].at = "enqueue" /\ calls[r].b = b

Scheduled(b) == OnItsWay(b) \/ boot \in {"reset", "list"}

NoFault == UNCHANGED faults
MayFail(kind) == kind \in Faults /\ faults < MaxFaults /\ faults' = faults + 1

-----------------------------------------------------------------------------
(* The dispatcher                                                           *)

\* pump: free slots take the first builds of the queue, in order.
Pump(queue, now) ==
    LET free == {w \in Slots : now[w].at = "idle"}
        rank(w) == Cardinality({v \in free : v <= w})
    IN /\ slots' = [w \in Slots |->
                      IF w \in free /\ rank(w) <= Len(queue)
                      THEN [at |-> "claim", b |-> queue[rank(w)]] ELSE now[w]]
       /\ pending' = SubSeq(queue, Cardinality(free) + 1, Len(queue))

\* enqueue
Enqueue(b) == Pump(Append(pending, b), slots)

\* The finally of pump: the slot is free and the next build starts.
EndRun(w) == Pump(pending, [slots EXCEPT ![w] = Idle])

-----------------------------------------------------------------------------
(* ensureBuild and forceRebuild                                             *)

Goto(r, pc) == calls' = [calls EXCEPT ![r].at = pc]
Return(r) == calls' = [calls EXCEPT ![r] = NoCall]

\* History: the attempt whose document the request decides on.
Saw(r, b, pc) == calls' = [calls EXCEPT ![r].at = pc, ![r].seen = doc[b].attempts]

Arrive(r, b, force) ==
    /\ calls[r].at = "idle"
    /\ EarlyRequests \/ boot = "over"
    /\ calls' = [calls EXCEPT ![r] = [at |-> "find", b |-> b, force |-> force, seen |-> 0]]
    /\ UNCHANGED <<doc, art, part, pending, slots, boot, gc, faults, wiped,
                   stranded, overtaken>>

\* Mutant: failed builds are always retried.
RetryAlways(b) == FALSE

\* The churn guard of ensureBuild.
CoolingDown(b) ==
    doc[b].status = "error" /\ doc[b].attempts >= MaxQuick /\ doc[b].recent

\* findOne, and what follows from the document it returns.
Find(r) ==
    LET b == calls[r].b
        force == calls[r].force
    IN
    /\ calls[r].at = "find"
    /\ \/ /\ doc[b] = None /\ force
          /\ calls' = [calls EXCEPT ![r].force = FALSE]
       \/ doc[b] = None /\ ~force /\ Goto(r, "insert")
       \/ Has(b, {"queued", "running"}) /\ Return(r)
       \/ Has(b, {"done", "error"}) /\ force /\ Goto(r, "reset")
       \/ /\ Has(b, {"done"}) /\ ~force
          /\ Saw(r, b, IF doc[b].path THEN "stat" ELSE "reset")
       \/ Has(b, {"error"}) /\ ~force /\ CoolingDown(b) /\ Return(r)
       \/ Has(b, {"error"}) /\ ~force /\ ~CoolingDown(b) /\ Saw(r, b, "reset")
    /\ UNCHANGED <<doc, art, part, pending, slots, boot, gc, faults, wiped,
                   stranded, overtaken>>

\* stat of the artifact: a cache hit, or a build whose artifact vanished; a stat
\* that fails counts as a missing artifact.
Stat(r) ==
    /\ calls[r].at = "stat"
    /\ \/ calls[r].b \in art /\ Return(r) /\ NoFault
       \/ calls[r].b \notin art /\ Goto(r, "reset") /\ NoFault
       \/ MayFail("reject") /\ Goto(r, "reset")
    /\ UNCHANGED <<doc, art, part, pending, slots, boot, gc, wiped, stranded,
                   overtaken>>

\* Mutant: the reset does not look at the status.
ResetAny(b) == doc[b] # None

\* The filter of the reset.
Resettable(b) == Has(b, {"done", "error"})

\* findOneAndUpdate; a request that lost the race returns the current document.
Reset(r) ==
    LET b == calls[r].b IN
    /\ calls[r].at = "reset"
    /\ IF Resettable(b)
       THEN /\ doc[b].attempts < MaxAttempts
            /\ doc' = [doc EXCEPT ![b] = [status |-> "queued", path |-> FALSE,
                                          attempts |-> doc[b].attempts + 1,
                                          recent |-> FALSE]]
            /\ Goto(r, "enqueue")
       ELSE Return(r) /\ UNCHANGED doc
    /\ UNCHANGED <<art, part, pending, slots, boot, gc, faults, wiped,
                   stranded, overtaken>>

\* insertOne; { packId, revision } is unique and the loser returns the winner.
Insert(r) ==
    LET b == calls[r].b IN
    /\ calls[r].at = "insert"
    /\ IF doc[b] = None
       THEN /\ doc' = [doc EXCEPT ![b] = [status |-> "queued", path |-> FALSE,
                                          attempts |-> 1, recent |-> FALSE]]
            /\ Goto(r, "enqueue")
       ELSE Return(r) /\ UNCHANGED doc
    /\ UNCHANGED <<art, part, pending, slots, boot, gc, faults, wiped,
                   stranded, overtaken>>

\* Mutant: the build is not enqueued.
AnsweredOnly(r) ==
    /\ calls[r].at = "enqueue"
    /\ Return(r)
    /\ UNCHANGED <<doc, art, part, pending, slots, boot, gc, faults, wiped,
                   stranded, overtaken>>

\* The write is answered: the build is enqueued and returned.
Answered(r) ==
    /\ calls[r].at = "enqueue"
    /\ Enqueue(calls[r].b)
    /\ Return(r)
    /\ UNCHANGED <<doc, art, part, boot, gc, faults, wiped, stranded,
                   overtaken>>

\* The database rejects a call that had no effect: the request fails.
Rejected(r) ==
    /\ calls[r].at \in {"find", "reset", "insert"}
    /\ MayFail("reject")
    /\ Return(r)
    /\ UNCHANGED <<doc, art, part, pending, slots, boot, gc, wiped, stranded,
                   overtaken>>

\* The write happened and its answer is an error: the reset rejects, the insert
\* takes its own document for a concurrent winner's.
AnswerLost(r) ==
    /\ calls[r].at = "enqueue"
    /\ MayFail("reject")
    /\ stranded' = stranded \cup {calls[r].b}
    /\ Return(r)
    /\ UNCHANGED <<doc, art, part, pending, slots, boot, gc, wiped, overtaken>>

-----------------------------------------------------------------------------
(* runBuild                                                                 *)

Step(w, pc) == slots' = [slots EXCEPT ![w].at = pc] /\ UNCHANGED pending

\* The filter of the claim.
Claimable(b) == Has(b, {"queued"})

Claim(w) ==
    LET b == slots[w].b IN
    /\ slots[w].at = "claim"
    /\ IF Claimable(b)
       THEN /\ doc' = [doc EXCEPT ![b].status = "running"]
            /\ Step(w, "build")
       ELSE EndRun(w) /\ UNCHANGED doc
    /\ UNCHANGED <<art, part, calls, boot, gc, faults, wiped, stranded,
                   overtaken>>

\* The claim rejects before the try, applied or not: the run ends and leaves the
\* document running or queued, with nobody to go on with it.
ClaimRejected(w) ==
    LET b == slots[w].b IN
    /\ slots[w].at = "claim"
    /\ MayFail("reject")
    /\ \/ UNCHANGED doc
       \/ Claimable(b) /\ doc' = [doc EXCEPT ![b].status = "running"]
    /\ stranded' = IF Claimable(b) THEN stranded \cup {b} ELSE stranded
    /\ EndRun(w)
    /\ UNCHANGED <<art, part, calls, boot, gc, wiped, overtaken>>

\* The revision and its assets are read and packed, or something is missing.
Pack(w) ==
    /\ slots[w].at = "build"
    /\ \E pc \in {"write", "fail"} : Step(w, pc)
    /\ UNCHANGED <<doc, art, part, calls, boot, gc, faults, wiped, stranded,
                   overtaken>>

\* mkdir and write of the .part file; one that fails may have begun it.
WritePart(w) ==
    LET written == part \cup {slots[w].b} IN
    /\ slots[w].at = "write"
    /\ \/ NoFault /\ Step(w, "rm") /\ part' = written
       \/ MayFail("reject") /\ Step(w, "fail") /\ part' \in {part, written}
    /\ UNCHANGED <<doc, art, calls, boot, gc, wiped, stranded, overtaken>>

\* rm of the old artifact; an error is ignored.
RemoveOld(w) ==
    /\ slots[w].at = "rm"
    /\ \/ NoFault /\ art' = art \ {slots[w].b}
       \/ MayFail("reject") /\ UNCHANGED art
    /\ Step(w, "rename")
    /\ UNCHANGED <<doc, part, calls, boot, gc, wiped, stranded, overtaken>>

\* rename fails when another run has taken the .part file, or on its own.
Rename(w) ==
    LET b == slots[w].b IN
    /\ slots[w].at = "rename"
    /\ \/ /\ b \in part /\ NoFault
          /\ art' = art \cup {b} /\ part' = part \ {b}
          /\ wiped' = wiped \ {b}
          /\ Step(w, "done")
       \/ /\ IF b \in part THEN MayFail("reject") ELSE NoFault
          /\ Step(w, "fail") /\ UNCHANGED <<art, part, wiped>>
    /\ UNCHANGED <<doc, calls, boot, gc, stranded, overtaken>>

\* Mutant: the document is done before the artifact is in place.
DoneBeforeRename(w) ==
    LET b == slots[w].b IN
    /\ slots[w].at = "rm"
    /\ doc' = [doc EXCEPT ![b].status = "done", ![b].path = TRUE,
                          ![b].recent = TRUE]
    /\ EndRun(w)
    /\ UNCHANGED <<art, part, calls, boot, gc, faults, wiped, stranded,
                   overtaken>>

MarkDone(b) == doc' = [doc EXCEPT ![b].status = "done", ![b].path = TRUE,
                                  ![b].recent = TRUE]

\* updateOne: the document is done. Its filter is the buildId alone.
Done(w) ==
    /\ slots[w].at = "done"
    /\ MarkDone(slots[w].b)
    /\ EndRun(w)
    /\ UNCHANGED <<art, part, calls, boot, gc, faults, wiped, stranded,
                   overtaken>>

\* That updateOne rejects: the run goes to its catch, applied or not. If it was
\* applied, the document has ended and whoever asks may start the build again.
DoneRejected(w) ==
    LET b == slots[w].b IN
    /\ slots[w].at = "done"
    /\ MayFail("reject")
    /\ \/ UNCHANGED <<doc, overtaken>>
       \/ MarkDone(b) /\ overtaken' = overtaken \cup {b}
    /\ Step(w, "fail")
    /\ UNCHANGED <<art, part, calls, boot, gc, wiped, stranded>>

\* Mutant: a failed run leaves the document as it is.
FailSilently(w) ==
    /\ slots[w].at = "fail"
    /\ EndRun(w)
    /\ UNCHANGED <<doc, art, part, calls, boot, gc, faults, wiped, stranded,
                   overtaken>>

\* The catch: the document records the error. Its filter is the buildId alone.
Fail(w) ==
    LET b == slots[w].b IN
    /\ slots[w].at = "fail"
    /\ doc' = [doc EXCEPT ![b].status = "error", ![b].recent = TRUE]
    /\ EndRun(w)
    /\ UNCHANGED <<art, part, calls, boot, gc, faults, wiped, stranded,
                   overtaken>>

\* The update of the catch rejects without effect: the document stays as it is.
\* (Applied with its answer lost, it is Fail.)
FailRejected(w) ==
    /\ slots[w].at = "fail"
    /\ MayFail("reject")
    /\ stranded' = stranded \cup {slots[w].b}
    /\ EndRun(w)
    /\ UNCHANGED <<doc, art, part, calls, boot, gc, wiped, overtaken>>

RunRejected(w) == ClaimRejected(w) \/ DoneRejected(w) \/ FailRejected(w)

-----------------------------------------------------------------------------
(* Restart and recovery                                                     *)

Crash ==
    /\ MayFail("crash")
    /\ pending' = <<>>
    /\ slots' = [w \in Slots |-> Idle]
    /\ calls' = [r \in Requests |-> NoCall]
    /\ boot' = "reset"
    /\ gc' = None
    /\ stranded' = {}
    /\ UNCHANGED <<doc, art, part, wiped, overtaken>>

\* Mutant: only queued builds are resumed.
ResumeQueued ==
    /\ boot = "reset"
    /\ boot' = "list"
    /\ UNCHANGED <<doc, art, part, pending, slots, calls, gc, faults, wiped,
                   stranded, overtaken>>

Requeue(S) ==
    /\ doc' = [b \in Builds |-> IF b \in S THEN [doc[b] EXCEPT !.status = "queued"]
                                ELSE doc[b]]
    /\ overtaken' = overtaken \cup {b \in S : Runs(b) # {}}

\* updateMany: what is running was left behind by another process.
ResetRunning ==
    /\ boot = "reset"
    /\ Requeue({b \in Builds : Has(b, {"running"})})
    /\ boot' = "list"
    /\ UNCHANGED <<art, part, pending, slots, calls, gc, faults, wiped,
                   stranded>>

\* Everything queued is enqueued in the order of createdAt, which is any.
Resume ==
    /\ boot = "list"
    /\ \E queue \in SetToSeqs({b \in Builds : Has(b, {"queued"})}) :
          Pump(pending \o queue, slots)
    /\ boot' = "over"
    /\ UNCHANGED <<doc, art, part, calls, gc, faults, wiped, stranded,
                   overtaken>>

\* The updateMany, which may have reached some documents, or the find rejects:
\* the recovery is skipped for good.
SkipRecovery ==
    /\ boot \in {"reset", "list"}
    /\ MayFail("reject")
    /\ boot' = "over"
    /\ \E S \in SUBSET {b \in Builds : Has(b, {"running"}) /\ boot = "reset"} :
          /\ Requeue(S)
          /\ stranded' = stranded \cup
               {b \in Builds : \/ (b \in S \/ Has(b, {"queued"})) /\ ~OnItsWay(b)
                               \/ Has(b, {"running"}) /\ b \notin S /\ Runs(b) = {}}
    /\ UNCHANGED <<art, part, pending, slots, calls, gc, wiped>>

-----------------------------------------------------------------------------
(* Time, and who else touches the artifacts                                 *)

\* RETRY_COOLDOWN_MS pass after a failure (nobody asks when a done run ended).
CoolDown(b) ==
    /\ Has(b, {"error"}) /\ doc[b].recent
    /\ doc' = [doc EXCEPT ![b].recent = FALSE]
    /\ UNCHANGED <<art, part, pending, slots, calls, boot, gc, faults, wiped,
                   stranded, overtaken>>

\* An operator cleans the disk.
Wipe(b) ==
    /\ b \in art
    /\ MayFail("wipe")
    /\ art' = art \ {b}
    /\ wiped' = wiped \cup {b}
    /\ UNCHANGED <<doc, part, pending, slots, calls, boot, gc, stranded,
                   overtaken>>

\* gcOrphanBuilds: an artifact without a document is an orphan...
FindOrphan(b) ==
    /\ gc = None
    /\ b \in art /\ doc[b] = None
    /\ gc' = b
    /\ UNCHANGED <<doc, art, part, pending, slots, calls, boot, faults, wiped,
                   stranded, overtaken>>

\* ... and is removed by its path; an error is logged.
RemoveOrphan ==
    /\ gc # None
    /\ \/ /\ NoFault /\ art' = art \ {gc}
          /\ wiped' = IF gc \in art THEN wiped \cup {gc} ELSE wiped
       \/ MayFail("reject") /\ UNCHANGED <<art, wiped>>
    /\ gc' = None
    /\ UNCHANGED <<doc, part, pending, slots, calls, boot, stranded, overtaken>>

-----------------------------------------------------------------------------
RequestStep(r) ==
    Find(r) \/ Stat(r) \/ Reset(r) \/ Insert(r) \/ Answered(r)
RunStep(w) ==
    \/ Claim(w) \/ Pack(w) \/ WritePart(w) \/ RemoveOld(w) \/ Rename(w)
    \/ Done(w) \/ Fail(w)
RecoveryStep == ResetRunning \/ Resume

Next ==
    \/ \E r \in Requests :
          \/ \E b \in Builds, force \in BOOLEAN : Arrive(r, b, force)
          \/ RequestStep(r) \/ Rejected(r) \/ AnswerLost(r)
    \/ \E w \in Slots : RunStep(w) \/ RunRejected(w)
    \/ Crash \/ RecoveryStep \/ SkipRecovery
    \/ \E b \in Builds : CoolDown(b) \/ Wipe(b) \/ FindOrphan(b)
    \/ RemoveOrphan

Spec == Init /\ [][Next]_vars

\* The runtime resumes what it awaits; nobody has to ask, fail or collect.
FairSpec ==
    /\ Spec
    /\ \A r \in Requests : WF_vars(RequestStep(r))
    /\ \A w \in Slots : WF_vars(RunStep(w))
    /\ WF_vars(RecoveryStep)

-----------------------------------------------------------------------------
(* Properties                                                               *)

\* The shape of documents, slots and requests.
TypeOK ==
    /\ doc \in [Builds -> Build \cup {None}]
    /\ art \subseteq Builds /\ part \subseteq Builds
    /\ pending \in Seq(Builds)
    /\ slots \in [Slots -> [at : {"idle", "claim"} \cup RunPCs,
                            b : Builds \cup {None}]]
    /\ calls \in [Requests -> [at : {"idle", "find", "stat", "reset", "insert",
                                     "enqueue"},
                               b : Builds \cup {None}, force : BOOLEAN,
                               seen : 0..MaxAttempts]]
    /\ boot \in {"reset", "list", "over"}
    /\ gc \in Builds \cup {None}
    /\ faults \in 0..MaxFaults
    /\ wiped \cup stranded \cup overtaken \subseteq Builds

\* A queued build is on its way to a slot: ensureBuild returns it as it is, so
\* nobody else would enqueue it.  Excepted are builds whose insert, reset or claim
\* was rejected, and those of a start whose recovery was skipped.
QueuedScheduledUnlessStranded ==
    \A b \in Builds \ stranded : Has(b, {"queued"}) => Scheduled(b)

\* A running build has a run behind it, or the recovery will requeue it.
RunningIsRun ==
    \A b \in Builds \ stranded :
        Has(b, {"running"}) => Runs(b) # {} \/ boot = "reset"

\* A build runs once at a time, whatever requests, duplicates in the queue and
\* restarts do.  Excepted is a build whose document moved on under its live run:
\* the recovery took it for one of the previous process and requeued it, or the
\* last update took effect and was rejected, so that it is done before its catch.
SingleRunUnlessOvertaken ==
    \A b \in Builds \ overtaken : Cardinality(Runs(b)) <= 1

\* A build that is done has its artifact in place, unless somebody outside
\* its runs removed it or two runs shared its files.
DoneHasArtifact ==
    \A b \in Builds \ (wiped \cup overtaken) : Has(b, {"done"}) => b \in art

\* RetryWindowUnlessStale: after MAX_QUICK_ATTEMPTS failures a build is retried
\* once per cooldown only (ensureBuild), unless an admin forces it, or a request
\* decided on the document of an earlier attempt: the reset does not look again.
RetryWindowUnlessStale ==
    [][\A b \in Builds \ overtaken :
          (/\ Has(b, {"error"}) /\ doc[b].attempts >= MaxQuick /\ doc[b].recent
           /\ doc'[b].status = "queued")
             => \E r \in Requests :
                   /\ calls[r].at = "reset" /\ calls[r].b = b
                   /\ calls[r].force \/ calls[r].seen < doc[b].attempts]_vars

\* BuildsEndUnlessStranded: every build that is queued or running ends, also
\* across restarts, unless a call of its request or run was rejected or a
\* recovery was skipped (nobody goes on with it before the next restart).
BuildsEndUnlessStranded ==
    \A b \in Builds :
        Has(b, {"queued", "running"}) ~> (Has(b, {"done", "error"}) \/ b \in stranded)

-----------------------------------------------------------------------------
(* The inductive invariant.                                                 *)

\* Slots and requests that are busy have a build; a run, and a request that
\* decided on a document, have one with a document.
Known ==
    /\ \A w \in Slots :
          /\ slots[w].at # "idle" => slots[w].b \in Builds
          /\ slots[w].at \in RunPCs => doc[slots[w].b] # None
    /\ \A r \in Requests :
          /\ calls[r].at # "idle" => calls[r].b \in Builds
          /\ calls[r].at \in {"stat", "reset"} => doc[calls[r].b] # None

\* The one run of a build finds its document running, until it ends it.
RunsMatch ==
    \A v, w \in Slots :
        slots[w].at \in RunPCs /\ slots[w].b \notin overtaken =>
            /\ Has(slots[w].b, {"running"})
            /\ slots[v].at \in RunPCs /\ slots[v].b = slots[w].b => v = w

\* A run that is about to record its success has put the artifact in place.
Placed ==
    \A w \in Slots :
        slots[w].at = "done" /\ slots[w].b \notin wiped \cup overtaken => slots[w].b \in art

\* What the churn guard let through has ended and stays so in this attempt.
Decided ==
    \A r \in Requests :
        LET b == calls[r].b IN
        calls[r].at \in {"stat", "reset"} /\ ~calls[r].force =>
            /\ calls[r].seen <= doc[b].attempts
            /\ calls[r].seen = doc[b].attempts /\ b \notin overtaken =>
                  Has(b, {"done"}) \/ (Has(b, {"error"}) /\ ~CoolingDown(b))

\* The inductive invariant, checked by TLC and proved in BuildQueueProofs.
IInv ==
    /\ TypeOK /\ Known
    /\ RunningIsRun /\ RunsMatch /\ Placed /\ Decided
    /\ DoneHasArtifact /\ QueuedScheduledUnlessStranded
=============================================================================
