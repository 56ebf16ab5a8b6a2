# Verification of atelier-api

atelier-api is the server of a desktop tool for clothing and tattoo packs: a
Bun HTTP/WebSocket server over MongoDB and a content-addressed store on disk.
This directory holds TLA+ models of it, the TLC configurations that check
them, and TLAPS proofs. Paths are relative to the repository root.

## 1. Inventory

| Part | State | Operations | Talks to |
|---|---|---|---|
| Live workspace (`src/routes/workspaces.ts`, `src/models/atelierWorkspace.ts`) | `atelierWorkspaces` document (project, version, ring of 512 recent operation ids), `atelierWorkspaceOperations` receipts, in-memory queue per pack | initialize, apply operation, read | locks (read), assets (read), rooms (broadcast) |
| Locks (`src/routes/locks.ts`) | `atelierLocks`, 90 s expiry | acquire/extend/take over, heartbeat, release, force break, expiry sweep | rooms (broadcast), live workspace |
| Rooms (`src/ws/collab.ts`, `src/routes/presence.ts`) | in-memory map pack -> sockets, `packId` of each socket | join, leave, close, kick, membership sweep, broadcast | locks, packs, users, live workspace |
| Packs and revisions (`src/routes/packs.ts`) | `atelierPacks`, `atelierRevisions` | create, rename, archive, members, commit revision (head compare-and-swap), publish | assets, rooms, builds |
| Uploads and storage (`src/routes/uploads.ts`, `src/routes/assets.ts`, `src/storage/*`) | `atelierUploads`, `atelierAssets` (refCount), files `tmp/*.part`, `cas/**` | init/resume, chunk, complete, check, download, garbage collection | packs, live workspace, builds |
| Builds (`src/builds/queue.ts`, `src/routes/builds.ts`) | `atelierBuilds`, in-memory FIFO, artifact files | ensure, force, run, notify, restart | packs, storage |
| Devices and tokens (`src/auth/*`, `src/routes/auth.ts`, `src/routes/devices.ts`) | `atelierDevices` (refresh hash, previous hash, tokenVersion), `atelierAuthCodes` | code exchange, refresh rotation, revoke, access check | users |
| Administration (`src/routes/admin.ts`, `src/routes/admin-web.ts`) | `atelierUsers` | approve, lock, role | devices, rooms |
| Reducer (`src/models/atelierWorkspace.ts`, `src/models/atelierRevision.ts`) | none (a pure function of project and operation) | parse a project, apply an operation, order, batches | live workspace |
| Export (`src/cloth/fivem-export.ts`) | none (pure planning, then file output) | plan and write a resource | builds |
| Registry (`src/routes/registry.ts`), import (`src/routes/import-creative.ts`) | reads packs and builds; import creates packs, assets, revisions | service listing, one-shot import | packs, builds, storage |
| Plumbing (`src/index.ts`, `src/router.ts`, `src/http*.ts`, `src/logging`, `src/env.ts`, `src/mongodb.ts`, `src/notify`, `src/web`, `src/openapi.ts`, `src/version-check.ts`) | fixed-window rate counters, log ring | dispatch, limits, pages | everything |

MongoDB gives single-document atomicity only; there are no transactions.
Handlers interleave at every `await`.  What is hard is what several handlers,
timers and restarts do between those awaits.

### What is hard, and what makes each part correct

| Part | Hard | Correct when |
|---|---|---|
| Live workspace | compare-and-swap and receipt are two writes; the turn queue is per process; the lock check is read before the swap | no operation counts twice, the document is a log, answers stay true, broadcasts are ordered, nobody blocks the queue |
| Uploads | chunk writes beside `/complete`; claims without a lease; tmp files collected under live sessions, orphan documents and their files under uploads | a stored file verifies, a document has its file unless the collector took it from under an upload, one request finalizes a session, a resuming client is told the truth |
| Assets, revisions, collection | check, head bump, insert and count are four calls; the collector runs between any of them | linear history, a document with references is never deleted, and a revision keeps its assets |
| Builds | memory and documents disagree after a restart or a lost answer; duplicates in the queue; artifacts removed from outside | nothing is forgotten, one run at a time, a done build has its artifact, retries respect the cooldown |
| Locks | time is stamped before the write, messages are sent after it; departures, sweep, TTL and DELETE all delete | a granted lock stays until it is given up or expires; the last message is true |
| Accounts | logins, exchanges, refreshes, locks and deaths of requests meet; an answer with a new token may be lost | a code opens one session, a session is a chain of tokens, a lock ends sessions, honest apps stay |
| Packs | a pack is read, then written in one or two updates: slug and insert, `$pull` and `$push`, head and revision | slugs and numbers are unique, roles are what was granted last, nothing is listed or built that does not exist |
| Reducer and export | operations of several members in any order, repeated, on ids the parser does not restrict; lists at multiples of the part size, missing files | deletes are accepted, retries harmless, nothing changes that was not named, edits of different things commute; every drawable ships once under a name of its own |
| Rooms | every message starts a handler that nobody waits for; kicks and sweeps meet joins | a socket sits in the room of its seat, misses no commit, and is out when its user is |

## 2. Plan

Order of the modules, most important first. All of them are
written.

1. `WorkspaceLog` (abstract), `Workspace` (detailed, implements it), `WorkspaceProofs`
2. `Uploads`, `UploadsProofs`: sessions, tmp files, content-addressed store
3. `AssetStore`, `AssetAndExportProofs`: revisions, counts, live workspace, collectors
4. `BuildQueue`, `BuildQueueProofs`: requests, slots, runs, recovery
5. `Locks`, `LocksProofs`: lock documents, departures, sweep and messages
6. `Rooms`, `RoomsProofs`: sockets, seats, kicks, membership sweep
7. `SessionChain` (abstract), `Accounts` (implements it), `AccountsProofs`: logins, codes, refresh rotation and its reuse check, revocation, an admin's decisions
8. `Packs`, `PacksProofs`: creation, members, commits, publishing, archive, builds
9. `Project`, `Export`, `AssetAndExportProofs`: the reducer as operators, and builds of what it makes

`Workspace` composes the endpoints with lock traffic and crashes, `Uploads` the
endpoints with both collections and expiry, `AssetStore` commits with uploads and
collectors, `Rooms` sockets with kicks, the sweep and workspace commits,
`Accounts` the apps with logins and administration, `Export` the reducer with
commits and builds.

## 3. How the modules read the code

An action is one database or file-system call together with the synchronous
code up to the next `await`; anything may happen between two actions. `pc`,
`at` or `boot` say where a handler is, `req`, `job`, `cur` hold its local
variables. A call that finds nothing, a duplicate key, a thrown driver error
and every early return is a disjunct or an action of its own. Authentication,
body validation and permission checks that only read and refuse come before
the first action. Variables marked *history* in a module record what the code
does not store; no guard reads them. Definitions marked *Mutant* are broken
variants used to check that each property can fail; no specification uses them.

| Module | Variables and the code | Actions and the code |
|---|---|---|
| `Workspace` | `ws` the workspace document, with the project as the sequence of operations that made it; `receipts`; `queue` is `packQueues`; `cur` the document a handler read; `room` what was broadcast | `Submit` .. `Tell` the body of `POST /operations` one await after the other, `Commit`/`CommitUnheard`/`Conflict` the compare-and-swap with its three outcomes, `SubmitSeed` .. `TellSeed` initialize, `AcquireLock`/`DropLock` lock traffic, `Crash` |
| `Uploads` | `uploads` session documents; `tmp`, `cas` files as functions from chunks to what is in them; `docs` asset documents; `req.handle` what an open file descriptor points to; `sweep` the content a collector is about to remove | `Begin`..`Insert` init, `Put`..`Mark` a chunk, `Claim`..`Finish`/`Release` complete and `finalizeFromTmp`, `Fail`, `Crash`, `Expire`, `Ttl`; `GcStaleTmp` and `ClaimOrphan`, `RemoveOrphan` the collector |
| `AssetStore` | `asset` documents with count and age, `file` files, `head`, `revs`, `live` what the workspace refers to | `Check`, `Bump`, `Insert`, `Count`, `Abort` the commit; `Exists`, `Rename`, `Upsert` the end of an upload; `CheckPlaced`, `Place` a workspace edit; `List`, `Visit`, `RemoveFile` a collector |
| `BuildQueue` | `doc` build documents, `art`/`part` files, `pending` and `slots` the dispatcher, `boot` the recovery | `Find`..`Answered` a request, `Claim`..`Done`/`Fail` a run, `Rejected`, `AnswerLost`, `ClaimRejected`, `DoneRejected`, `FailRejected` their calls that reject, `Pump` inside whatever enqueues or ends, `ResetRunning`, `Resume`, `SkipRecovery`, `Crash`, `FindOrphan`, `RemoveOrphan` |
| `Locks` | `locks` documents, `seats` devices with a socket in the room, `said` the room's last message per entity and user | `Acquire`, `Insert`, `Holder`, `Acquired` the two attempts of an acquire; `Heartbeat`; `LookUp`, `CleanUp`, `Remove`, `Released` DELETE; `FindHeld`, `DeleteMany`, `TellReleased` a departure; `SweepFind`, `SweepDelete`, `SweepTell`; `Ttl`, `Tick` |
| `Accounts` | `users`, `codes`, `devices` documents (a hash by the number of rotations before it), `held` the token an app has, `req` local variables of requests | `Login`, `WebLogin`, `IssueCode`; the exchange from the spent code to the answer; refresh with `rotate`, `reuse`, `answer`; logout, removal of a device, approve, lock, promote, demote with the checks of the caller before and `revokeAll` after; `Die` |
| `SessionChain` | the token, its end and what the app holds, per session | `Open`, `Renew`, `Hand`, `End` |
| `Packs` | `packs`, `revisions` documents, `built` what was passed to the build queue | `FindSlug`, `InsertPack`, `InsertRefused` creation and import; `Load*` `loadPackForUser` and what each endpoint checks on that document; `Pull`, `Push`, `Remove` members; `Bump`, `InsertRev` a commit; `FindRevision`, `Publish`, `Build`; `RegistryDownload`; `Archive`; `Die` |
| `Project` | no variables: `Parses`, `Parsed` the parsers, `ApplyLeaf`, `Apply` the reducer, `Operations` what `parseWorkspaceOperation` lets through; a `filter` is `Kept` by the positions that stay, a `findIndex` the least of `PlacesOf`; an entity's `shape` is a function of its other fields, which `MergePatch` merges field by field; `Shapes` are those the parser accepts, `Limit` its longest lists | |
| `Export` | `project` the live project, `revision` what is built, `part` and `todo` the part of the loop and its entries still to write, `zip` and `metas` what it wrote | `Edit` an accepted operation, `Build` commit and plan, `WriteEntry` a drawable's files, `ClosePart` the shop metas, `Deliver` |
| `Rooms` | `room` the map of rooms, `seat` is `ws.data.packId`, `told` and `heard` what a socket was sent | `Join`, `CheckUser`, `CheckPack`, `EnterAfterLeave`, `ReadVersion` a join; `LeaveRoom` inside leave, close, switch and kick; `LockUser`, `Revoke`, `RemoveMember`, `Kick*`, `LockFails` the requests that revoke; `Approve`, `Archive`; `Sweep*`, with `stale` the Sets that left the map meanwhile; `Commit`, `Broadcast` |

Abstractions worth knowing. `Workspace`: what an operation does to the project
is left to the reducer; applying is total. `Uploads`: hashing a tmp file is one
action; sizes and kinds agree for one content; a write is whole; what refers to a
content and how old it is are `AssetStore`'s, so here any document may be
collected. `AssetStore`:
one pack; which content is older than the grace is a flag that only time sets.
`BuildQueue`: packing is one action that works or fails; the cooldown is a flag
`CoolDown` clears. `Locks`: name and `acquiredAt` are dropped, users are
authorised, database calls do not fail, a device's departures and the sweep
run one at a time. `Rooms`: each socket has its own device; members are not
modelled, as `packRoleFor` refuses no approved user; one revoking request and
one sweep at a time. `Accounts`: a token is its number, so that a token two
rotations old is told from the previous one but hashes cannot collide; JWTs
verify, and an app presents only what it was given. `Packs`: `members` is the
role of a user's first entry; bodies are valid. `Project`: a field holds an
object without objects in it (an asset, the flags) or a value that is replaced
as a whole, and what one entity's fields require of each other is membership in
`Shapes`. `Export`: a drawable's shape decides what the export does with it; XML and ZIP
are the sets of names and contents they hold.

## 4. Runs

`tlc -config X.cfg M` in this directory runs one. Deadlock is not an error
where clients may stop asking and the bounds are used up (all but the
`Workspace` runs, in which a client can always send a retry, and `pr_build`, in which
a project can always be built again).

| Run | What it asks | Bounds and why they suffice |
|---|---|---|
| `ws_two_procs` (1.3 M states) | Do the endpoints implement the log, and are answers true, with two processes, a crash or unheard commit and a failing receipt? | two operations, two seeds, ring of 1, two attempts, three versions: the ring rolls over with the second commit, and a third is a repetition |
| `ws_one_proc` (144 k) | Within one process, fairly scheduled: order of broadcasts, locks, receipts after the roll-over, every request answered, every commit broadcast | two requests, one lockable entity, ring of 1, three versions, one lost receipt |
| `ws_receipt_lost` | Is a retry after the roll-over harmless? No (finding) | one process, no crash, one failing receipt |
| `up_store` (1.8 M) | Sessions, claims, files and documents | two sessions of one content, two requests, one chunk, right or wrong bytes, one fault or collected document (`MaxFaults` bounds both), early collection of tmp files: two completes, or a complete and a chunk, or either and a collection meet |
| `as_commits` (437 k) | History, counts and references beside collectors | one content, two commits, an upload, two collectors, two revisions, one failure: everything that can reach one content at once |
| `as_live` | Is what the live workspace refers to kept? No (finding) | one commit at most, no failure |
| `bq_runs` (548 k) | Forgotten builds, double runs, missing artifacts, cooldown, progress | one build with an artifact left over, two slots, two requests, three attempts, one fault of any kind (a restart, a wiped artifact, or any call that rejects, before its effect or after it): everything that can reach one build. Builds never wait for each other here, as one build fills at most the two slots |
| `lk_grants` (2.0 M) | Are grants kept, and is the last message true? | one entity (only a departure and a sweep touch two at once; the proof covers any number), a user with two devices and one with a third, two requests at once and three in all, one departure, one tick (a lock lives one tick): lock, expiry, taking over by either user and a delete of the older grant fit. One device in the room at a time: presence only lets a device leave and the sweep run, and with one departure any one device does both |
| `rm_seats` (2.0 M) | Missed commits, seats, revocation, the sweep | two sockets of one user, two packs, two joins at once, one revocation of any kind and its reversal, one commit: a join meets a kick, a kick the sweep, a commit a join, and a socket two rooms; the proof covers any number |
| `ac_sessions` (598 k) | One session per code, chains of tokens, locks against sessions, honest apps | an env admin and a user, each stored in any earlier state, one code, two sessions, two requests at once and three in all, any of which may die; three tokens: the replay of a token both one and two rotations old occurs |
| `pk_requests` (142 k) | Slugs, roles, numbers, and what is listed or built | two packs whose names meet ("A", "A 2"), an admin and a member, two requests at once and four in all, any of which may die, two revisions: create, grant, grant again and remove, or import, publish, commit and build, fit |
| `pr_build` (11.7 k) | The reducer, the plan and the ZIP | three projects: groups, tattoos and a drawable whose id is no UUID; two drawables of one id; six drawables where the limit is seven. On each and on the result of every accepted operation, every operation, retry and pair of edits: patches that make a drawable a replace, take its target or change parts of an asset, so that every kind of operation meets every other on lists with room and without. Builds of these, and of all lists of up to two drawables of six shapes, three of three, four of two, and of six and seven, with any files missing, in parts of two: up to three parts, an exact multiple, and one more. The proofs cover any project, any sequence of operations, batches of any length, any limits and any `SplitAt` |

Symmetry is used in `up_store`, `as_commits`, `lk_grants`, `rm_seats`,
`ac_sessions` and `pk_requests`, over interchangeable requests, sessions,
sockets and the like, and in no run with a liveness property; `SweepCatches`
and `ImplementsChain` are properties of single steps, for which it is sound.

### Fairness

`ws_one_proc` assumes weak fairness of every handler step, and `bq_runs` of
request, run and recovery steps: the runtime resumes what awaits a call once
the call ends, and every call ends, if only with an error. Nothing is assumed
of clients, locks, crashes, failures, collectors or administrators. A step of
a handler that waits for its turn is enabled only when the turn comes, so that
`Answered` really depends on the turn being passed on.

### Findings

Each is a run that TLC refutes.

* `ws_receipt_lost`: a receipt whose insert failed is written later only by a
  retry the ring still remembers. After the roll-over a late retry is applied again,
  which the comment in `models/atelierWorkspace.ts` 95 excludes.
* `as_live`: what only the live workspace refers to has count 0 and is collected
  after the grace window; `storage/gc.ts` 2 says nothing live is removed.

The names of the properties that end in `Unless...` tell where the plain
property fails, by way of a history variable that marks exactly the excepted
case:

* `LocksEnforcedUnlessRaced`: a lock acquired between the check and the swap
  does not stop the commit.
* `StoredVerifiesUnlessLate`: a chunk request admitted before the claim keeps
  its handle and can write into the file after it was verified and stored,
  although the comment in `routes/uploads.ts` 136 relies on the verification.
* `CompleteUnlessExposed`: a collector between check and count, or a request
  that dies before the count, costs a revision its asset, although
  `storage/gc.ts` 10-12 says the revision wins.
* `DocHasFileUnlessSwept`: `gcOrphanAssets` deletes a document and then removes
  the file by its path; an upload that found the file in between discards its own and
  writes the document again, which has no file until the content is uploaded
  once more (`swept`). `AssetStore` has the same window as `exposed`.
* `SingleRunUnlessOvertaken`: the document of a build moves on under a live run in
  two ways. The recovery's `updateMany` requeues a run claimed before it; or the
  last update of a run (`queue.ts` 281) takes effect and rejects, so that the
  build is done while its run is on the way to the catch. A reset then starts a second
  run, and the late catch, which filters by `buildId` alone, writes "error" under
  it. `DoneHasArtifact` and `RetryWindowUnlessStale` except these builds too.
* `QueuedScheduledUnlessStranded`, `BuildsEndUnlessStranded`: an insert, a reset or
  a claim that rejects after its effect, a claim that rejects before it, or a
  catch that cannot write leaves a queued or running build that nobody goes on
  with, and so does a skipped recovery; a restart resumes it, `forceRebuild` does not.
* `RetryWindowUnlessStale`: two requests that read the failed build together
  retry it twice in one cooldown.
* `IndependentEditsCommute` excepts, by name, three pairs of edits that are
  accepted one by one while the second of them is refused: one puts an entity
  into the group the other deletes (`Apart`), both add to a list with room for one
  (`Room`), or two patches of one drawable do not fit, as a mode of replace and the
  removal of its target (`Fits`).
* `InRoomOfSeat` (in `IInv` of `Rooms`): `handleJoin` adds a socket that
  closed, or was sent to another room, during its awaits, although
  `ws/collab.ts` 7 says a close exits the room.
* `RevokedOutUnlessLate`: a join past the user check when the user is locked.
  It speaks of answered requests only: one that dies between revoking the
  devices and kicking leaves its sockets to the sweep, which `SweepCatches`
  shows to find them if it runs to its end.
* `LastWord` (by `crossed`): messages leave after their writes, in any order;
  and a departure tells "released" of a lock it found, also when another device
  of the user took it over before `deleteMany`, which then leaves it
  (`ws/collab.ts` 87-99). A grant made while the device's departure is handled is
  deleted by it (`shaky` in `GrantsKept`).
* `LockEndsSessionsUnlessLate`: an exchange that has read the user creates its
  device after `revokeAllDevicesForUser`, or the lock dies before it; the
  access checks refuse such a device until the user is approved again.
* `RolesAsGrantedUnlessTorn`: a role change that dies between `$pull` and
  `$push` leaves a viewer without an entry, whom `packRoleFor` takes for an
  editor.

What the other properties of accounts, packs and the reducer except is part of
their statement. `HonestKept` speaks of apps that refresh once at a time and
get their answers. `RetriesHarmless` leaves out batches, and upserts of an id
with blanks, which `parseDrawable` trims after the lookup, so that a second
drawable of that id is added. `OnlyTouchedChange` leaves out lists with two
drawables of one id, of which `order.set` keeps one, and `ShippedAsPlanned`
replaces of one target, whose files may come to be mixed. Two inits at once
open two sessions for one content and user, against the header of
`routes/uploads.ts`. Drawables whose id is no UUID can be upserted, but neither
patched nor deleted by operations.

## 5. Proofs

TLAPS checks the following for every value of the constants that satisfies the
named assumptions of the module.

| Module | Theorems | Inductive invariant and why it is needed |
|---|---|---|
| `WorkspaceProofs` | `Invariance`, `TypeCorrect`, `Deduplication`, `Refinement`, `AnswersStayTrue`, `RoomsHearInOrder`, `AppliedOnceInOneProcess`, `LocksAreEnforced` | `IInv`, whose part `Core` is inductive alone: the ring holds exactly the last operations with their versions (`RingMatches`), a snapshot with the version of the document is the document (`SnapshotOK`), and only the head of the queue is inside the body (`QueueOK`). `DedupWindow` alone is not inductive: the commit relies on a duplicate check against a document read earlier, and `SnapshotOK` says that an unchanged version means an unchanged ring. The same facts make every commit an `Accept` of `WorkspaceLog` and every other step a stutter. The other theorems need what handlers are about to do: every snapshot is a prefix of the project and what will be answered is stored at its version (`Truthful`), a version still to be told is above all told (`TellsAbove`), what passed the lock check was free then (`Watched`), and, under the assumption `OneProcess` and while nothing is lost, what is stored has its receipt or is about to get it (`Receipted`). |
| `UploadsProofs` | `Invariance`, `TypeCorrect`, `DocumentsHaveFiles`, `ClaimsAreExclusive`, `ReceivedIsThere`, `StoredIsVerified` | `IInv`, whose part `Core` is inductive alone: a session known to one creator only until its insert, finalized by at most one request (`OwnerOK`, `Owned`), a file in place before its document is written, or taken by a collector from the upload that had found it (`DocHasFileUnlessSwept` with `Stored` in `OwnerOK`), open handles that point to files that are there (`HandleOK`). `Resumes` adds that while a session is open, or held by a request that may still give it back (`Live`), its file is there with all it has received; what an open handle or a recreated file could spoil belongs to a session nobody can resume (`ChunkOK`). `Verifies` adds that a file between hash and rename is still the one that was hashed (`HashTrue`): neither property is inductive without what requests have seen. |
| `AssetAndExportProofs`, on `AssetStore` | `Invariance`, `TypeCorrect`, `LinearHistory`, `RevisionsKept`, `ReferencedSurvive` | `IInv`: a request past the bump owns its number (`NumberOwned`), and a content nobody has overtaken is present where its users expect it (`Untouched`): referred to means counted or about to be counted |
| `AssetAndExportProofs`, on `Project` and `Export` | `DeletesAcceptedTheorem`, `RetriesHarmlessTheorem`, `OnlyTouchedChangeTheorem`, `IndependentEditsCommuteTheorem`, `PlanMatchesReferenceTheorem`, `ShippingTheorem`, `ShippedAsPlannedTheorem` | `Stored(project)` for what is edited (`ProjectStored`): the project is one that the parser makes of itself, so that ids are trimmed and no reference dangles. `Shipping` for the build: what is left to write is of the part's plan, every file is named after its drawable's entry (`OwnFiles`), and what of the plan is neither left nor missing is written (`YddsWritten`, `MetasWritten`); `ShippedAsPlanned` speaks of the finished ZIP only, and no step keeps it without these. |
| `AccountsProofs` | `InductiveInvariant`, `HonestSessionsKept`, `AppsStayInStep`, `CodesSpentOnce`, `LocksEndSessions`, `EnvAdminsStay`, `ChainImplemented` | `IInv`: where the tokens of a session can be. The app holds the current one or, while exactly one request owes it, the one before (`TokensInOrder`, `OneOwed`); an app that plays by the rules has one refresh in flight, with its token (`OneRefresh`); a code is used up before its exchange opens a session (`CodeSpent`). `HonestKept` is not inductive without them: the reuse check reads the device in one step and revokes it in a later one. From the same facts every step is a step of `SessionChain` or a stutter. |
| `BuildQueueProofs` | `Invariance`, `QueuedIsScheduled`, `ArtifactOfDone`, `SingleRun`, `RetryWindow` | `IInv`: memory and documents say the same of a build. A run that has passed the claim finds its document running and no other run beside it (`RunsMatch`), unless the document moved on under it (`overtaken`), has placed the artifact before it says so (`Placed`), and what a request decided on has ended and not changed in this attempt (`Decided`); none of the four properties is inductive without them. `PumpFacts` shows that the dispatcher starts or keeps every build of its queue, from the surjectivity of ranks in a finite set of slots. |
| `LocksProofs` | `Invariance`, `GrantsStay`, `LastWordTrue`, `OneHolder` | `IInv`: whoever deletes a lock has seen it lapse, or deletes the very grant it has found, which was given up then (`Stamped`, `DoomedGivenUp`, `DepartingGivenUp`); and every message that is owed would be true now (`Right`), so that it is true when it is the last one. `LastWord` speaks of the moment when nothing is owed and says nothing of the messages under way. |
| `RoomsProofs` | `Invariance`, `MissesNoCommit`, `RevokedAreOut`, `SweepIsBackstop` | `IInv`: whoever is not allowed in a room cannot get in without being asked again (`LockedBarred`), and who was in is on a list: the kicker's (`KickReaches`) or the sweep's (`SweepReaches`), from which a room drops only when it is empty. A socket that never slipped has one join at a time and no seat when it enters (`JoinsAlone`), hence sits in the room of its seat only. |
| `PacksProofs` | `Invariance`, `RolesKept`, `NothingDangling`, `SlugsFit`, `HistoryAccounted` | `IInv`: what a request remembers is still true when it writes. Every number up to a head is written, owned by one request or lost with it, and no number above it is (`RevisionsUpToHead`): so a found revision is one that was written, and a head is never given out twice. |

The proofs take one lemma per action or group of actions and combine them by
the disjuncts of `Next`; each `IInv` is also an invariant of a run. `Shipping`
is in no run, as `ShippedAsPlanned` is what one wants to know; TLC finds it
true in `pr_build` when it is added there.

The proofs about the reducer go list by list. `NthFacts` and `KeptFacts` say
what filters keep and in which order, `LeafMakes` and `ReducedType` that every
operation makes a project of a project, and `ParsesEntries` what the parser
accepts in terms of what is in the lists (`Has`). A retry finds what the first
time left: `OrderedTwice` is the case of `order.set`, whose second run meets
the order of its first. For `OnlyTouchedChange` each leaf keeps the entities of
an id it does not name (`Within`), which carries over a batch by induction on
its length (`UpFromZero`: the numbers as a set with a least counterexample).
For `IndependentEditsCommute` an accepted edit is an effect on each list alone
(`Effect`), such effects commute up to the order of what they add
(`EffectsCommute`, `Alike`; for two patches because merging is commutative on
different fields, `PatchedPatched`), and what is acceptable stays so after the
other edit (`LaterAccepted`): the lists stay within their limits as both did
alone or by `Room` (`EffectLength`), and an entity keeps a shape the parser accepts
because it is as one of the edits left it, or by `Fits` (`ShapeBefore`). The plan is compared with its reference by counting:
the n-th addon of a gender has n - 1 before it, and division by `SplitAt`
gives its part (`InOrderFacts`, `ChunkOfPart`, `NumberOfChunk`). That no two
drawables share a file name (`OwnNames`) follows from the numbers.

What they assume of the constants (`ProjectAssumption`, `PatchAssumption`,
`GroupAssumption`, `PaddedAssumption`, `BatchAssumption`, `ExportAssumption`):
there are finitely many ids, shapes and patches are of the fields of their type
and the group is none of these, an id with blanks is none without, batches are of operations the parser lets through and not
empty, the projects to start from are stored ones, as `POST` of a workspace
parses what it is given, and `None` is no number and no gender. `AssetStore`
and `Export` have a proof module in common, because a build reads what the store
keeps, and write different names where both need one (`StoreSpec`, `Absent`
beside `Spec`, `None`).

Only model-checked: everything temporal beyond invariants and step properties
(`CommitsReachRoom`, `Answered`, `BuildsEndUnlessStranded`: liveness is outside
the prover). Every invariant and step property of a passing run is proved.

## 6. Not modelled

Presence and the rate limiter (each one map, read and written in one
synchronous go, so that nothing interleaves), the dashboard's pages, Discord and JWT signatures,
copying files in an import, and everything that only reads or renders;
`PROJECT.json` gives the reason for each. Of modelled parts: names,
descriptions and the build configuration of packs (`PATCH /packs/:id`, `PUT`
of the configuration: one write each, last one wins) and listings (`GET /packs`
ends at 200 packs although its comment says all; `findListedPack` says it tries
the id first, but its `$or` prefers neither). Several builds that wait for one
slot are in the model (`Concurrency`) but in no run. The unique and TTL indexes are taken as given, although the server starts
to serve before `ensureIndexes` has ended. Failing database calls are modelled
in `Workspace`, `Uploads` and `AssetStore` where the code reacts to them and in
`Rooms` for joins, locking a user and the sweep, but not in `Locks`. In
`BuildQueue` every awaited call of a request, a run and the recovery may
reject; of the writes, the insert, the reset, the claim and the last update also after
they took effect (the catch's write with its answer lost is as good as one that
succeeded). A call that rejects has taken effect by then or never does:
writes that arrive after their error are not modelled. That the count of an asset equals the number of revisions
that refer to it is neither checked nor proved.
