----------------------------- MODULE AssetStore -----------------------------
(***************************************************************************)
(* What refers to stored assets and what removes them: the revisions of a  *)
(* pack (POST /packs/:packId/revisions in src/routes/packs.ts), its live   *)
(* workspace, the last steps of an upload, and the collection of orphan    *)
(* assets (gcOrphanAssets in src/storage/gc.ts).                           *)
(*                                                                         *)
(* An action is one database or file system call with the synchronous code *)
(* up to the next await.                                                   *)
(***************************************************************************)
EXTENDS Naturals, FiniteSets

CONSTANTS
    Shas,        \* contents, by hash
    Committers,  \* requests that commit a revision
    Uploaders,   \* completions of an upload
    Collectors,  \* runs of the garbage collector
    Absent,
    MaxHead,     \* bound on the revisions of the pack
    MaxFaults    \* bound on restarts and failing calls

ASSUME StoreAssumption ==
    /\ {MaxHead, MaxFaults} \subseteq Nat
    /\ Absent \notin Shas /\ \A S \in SUBSET Shas : S # Absent
    /\ Absent \notin [refs : Nat, old : BOOLEAN]

VARIABLES
    asset,    \* atelierAssets documents: count of references, past the grace
    file,     \* contents with a file in the CAS
    head,     \* headRevision of the pack
    revs,     \* atelierRevisions: the hashes each revision refers to
    live,     \* hashes the live workspace refers to
    placing,  \* hashes an operation on the workspace has checked
    pc, req,  \* where a request is; its base revision and uncounted hashes
    up,       \* where an upload is, and its content
    gc,       \* orphans a collector still has to visit, and its claimed one
    faults,
    abandoned,  \* history: revisions whose request died before the insert
    exposed     \* history: contents a collection or a failure overtook

storeVars == <<asset, file, head, revs, live, placing, pc, req, up, gc, faults,
               abandoned, exposed>>

Asset == [refs : Nat, old : BOOLEAN]
Revisions == 1..MaxHead
Request == [base : 0..MaxHead, shas : SUBSET Shas]
Upload == [at : {"exists", "rename", "upsert"}, sha : Shas]
Run == [at : {"idle", "visit", "remove"}, todo : SUBSET Shas,
        claimed : Shas \cup {Absent}]
NoRequest == [base |-> 0, shas |-> {}]
NoUpload == [at |-> "idle", sha |-> Absent]
NoRun == [at |-> "idle", todo |-> {}, claimed |-> Absent]

CommitPCs == {"bump", "insert", "count"}

StoreInit ==
    /\ asset = [a \in Shas |-> Absent]
    /\ file = {}
    /\ head = 0
    /\ revs = [r \in Revisions |-> Absent]
    /\ live = {} /\ placing = {}
    /\ pc = [h \in Committers |-> "idle"]
    /\ req = [h \in Committers |-> NoRequest]
    /\ up = [u \in Uploaders |-> NoUpload]
    /\ gc = [g \in Collectors |-> NoRun]
    /\ faults = 0
    /\ abandoned = {} /\ exposed = {}

Present == {a \in Shas : asset[a] # Absent}

-----------------------------------------------------------------------------
(* The last steps of an upload: a verified content reaches the store.       *)

Verified(u, a) ==
    /\ up[u].at = "idle"
    /\ up' = [up EXCEPT ![u] = [at |-> "exists", sha |-> a]]
    /\ UNCHANGED <<asset, file, head, revs, live, placing, pc, req, gc, faults,
                   abandoned, exposed>>

\* casExists: a content that is stored already is not stored again.
Exists(u) ==
    /\ up[u].at = "exists"
    /\ up' = [up EXCEPT ![u].at = IF up[u].sha \in file THEN "upsert"
                                                         ELSE "rename"]
    /\ UNCHANGED <<asset, file, head, revs, live, placing, pc, req, gc, faults,
                   abandoned, exposed>>

Rename(u) ==
    /\ up[u].at = "rename"
    /\ file' = file \cup {up[u].sha}
    /\ up' = [up EXCEPT ![u].at = "upsert"]
    /\ UNCHANGED <<asset, head, revs, live, placing, pc, req, gc, faults,
                   abandoned, exposed>>

\* $setOnInsert: an existing document keeps its count.
Upsert(u) ==
    /\ up[u].at = "upsert"
    /\ asset' = IF up[u].sha \in Present THEN asset
                ELSE [asset EXCEPT ![up[u].sha] = [refs |-> 0, old |-> FALSE]]
    /\ up' = [up EXCEPT ![u] = NoUpload]
    /\ UNCHANGED <<file, head, revs, live, placing, pc, req, gc, faults,
                   abandoned, exposed>>

-----------------------------------------------------------------------------
(* POST /packs/:packId/revisions                                            *)

Return(h) ==
    /\ pc' = [pc EXCEPT ![h] = "idle"]
    /\ req' = [req EXCEPT ![h] = NoRequest]

\* Every asset must have its document; base is any revision a client knows.
Check(h, base, shas) ==
    /\ pc[h] = "idle"
    /\ base < MaxHead /\ base <= head
    /\ shas \subseteq Present
    /\ pc' = [pc EXCEPT ![h] = "bump"]
    /\ req' = [req EXCEPT ![h] = [base |-> base, shas |-> shas]]
    /\ UNCHANGED <<asset, file, head, revs, live, placing, up, gc, faults,
                   abandoned, exposed>>

\* Mutant: the bump is not conditional on the base revision.
BumpAlways(h) == h \in Committers

\* The filter of the bump: the head is still the base.
BaseIsHead(h) == head = req[h].base

Bump(h) ==
    /\ pc[h] = "bump"
    /\ IF BaseIsHead(h)
       THEN /\ head' = req[h].base + 1
            /\ pc' = [pc EXCEPT ![h] = "insert"]
            /\ UNCHANGED req
       ELSE Return(h) /\ UNCHANGED head
    /\ UNCHANGED <<asset, file, revs, live, placing, up, gc, faults, abandoned,
                   exposed>>

\* insertOne; { packId, revision } is unique.
Insert(h) ==
    LET r == req[h].base + 1 IN
    /\ pc[h] = "insert"
    /\ IF revs[r] = Absent
       THEN /\ revs' = [revs EXCEPT ![r] = req[h].shas]
            /\ IF req[h].shas = {} THEN Return(h)
               ELSE pc' = [pc EXCEPT ![h] = "count"] /\ UNCHANGED req
       ELSE Return(h) /\ UNCHANGED revs
    /\ UNCHANGED <<asset, file, head, live, placing, up, gc, faults, abandoned,
                   exposed>>

\* $inc on refCount.
Counted(n) == n + 1

\* updateMany, one document after the other: those that exist get one
\* reference more.
Count(h) ==
    /\ pc[h] = "count"
    /\ \E a \in req[h].shas :
          /\ asset' = IF a \in Present
                      THEN [asset EXCEPT ![a].refs = Counted(@)] ELSE asset
          /\ IF req[h].shas = {a} THEN Return(h)
             ELSE req' = [req EXCEPT ![h].shas = @ \ {a}] /\ UNCHANGED pc
    /\ UNCHANGED <<file, head, revs, live, placing, up, gc, faults, abandoned,
                   exposed>>

\* The request dies or its next call fails.
Abort(h) ==
    /\ pc[h] \in CommitPCs
    /\ faults < MaxFaults
    /\ faults' = faults + 1
    /\ abandoned' = IF pc[h] = "insert"
                    THEN abandoned \cup {req[h].base + 1} ELSE abandoned
    /\ exposed' = IF pc[h] = "count" THEN exposed \cup req[h].shas ELSE exposed
    /\ Return(h)
    /\ UNCHANGED <<asset, file, head, revs, live, placing, up, gc>>

-----------------------------------------------------------------------------
(* The live workspace                                                       *)

\* missingWorkspaceAssets: what an operation adds has a document and a file.
CheckPlaced(a) ==
    /\ a \in (Present \cap file) \ live
    /\ placing' = placing \cup {a}
    /\ UNCHANGED <<asset, file, head, revs, live, pc, req, up, gc,
                   faults, abandoned, exposed>>

\* The operation commits, or not; no reference is counted.
Place(a) ==
    /\ a \in placing
    /\ placing' = placing \ {a}
    /\ live' \in {live, live \cup {a}}
    /\ UNCHANGED <<asset, file, head, revs, pc, req, up, gc, faults,
                   abandoned, exposed>>

-----------------------------------------------------------------------------
(* Garbage collection                                                       *)

\* The grace window passes for an uploaded asset.
Age(a) ==
    /\ a \in Present
    /\ ~asset[a].old
    /\ asset' = [asset EXCEPT ![a].old = TRUE]
    /\ UNCHANGED <<file, head, revs, live, placing, pc, req, up, gc, faults,
                   abandoned, exposed>>

Orphans == {a \in Present : asset[a].refs = 0 /\ asset[a].old}

List(g) ==
    /\ gc[g].at = "idle"
    /\ Orphans # {}
    /\ gc' = [gc EXCEPT ![g] = [at |-> "visit", todo |-> Orphans,
                                claimed |-> Absent]]
    /\ UNCHANGED <<asset, file, head, revs, live, placing, pc, req, up, faults,
                   abandoned, exposed>>

\* Mutant: the document is deleted by its hash alone.
GuardDropped(a) == a \in Present

\* The guard of deleteOne: the document is still an orphan.
Guard(a) == a \in Orphans

\* Requests that found a's document and have not counted it yet.
Counting(a) == {h \in Committers : pc[h] \in CommitPCs /\ a \in req[h].shas}

\* deleteOne under the same guard; a document that is no orphan any more is
\* skipped.
Visit(g) ==
    /\ gc[g].at = "visit"
    /\ \E a \in gc[g].todo :
          IF Guard(a)
          THEN /\ asset' = [asset EXCEPT ![a] = Absent]
               /\ gc' = [gc EXCEPT ![g] = [at |-> "remove", claimed |-> a,
                                           todo |-> gc[g].todo \ {a}]]
               /\ exposed' = IF Counting(a) # {} THEN exposed \cup {a}
                                                 ELSE exposed
          ELSE /\ gc' = [gc EXCEPT ![g].todo = @ \ {a}]
               /\ UNCHANGED <<asset, exposed>>
    /\ UNCHANGED <<file, head, revs, live, placing, pc, req, up, faults,
                   abandoned>>

\* rm of the file of the claimed document.
RemoveFile(g) ==
    /\ gc[g].at = "remove"
    /\ file' = file \ {gc[g].claimed}
    /\ exposed' = IF \/ gc[g].claimed \in Present
                     \/ \E u \in Uploaders :
                           up[u].at = "upsert" /\ up[u].sha = gc[g].claimed
                  THEN exposed \cup {gc[g].claimed} ELSE exposed
    /\ gc' = [gc EXCEPT ![g].at = "visit", ![g].claimed = Absent]
    /\ UNCHANGED <<asset, head, revs, live, placing, pc, req, up, faults,
                   abandoned>>

EndRun(g) ==
    /\ gc[g].at = "visit" /\ gc[g].todo = {}
    /\ gc' = [gc EXCEPT ![g] = NoRun]
    /\ UNCHANGED <<asset, file, head, revs, live, placing, pc, req, up, faults,
                   abandoned, exposed>>

-----------------------------------------------------------------------------
StoreNext ==
    \/ \E u \in Uploaders :
          \/ \E a \in Shas : Verified(u, a)
          \/ Exists(u) \/ Rename(u) \/ Upsert(u)
    \/ \E h \in Committers :
          \/ \E base \in 0..head, shas \in SUBSET Shas : Check(h, base, shas)
          \/ Bump(h) \/ Insert(h) \/ Count(h) \/ Abort(h)
    \/ \E a \in Shas : CheckPlaced(a) \/ Place(a) \/ Age(a)
    \/ \E g \in Collectors : List(g) \/ Visit(g) \/ RemoveFile(g) \/ EndRun(g)

StoreSpec == StoreInit /\ [][StoreNext]_storeVars

-----------------------------------------------------------------------------
(* Properties                                                               *)

\* The shape of documents, revisions and local variables.
TypeOK ==
    /\ asset \in [Shas -> Asset \cup {Absent}]
    /\ file \subseteq Shas /\ live \subseteq Shas /\ placing \subseteq Shas
    /\ head \in 0..MaxHead
    /\ revs \in [Revisions -> (SUBSET Shas) \cup {Absent}]
    /\ pc \in [Committers -> {"idle"} \cup CommitPCs]
    /\ req \in [Committers -> Request]
    /\ up \in [Uploaders -> Upload \cup {NoUpload}]
    /\ gc \in [Collectors -> Run]
    /\ faults \in Nat
    /\ abandoned \subseteq Revisions /\ exposed \subseteq Shas

\* The revisions that refer to content a.
Referring(a) == {r \in Revisions : revs[r] # Absent /\ a \in revs[r]}

\* A document with references is never deleted and never loses one, however
\* many collectors run and whatever they listed before ("if a revision bumped
\* refCount in the meantime, this deletes nothing").
CountsOnlyGrow ==
    [][\A a \in Present : asset[a].refs > 0 =>
          asset'[a] # Absent /\ asset'[a].refs >= asset[a].refs]_storeVars

\* refCount counts the revisions that reference the asset (header of the asset
\* model): what is not counted yet belongs to a request about to count it.
CountsMatch ==
    \A a \in Present \ exposed :
        LET uncounted == {h \in Committers :
                             pc[h] = "count" /\ a \in req[h].shas}
        IN asset[a].refs + Cardinality(uncounted) = Cardinality(Referring(a))

\* The history of a pack is linear and has no holes below its head: every
\* revision was committed on top of the one before it, once, except for a
\* request between its two writes or one that died there.
HeadCommitted ==
    /\ \A r \in Revisions : revs[r] # Absent => r <= head
    /\ \A r \in 1..head :
          \/ revs[r] # Absent
          \/ r \in abandoned
          \/ \E h \in Committers : pc[h] = "insert" /\ req[h].base + 1 = r

\* Each revision has one author: two requests never fill the same number.
OneCommitter ==
    \A g, h \in Committers :
        pc[g] \in {"insert", "count"} /\ pc[h] \in {"insert", "count"}
            /\ req[g].base = req[h].base => g = h

\* Everything a committed revision refers to is stored.
FullyStored(a) == Referring(a) # {} => a \in Present \cap file

\* A revision loses an asset in two ways only: a collector deletes the
\* document between the request's check and its count, or the count never
\* happens; and a file in one: it is removed under a new upload.
CompleteUnlessExposed == \A a \in Shas \ exposed : FullyStored(a)

\* Nothing live is ever removed (header of the collector): what the live
\* workspace refers to is stored.
LiveKept == live \subseteq Present

-----------------------------------------------------------------------------
(* The inductive invariant.                                                 *)

\* A request past the bump owns the number it fills: it lies at or below the
\* head, is empty until the insert and filled after it.
NumberOwned ==
    \A h \in Committers :
        /\ pc[h] # "idle" => req[h].base < MaxHead
        /\ pc[h] \in {"insert", "count"} => req[h].base < head
        /\ pc[h] = "insert" => revs[req[h].base + 1] = Absent
        /\ pc[h] = "count" => revs[req[h].base + 1] # Absent

\* A reference to a is counted, or about to be.
Owed(a) == \/ asset[a].refs > 0
           \/ \E h \in Committers : pc[h] = "count" /\ a \in req[h].shas

\* Before anything overtakes it, a content is where its users look for it.
Untouched(a) ==
    /\ a \in Present => a \in file
    /\ Referring(a) # {} => a \in Present /\ Owed(a)
    /\ Counting(a) # {} => a \in Present
    /\ \A u \in Uploaders : up[u].at = "upsert" /\ up[u].sha = a => a \in file

\* The inductive invariant, checked by TLC and proved in AssetAndExportProofs.
IInv ==
    /\ TypeOK
    /\ HeadCommitted
    /\ OneCommitter
    /\ NumberOwned
    /\ \A a \in Shas \ exposed : Untouched(a)
=============================================================================
