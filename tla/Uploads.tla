------------------------------- MODULE Uploads ------------------------------
(***************************************************************************)
(* Resumable chunked uploads (src/routes/uploads.ts) up to the file in the *)
(* content-addressed store (finalizeFromTmp in src/storage/cas.ts), with   *)
(* the garbage collector (gcOrphanAssets and gcStaleTmp in                 *)
(* src/storage/gc.ts) and the expiry of sessions running alongside.        *)
(*                                                                         *)
(* One action is one database or file system call and the synchronous code *)
(* up to the next await; reading a tmp file to hash it is one action.  A   *)
(* chunk of a file is either the bytes the announced hash was computed     *)
(* from ("good"), other bytes of the right length ("bad"), or not written  *)
(* ("hole").  All uploads of a content announce one size and kind.  What   *)
(* refers to a content, and how old it is, are AssetStore's: here the      *)
(* collector may find any document orphaned.                               *)
(***************************************************************************)
EXTENDS Naturals, FiniteSets

CONSTANTS
    Shas,         \* contents, by hash
    Users,
    Sessions,     \* upload ids, each drawn once
    Handlers,     \* requests in flight
    Collectors,   \* runs of the garbage collector
    Chunks,       \* chunk indices of a session
    Bytes,        \* what clients send: {"good"} or {"good", "bad"}
    ShortGrace,   \* an administrator may collect tmp files of live sessions
    None,
    MaxFaults     \* bound on restarts, failing calls and collected documents

ASSUME UploadAssumption ==
    /\ Bytes \subseteq {"good", "bad"}
    /\ ShortGrace \in BOOLEAN
    /\ MaxFaults \in Nat
    /\ None \notin Sessions \cup Chunks \cup Bytes \cup Shas \cup Users
    /\ None \notin [Chunks -> {"hole", "good", "bad"}]

VARIABLES
    uploads,   \* atelierUploads documents, by upload id
    tmp,       \* tmp/<uploadId>.part
    cas,       \* cas/<sha256>: the stored file
    docs,      \* hashes with an atelierAssets document
    pc, req,   \* where a request is, and its local variables
    faults,
    removed,   \* history: sessions whose tmp file was collected
    stranded,  \* history: sessions whose request died or failed
    late,      \* history: contents written to after they were verified
    sweep,     \* content whose document a collector deleted, and not its file
    swept      \* history: contents whose file a collector took from an upload

vars == <<uploads, tmp, cas, docs, pc, req, faults, removed, stranded, late,
          sweep, swept>>

NoFile == None
Holes == [c \in Chunks |-> "hole"]
File == [Chunks -> {"hole", "good", "bad"}]

\* "unused" is an id not drawn yet, "named" one whose document is not inserted
\* yet, "gone" one whose document was deleted.
Upload == [status : {"unused", "named", "open", "finalizing", "gone"},
           sha : Shas \cup {None}, user : Users \cup {None},
           received : SUBSET Chunks, expired : BOOLEAN]
NoUpload == [status |-> "unused", sha |-> None, user |-> None,
             received |-> {}, expired |-> FALSE]

\* A request's parameters, and where its open file handle points: its tmp
\* file, the stored file that one was renamed to, or a file without a name.
Request == [sha : Shas \cup {None}, user : Users \cup {None},
            s : Sessions \cup {None}, chunk : Chunks \cup {None},
            byte : Bytes \cup {None},
            handle : {"none", "tmp", "cas", "unlinked"}]
NoRequest == [sha |-> None, user |-> None, s |-> None, chunk |-> None,
              byte |-> None, handle |-> "none"]

InitPCs == {"find", "mkTmp", "insert"}
PutPCs == {"open", "recreate", "write", "mark"}
CompletePCs == {"hash", "exists", "discard", "rename", "lostRace", "upsert",
                "finish", "release", "dropTmp", "dropDoc"}
PCs == {"idle"} \cup InitPCs \cup PutPCs \cup CompletePCs

Init ==
    /\ uploads = [s \in Sessions |-> NoUpload]
    /\ tmp = [s \in Sessions |-> NoFile]
    /\ cas = [a \in Shas |-> NoFile]
    /\ docs = {}
    /\ pc = [h \in Handlers |-> "idle"]
    /\ req = [h \in Handlers |-> NoRequest]
    /\ faults = 0
    /\ removed = {} /\ stranded = {} /\ late = {}
    /\ sweep = [g \in Collectors |-> None] /\ swept = {}

-----------------------------------------------------------------------------
(* Helpers                                                                  *)

Goto(h, l) == pc' = [pc EXCEPT ![h] = l] /\ UNCHANGED req

Return(h) ==
    /\ pc' = [pc EXCEPT ![h] = "idle"]
    /\ req' = [req EXCEPT ![h] = NoRequest]

Start(h, l, r) ==
    /\ pc[h] = "idle"
    /\ pc' = [pc EXCEPT ![h] = l]
    /\ req' = [req EXCEPT ![h] = r]

Session(h) == req[h].s
Sha(h) == uploads[req[h].s].sha

\* Mutant: the claimed status is not part of the filter.
UsableInAnyStatus(s) ==
    uploads[s].status \in {"open", "finalizing"} /\ ~uploads[s].expired

\* The filter of a session lookup: open and not expired.
Usable(s) == uploads[s].status = "open" /\ ~uploads[s].expired

SetStatus(s, st) == uploads' = [uploads EXCEPT ![s].status = st]

\* Mutant: the hash is not compared.
HashIgnored(f) == f # NoFile

\* createHash over the file gives the expected hash.
HashMatches(f) == f # NoFile /\ \A c \in Chunks : f[c] = "good"

\* Open handles when tmp file s gets the name cas/a, or loses its name.
HandlesMoved(s, a) ==
    req' = [h \in Handlers |->
              IF Session(h) = s /\ req[h].handle = "tmp"
              THEN [req[h] EXCEPT !.handle = "cas"]
              ELSE IF req[h].handle = "cas" /\ Sha(h) = a
              THEN [req[h] EXCEPT !.handle = "unlinked"]
              ELSE req[h]]
HandlesUnlinked(s) ==
    req' = [h \in Handlers |->
              IF Session(h) = s /\ req[h].handle = "tmp"
              THEN [req[h] EXCEPT !.handle = "unlinked"]
              ELSE req[h]]

\* Open handles when the file cas/a loses its name.
StoredUnlinked(a) ==
    req' = [h \in Handlers |->
              IF req[h].handle = "cas" /\ Sha(h) = a
              THEN [req[h] EXCEPT !.handle = "unlinked"]
              ELSE req[h]]

\* The file of session s has been verified and not moved yet.
Verified(s) ==
    \E g \in Handlers : pc[g] \in {"exists", "rename"} /\ Session(g) = s

-----------------------------------------------------------------------------
(* POST /uploads                                                            *)

\* Refused with already_exists when both the document and its file exist.
Begin(h, u, a) ==
    /\ ~(a \in docs /\ cas[a] # NoFile)
    /\ Start(h, "find", [NoRequest EXCEPT !.sha = a, !.user = u])
    /\ UNCHANGED <<uploads, tmp, cas, docs, faults, removed, stranded, late,
                   sweep, swept>>

Resumable(h, s) ==
    /\ Usable(s)
    /\ uploads[s].sha = req[h].sha
    /\ uploads[s].user = req[h].user

\* An open session is the answer; otherwise a fresh upload id is drawn.
Find(h) ==
    /\ pc[h] = "find"
    /\ \/ /\ \E s \in Sessions : Resumable(h, s)
          /\ Return(h)
          /\ UNCHANGED uploads
       \/ /\ ~\E s \in Sessions : Resumable(h, s)
          /\ \E s \in Sessions :
                /\ uploads[s].status = "unused"
                /\ uploads' = [uploads EXCEPT ![s] =
                     [NoUpload EXCEPT !.status = "named",
                                      !.sha = req[h].sha,
                                      !.user = req[h].user]]
                /\ pc' = [pc EXCEPT ![h] = "mkTmp"]
                /\ req' = [req EXCEPT ![h].s = s]
    /\ UNCHANGED <<tmp, cas, docs, faults, removed, stranded, late, sweep,
                   swept>>

MkTmp(h) ==
    /\ pc[h] = "mkTmp"
    /\ tmp' = [tmp EXCEPT ![Session(h)] = Holes]
    /\ Goto(h, "insert")
    /\ UNCHANGED <<uploads, cas, docs, faults, removed, stranded, late,
                   sweep, swept>>

Insert(h) ==
    /\ pc[h] = "insert"
    /\ SetStatus(Session(h), "open")
    /\ Return(h)
    /\ UNCHANGED <<tmp, cas, docs, faults, removed, stranded, late, sweep,
                   swept>>

-----------------------------------------------------------------------------
(* PUT /uploads/:uploadId/chunks/:index                                     *)

Put(h, s, c, b) ==
    /\ Usable(s)
    /\ Start(h, "open",
             [NoRequest EXCEPT !.s = s, !.chunk = c, !.byte = b])
    /\ UNCHANGED <<uploads, tmp, cas, docs, faults, removed, stranded, late,
                   sweep, swept>>

\* Mutant: the chunk is marked as received before it is written.
OpenMarks(h) ==
    /\ pc[h] = "open"
    /\ uploads' = [uploads EXCEPT ![Session(h)].received = @ \cup {req[h].chunk}]
    /\ IF tmp[Session(h)] = NoFile
       THEN Goto(h, "recreate")
       ELSE /\ pc' = [pc EXCEPT ![h] = "write"]
            /\ req' = [req EXCEPT ![h].handle = "tmp"]
    /\ UNCHANGED <<tmp, cas, docs, faults, removed, stranded, late, sweep,
                   swept>>

Open(h) ==
    /\ pc[h] = "open"
    /\ IF tmp[Session(h)] = NoFile
       THEN Goto(h, "recreate")
       ELSE /\ pc' = [pc EXCEPT ![h] = "write"]
            /\ req' = [req EXCEPT ![h].handle = "tmp"]
    /\ UNCHANGED <<uploads, tmp, cas, docs, faults, removed, stranded, late,
                   sweep, swept>>

\* open(tmpPath, "w+") empties a file another request recreated meanwhile.
Recreate(h) ==
    /\ pc[h] = "recreate"
    /\ tmp' = [tmp EXCEPT ![Session(h)] = Holes]
    /\ late' = IF Verified(Session(h)) THEN late \cup {Sha(h)} ELSE late
    /\ pc' = [pc EXCEPT ![h] = "write"]
    /\ req' = [req EXCEPT ![h].handle = "tmp"]
    /\ UNCHANGED <<uploads, cas, docs, faults, removed, stranded, sweep,
                   swept>>

\* The handle writes where its file is now, not where it was opened.
Write(h) ==
    LET s == Session(h) IN
    /\ pc[h] = "write"
    /\ tmp' = IF req[h].handle = "tmp"
              THEN [tmp EXCEPT ![s][req[h].chunk] = req[h].byte] ELSE tmp
    /\ cas' = IF req[h].handle = "cas"
              THEN [cas EXCEPT ![Sha(h)][req[h].chunk] = req[h].byte] ELSE cas
    /\ late' = IF \/ req[h].handle = "cas"
                  \/ req[h].handle = "tmp" /\ Verified(s)
               THEN late \cup {Sha(h)} ELSE late
    /\ pc' = [pc EXCEPT ![h] = "mark"]
    /\ req' = [req EXCEPT ![h].handle = "none"]
    /\ UNCHANGED <<uploads, docs, faults, removed, stranded, sweep, swept>>

\* $addToSet by upload id alone: the session may be finalizing or deleted.
Mark(h) ==
    /\ pc[h] = "mark"
    /\ uploads' = IF uploads[Session(h)].status = "gone" THEN uploads
                  ELSE [uploads EXCEPT ![Session(h)].received =
                          @ \cup {req[h].chunk}]
    /\ Return(h)
    /\ UNCHANGED <<tmp, cas, docs, faults, removed, stranded, late, sweep,
                   swept>>

-----------------------------------------------------------------------------
(* POST /uploads/:uploadId/complete                                         *)

\* The claim open -> finalizing; a session with chunks missing is released.
Claim(h, s) ==
    /\ Usable(s)
    /\ SetStatus(s, "finalizing")
    /\ Start(h, IF uploads[s].received = Chunks THEN "hash" ELSE "release",
             [NoRequest EXCEPT !.s = s])
    /\ UNCHANGED <<tmp, cas, docs, faults, removed, stranded, late, sweep,
                   swept>>

\* A missing file throws, and the session is released.
Hash(h) ==
    /\ pc[h] = "hash"
    /\ Goto(h, IF tmp[Session(h)] = NoFile THEN "release"
               ELSE IF HashMatches(tmp[Session(h)]) THEN "exists"
               ELSE "dropTmp")
    /\ UNCHANGED <<uploads, tmp, cas, docs, faults, removed, stranded, late,
                   sweep, swept>>

\* Mutant: the asset document is written before the file is in place.
ExistsUpserts(h) ==
    /\ pc[h] = "exists"
    /\ Goto(h, IF cas[Sha(h)] # NoFile THEN "discard" ELSE "rename")
    /\ docs' = docs \cup {Sha(h)}
    /\ UNCHANGED <<uploads, tmp, cas, faults, removed, stranded, late,
                   sweep, swept>>

Exists(h) ==
    /\ pc[h] = "exists"
    /\ Goto(h, IF cas[Sha(h)] # NoFile THEN "discard" ELSE "rename")
    /\ UNCHANGED <<uploads, tmp, cas, docs, faults, removed, stranded, late,
                   sweep, swept>>

RemoveTmp(s) ==
    /\ tmp' = [tmp EXCEPT ![s] = NoFile]
    /\ HandlesUnlinked(s)

\* The content is stored already: the tmp file is discarded.
Discard(h) ==
    /\ pc[h] = "discard"
    /\ RemoveTmp(Session(h))
    /\ pc' = [pc EXCEPT ![h] = "upsert"]
    /\ UNCHANGED <<uploads, cas, docs, faults, removed, stranded, late,
                   sweep, swept>>

\* rename replaces a file that another request stored meanwhile.
Rename(h) ==
    LET s == Session(h) IN
    /\ pc[h] = "rename"
    /\ IF tmp[s] = NoFile
       THEN /\ Goto(h, "lostRace")
            /\ UNCHANGED <<tmp, cas, swept>>
       ELSE /\ cas' = [cas EXCEPT ![Sha(h)] = tmp[s]]
            /\ tmp' = [tmp EXCEPT ![s] = NoFile]
            /\ HandlesMoved(s, Sha(h))
            /\ pc' = [pc EXCEPT ![h] = "upsert"]
            /\ swept' = swept \ {Sha(h)}
    /\ UNCHANGED <<uploads, docs, faults, removed, stranded, late, sweep>>

LostRace(h) ==
    /\ pc[h] = "lostRace"
    /\ Goto(h, IF cas[Sha(h)] # NoFile THEN "discard" ELSE "release")
    /\ UNCHANGED <<uploads, tmp, cas, docs, faults, removed, stranded, late,
                   sweep, swept>>

Upsert(h) ==
    /\ pc[h] = "upsert"
    /\ docs' = docs \cup {Sha(h)}
    /\ Goto(h, "finish")
    /\ UNCHANGED <<uploads, tmp, cas, faults, removed, stranded, late,
                   sweep, swept>>

\* Corrupt upload: the tmp file goes first, then the session.
DropTmp(h) ==
    /\ pc[h] = "dropTmp"
    /\ RemoveTmp(Session(h))
    /\ pc' = [pc EXCEPT ![h] = "dropDoc"]
    /\ UNCHANGED <<uploads, cas, docs, faults, removed, stranded, late,
                   sweep, swept>>

\* deleteOne by upload id, after success or after a mismatch.
Finish(h) ==
    /\ pc[h] \in {"finish", "dropDoc"}
    /\ SetStatus(Session(h), "gone")
    /\ Return(h)
    /\ UNCHANGED <<tmp, cas, docs, faults, removed, stranded, late, sweep,
                   swept>>

\* releaseToOpen, by upload id: nothing to do when the session is gone.
Release(h) ==
    /\ pc[h] = "release"
    /\ IF uploads[Session(h)].status = "gone" THEN UNCHANGED uploads
                                              ELSE SetStatus(Session(h), "open")
    /\ Return(h)
    /\ UNCHANGED <<tmp, cas, docs, faults, removed, stranded, late, sweep,
                   swept>>

-----------------------------------------------------------------------------
(* Failures, expiry and collection                                          *)

\* Where a failing file system call of complete leads: casExists answers no,
\* a failed rename looks whether the content is there, a tmp file that cannot
\* be deleted is left behind, and what finalizeFromTmp throws releases.
FailsTo ==
    [hash |-> "release", exists |-> "rename", discard |-> "release",
     rename |-> "lostRace", lostRace |-> "release", dropTmp |-> "dropDoc"]

\* A database or file system call fails without effect.  Any call FailsTo does
\* not list ends the request.
Fail(h) ==
    /\ pc[h] # "idle"
    /\ faults < MaxFaults
    /\ faults' = faults + 1
    /\ IF pc[h] \in DOMAIN FailsTo
       THEN Goto(h, FailsTo[pc[h]]) /\ UNCHANGED stranded
       ELSE /\ Return(h)
            /\ stranded' = IF pc[h] \in CompletePCs
                           THEN stranded \cup {Session(h)} ELSE stranded
    /\ UNCHANGED <<uploads, tmp, cas, docs, removed, late, sweep, swept>>

\* The server process stops and starts again.
Crash ==
    /\ faults < MaxFaults
    /\ faults' = faults + 1
    /\ pc' = [h \in Handlers |-> "idle"]
    /\ req' = [h \in Handlers |-> NoRequest]
    /\ stranded' = stranded \cup
         {Session(h) : h \in {g \in Handlers : pc[g] \in CompletePCs}}
    /\ sweep' = [g \in Collectors |-> None]
    /\ UNCHANGED <<uploads, tmp, cas, docs, removed, late, swept>>

\* 48 hours have passed.
Expire(s) ==
    /\ uploads[s].status \in {"open", "finalizing"}
    /\ ~uploads[s].expired
    /\ uploads' = [uploads EXCEPT ![s].expired = TRUE]
    /\ UNCHANGED <<tmp, cas, docs, pc, req, faults, removed, stranded, late,
                   sweep, swept>>

\* The TTL index deletes an expired session, whatever its status.
Ttl(s) ==
    /\ uploads[s].expired /\ uploads[s].status # "gone"
    /\ SetStatus(s, "gone")
    /\ UNCHANGED <<tmp, cas, docs, pc, req, faults, removed, stranded, late,
                   sweep, swept>>

\* A tmp file older than the grace window.  The default window is the life of
\* a session, so only files of expired or deleted sessions are that old.
Stale(s) ==
    /\ tmp[s] # NoFile
    /\ \/ uploads[s].expired \/ uploads[s].status = "gone"
       \/ uploads[s].status = "named" /\ \A h \in Handlers : Session(h) # s
       \/ ShortGrace /\ uploads[s].status \in {"open", "finalizing"}

GcStaleTmp(s) ==
    /\ Stale(s)
    /\ RemoveTmp(s)
    /\ removed' = removed \cup {s}
    /\ UNCHANGED <<uploads, cas, docs, pc, faults, stranded, late, sweep,
                   swept>>

\* gcOrphanAssets: a collector claims the document of an orphan by deleting it
\* under the guard it was found with...
ClaimOrphan(g, a) ==
    /\ sweep[g] = None
    /\ a \in docs
    /\ faults < MaxFaults
    /\ faults' = faults + 1
    /\ docs' = docs \ {a}
    /\ sweep' = [sweep EXCEPT ![g] = a]
    /\ UNCHANGED <<uploads, tmp, cas, pc, req, removed, stranded, late, swept>>

\* An upload has found or placed the file of a content, and its document is not
\* written yet.
Found(a) ==
    \E h \in Handlers : pc[h] \in {"discard", "upsert"} /\ Sha(h) = a

\* ... and removes the file by its path without a further look; an rm that
\* fails is logged.
RemoveOrphan(g) ==
    LET a == sweep[g] IN
    /\ a # None
    /\ sweep' = [sweep EXCEPT ![g] = None]
    /\ \/ /\ cas' = [cas EXCEPT ![a] = NoFile]
          /\ StoredUnlinked(a)
          /\ swept' = IF a \in docs \/ Found(a) THEN swept \cup {a} ELSE swept
       \/ UNCHANGED <<cas, req, swept>>
    /\ UNCHANGED <<uploads, tmp, docs, pc, faults, removed, stranded, late>>

-----------------------------------------------------------------------------
(* Specification                                                            *)

HandlerStep(h) ==
    \/ Find(h) \/ MkTmp(h) \/ Insert(h)
    \/ Open(h) \/ Recreate(h) \/ Write(h) \/ Mark(h)
    \/ Hash(h) \/ Exists(h) \/ Discard(h) \/ Rename(h) \/ LostRace(h)
    \/ Upsert(h) \/ DropTmp(h) \/ Finish(h) \/ Release(h)

Next ==
    \/ \E h \in Handlers :
          \/ \E u \in Users, a \in Shas : Begin(h, u, a)
          \/ \E s \in Sessions :
                Claim(h, s) \/ \E c \in Chunks, b \in Bytes : Put(h, s, c, b)
          \/ HandlerStep(h) \/ Fail(h)
    \/ \E s \in Sessions : Expire(s) \/ Ttl(s) \/ GcStaleTmp(s)
    \/ \E g \in Collectors :
          RemoveOrphan(g) \/ \E a \in Shas : ClaimOrphan(g, a)
    \/ Crash

Spec == Init /\ [][Next]_vars

-----------------------------------------------------------------------------
(* Properties                                                               *)

\* The shape of sessions, files and requests.
TypeOK ==
    /\ uploads \in [Sessions -> Upload]
    /\ tmp \in [Sessions -> File \cup {NoFile}]
    /\ cas \in [Shas -> File \cup {NoFile}]
    /\ docs \subseteq Shas
    /\ pc \in [Handlers -> PCs]
    /\ req \in [Handlers -> Request]
    /\ faults \in Nat
    /\ removed \subseteq Sessions /\ stranded \subseteq Sessions
    /\ late \subseteq Shas /\ swept \subseteq Shas
    /\ sweep \in [Collectors -> Shas \cup {None}]

\* An asset document has its file: the file is in place before the document is
\* written, whichever of several uploads stored it and whatever the collector
\* claims meanwhile.  Excepted is a content whose file the collector, having
\* claimed an earlier document, removed under an upload that had found it or
\* had written the document again, until the next upload stores it.
DocHasFileUnlessSwept == \A a \in docs \ swept : cas[a] # NoFile

\* One request at a time finalizes a session ("so concurrent completes can't
\* race"), and a session stays finalizing only under a request that works on
\* it, unless that request died or failed without releasing it.
FinalizingOwned ==
    \A s \in Sessions :
        LET owners == {h \in Handlers : pc[h] \in CompletePCs /\ Session(h) = s}
        IN /\ \A g, h \in owners : g = h
           /\ uploads[s].status = "finalizing" =>
                 owners # {} \/ s \in stranded

\* What a resuming client is told holds: a chunk listed as received is in the
\* tmp file of the open session, unless the file was collected under it.
ResumeTruth ==
    \A s \in Sessions : \A c \in uploads[s].received :
        uploads[s].status = "open" =>
            \/ tmp[s] # NoFile /\ tmp[s][c] # "hole"
            \/ s \in removed

\* The content of a stored file has the hash it is stored under: /complete
\* verifies everything (comment in the chunk handler) -- unless a chunk request
\* that was admitted before the claim writes after the hash was taken.
StoredVerifiesUnlessLate ==
    \A a \in Shas : cas[a] # NoFile /\ a \notin late =>
        \A c \in Chunks : cas[a][c] = "good"

-----------------------------------------------------------------------------
(* The inductive invariant behind TypeOK, DocHasFileUnlessSwept and         *)
(* FinalizingOwned ...                                                      *)

SessionOK(s) ==
    /\ uploads[s].status # "unused" => uploads[s].sha \in Shas
    /\ uploads[s].status \in {"unused", "named"} => ~uploads[s].expired

Creates(h) == pc[h] \in {"mkTmp", "insert"}
Completes(h) == pc[h] \in CompletePCs

\* A request works on a session that was drawn.
ParametersOK(h) ==
    /\ pc[h] \in {"idle", "find"} => Session(h) = None
    /\ pc[h] = "find" => req[h].sha \in Shas /\ req[h].user \in Users
    /\ pc[h] \in PutPCs => req[h].chunk \in Chunks /\ req[h].byte \in Bytes
    /\ Creates(h) \/ pc[h] \in PutPCs \/ Completes(h) =>
          Session(h) \in Sessions /\ uploads[Session(h)].status # "unused"

\* An open handle points to a file that is there.
HandleOK(h) ==
    /\ req[h].handle = "tmp" => pc[h] = "write" /\ tmp[Session(h)] # NoFile
    /\ req[h].handle = "cas" => pc[h] = "write" /\ cas[Sha(h)] # NoFile

\* A content has its file, or the collector took it from an upload.
Stored(a) == cas[a] # NoFile \/ a \in swept

\* Until its document is inserted only its creator knows a session; a session
\* is finalized by one request, and before the document of a content is
\* written its file is in place.
OwnerOK(h) ==
    /\ Creates(h) =>
          /\ uploads[Session(h)].status = "named"
          /\ \A g \in Handlers : Session(g) = Session(h) => g = h
    /\ Completes(h) =>
          /\ uploads[Session(h)].status \in {"finalizing", "gone"}
          /\ \A g \in Handlers :
                Completes(g) /\ Session(g) = Session(h) => g = h
    /\ pc[h] \in {"discard", "upsert"} => Stored(Sha(h))

Owned(s) ==
    uploads[s].status = "finalizing" =>
        s \in stranded \/ \E h \in Handlers : Completes(h) /\ Session(h) = s

Core ==
    /\ TypeOK
    /\ \A s \in Sessions : SessionOK(s) /\ Owned(s)
    /\ \A h \in Handlers : ParametersOK(h) /\ HandleOK(h) /\ OwnerOK(h)
    /\ DocHasFileUnlessSwept

-----------------------------------------------------------------------------
(* ... and behind ResumeTruth and StoredVerifiesUnlessLate                  *)

\* Where a request that finalizes a session may still give it back.
Undecided == {"hash", "exists", "discard", "rename", "lostRace", "release"}

\* A client may resume the session, now or when it is given back.
Live(s) ==
    \/ uploads[s].status = "open"
    \/ \E h \in Handlers : pc[h] \in Undecided /\ Session(h) = s

Intact(s) == Live(s) /\ s \notin removed

ReceivedOK(s) ==
    /\ uploads[s].status \in {"unused", "named"} => uploads[s].received = {}
    /\ Intact(s) =>
          /\ tmp[s] # NoFile
          /\ \A c \in uploads[s].received : tmp[s][c] # "hole"

\* A chunk request loses its file only when nobody can resume the session, and
\* what it is about to mark is in the file.
ChunkOK(h) ==
    /\ pc[h] \in PutPCs =>
          uploads[Session(h)].status \in {"open", "finalizing", "gone"}
    /\ req[h].handle # "none" <=> pc[h] = "write"
    /\ pc[h] = "insert" => tmp[Session(h)] # NoFile
    /\ pc[h] = "recreate" \/ req[h].handle \in {"cas", "unlinked"} =>
          ~Intact(Session(h))
    /\ pc[h] = "mark" /\ Intact(Session(h)) =>
          tmp[Session(h)][req[h].chunk] # "hole"

\* A file that was hashed is still the one that was hashed.
HashTrue(h) ==
    pc[h] \in {"exists", "rename"} /\ Sha(h) \notin late =>
        \/ tmp[Session(h)] = NoFile
        \/ \A c \in Chunks : tmp[Session(h)][c] = "good"

Resumes == (\A s \in Sessions : ReceivedOK(s)) /\ \A h \in Handlers : ChunkOK(h)
Verifies == StoredVerifiesUnlessLate /\ \A h \in Handlers : HashTrue(h)

IInv == Core /\ Resumes /\ Verifies
=============================================================================
