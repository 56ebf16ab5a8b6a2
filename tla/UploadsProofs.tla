--------------------------- MODULE UploadsProofs ----------------------------
(***************************************************************************)
(* Proofs about module Uploads, for every number of contents, users,       *)
(* sessions, requests, chunks and failing calls.                           *)
(***************************************************************************)
EXTENDS Uploads, TLAPS

-----------------------------------------------------------------------------
(* What the assignments do, field by field                                  *)

Statuses == {"unused", "named", "open", "finalizing", "gone"}

\* Setting the status of one session leaves every other field alone.
LEMMA SetStatusFacts ==
    ASSUME uploads \in [Sessions -> Upload], NEW s \in Sessions,
           NEW st \in Statuses, SetStatus(s, st)
    PROVE  /\ uploads' \in [Sessions -> Upload]
           /\ \A t \in Sessions :
                 /\ uploads'[t].status = IF t = s THEN st
                                                  ELSE uploads[t].status
                 /\ uploads'[t].sha = uploads[t].sha
                 /\ uploads'[t].expired = uploads[t].expired
BY DEF SetStatus, Upload, Statuses

\* Marking a chunk changes the received chunks of its session only.
LEMMA MarkFacts ==
    ASSUME uploads \in [Sessions -> Upload], NEW s \in Sessions,
           NEW c \in Chunks,
           uploads' = [uploads EXCEPT ![s].received = @ \cup {c}]
    PROVE  /\ uploads' \in [Sessions -> Upload]
           /\ \A t \in Sessions :
                 /\ uploads'[t].status = uploads[t].status
                 /\ uploads'[t].sha = uploads[t].sha
                 /\ uploads'[t].expired = uploads[t].expired
BY DEF Upload

LEMMA ExpireFacts ==
    ASSUME uploads \in [Sessions -> Upload], NEW s \in Sessions,
           uploads' = [uploads EXCEPT ![s].expired = TRUE]
    PROVE  /\ uploads' \in [Sessions -> Upload]
           /\ \A t \in Sessions :
                 /\ uploads'[t].status = uploads[t].status
                 /\ uploads'[t].sha = uploads[t].sha
                 /\ t # s => uploads'[t].expired = uploads[t].expired
BY DEF Upload

\* A drawn session.
LEMMA DrawFacts ==
    ASSUME uploads \in [Sessions -> Upload], NEW s \in Sessions,
           NEW a \in Shas, NEW u \in Users,
           uploads' = [uploads EXCEPT ![s] =
                        [NoUpload EXCEPT !.status = "named", !.sha = a,
                                         !.user = u]]
    PROVE  /\ uploads' \in [Sessions -> Upload]
           /\ uploads'[s].status = "named"
           /\ uploads'[s].sha = a
           /\ uploads'[s].expired = FALSE
           /\ \A t \in Sessions \ {s} : uploads'[t] = uploads[t]
BY DEF Upload, NoUpload

\* The requests after one of them got new parameters or a new handle.
LEMMA RequestFacts ==
    /\ NoRequest \in Request
    /\ NoRequest.s = None /\ NoRequest.handle = "none"
    /\ \A s \in Sessions :
          LET r == [NoRequest EXCEPT !.s = s]
          IN  r \in Request /\ r.s = s /\ r.handle = "none"
BY DEF Request, NoRequest

LEMMA HandleFacts ==
    ASSUME req \in [Handlers -> Request], NEW h \in Handlers,
           NEW v \in {"none", "tmp", "cas", "unlinked"},
           req' = [req EXCEPT ![h].handle = v]
    PROVE  /\ req' \in [Handlers -> Request]
           /\ \A g \in Handlers : g # h => req'[g] = req[g]
           /\ req'[h].handle = v
           /\ \A g \in Handlers :
                 /\ req'[g].s = req[g].s /\ req'[g].sha = req[g].sha
                 /\ req'[g].user = req[g].user
                 /\ req'[g].chunk = req[g].chunk /\ req'[g].byte = req[g].byte
BY DEF Request

LEMMA SessionFacts ==
    ASSUME req \in [Handlers -> Request], NEW h \in Handlers,
           NEW s \in Sessions, req' = [req EXCEPT ![h].s = s]
    PROVE  /\ req' \in [Handlers -> Request]
           /\ \A g \in Handlers : g # h => req'[g] = req[g]
           /\ req'[h].s = s /\ req'[h].handle = req[h].handle
BY DEF Request

\* Renaming or removing a file changes nothing of a request but its handle.
LEMMA MovedFacts ==
    ASSUME req \in [Handlers -> Request], NEW s, NEW a, HandlesMoved(s, a)
    PROVE  /\ req' \in [Handlers -> Request]
           /\ \A g \in Handlers :
                 /\ req'[g].s = req[g].s /\ req'[g].sha = req[g].sha
                 /\ req'[g].user = req[g].user
                 /\ req'[g].chunk = req[g].chunk /\ req'[g].byte = req[g].byte
                 /\ req'[g].handle = "tmp" => req[g].handle = "tmp" /\ req[g].s # s
                 /\ req'[g].handle = "cas" =>
                       \/ req[g].handle = "tmp" /\ req[g].s = s
                       \/ req[g].handle = "cas" /\ Sha(g) # a
BY DEF HandlesMoved, Request, Session

LEMMA UnlinkedFacts ==
    ASSUME req \in [Handlers -> Request], NEW s, HandlesUnlinked(s)
    PROVE  /\ req' \in [Handlers -> Request]
           /\ \A g \in Handlers :
                 /\ req'[g].s = req[g].s /\ req'[g].sha = req[g].sha
                 /\ req'[g].user = req[g].user
                 /\ req'[g].chunk = req[g].chunk /\ req'[g].byte = req[g].byte
                 /\ req'[g].handle = "tmp" => req[g].handle = "tmp" /\ req[g].s # s
                 /\ req'[g].handle = "cas" => req[g].handle = "cas"
BY DEF HandlesUnlinked, Request, Session

\* The collector takes a stored file from the handles that were open on it.
LEMMA StoredUnlinkedFacts ==
    ASSUME req \in [Handlers -> Request], NEW a, StoredUnlinked(a)
    PROVE  /\ req' \in [Handlers -> Request]
           /\ \A g \in Handlers :
                 /\ req'[g].s = req[g].s /\ req'[g].sha = req[g].sha
                 /\ req'[g].user = req[g].user
                 /\ req'[g].chunk = req[g].chunk /\ req'[g].byte = req[g].byte
                 /\ req'[g].handle = "tmp" => req[g].handle = "tmp"
                 /\ req'[g].handle = "cas" => req[g].handle = "cas" /\ Sha(g) # a
                 /\ req'[g].handle = "none" <=> req[g].handle = "none"
                 /\ req'[g].handle = "unlinked" =>
                       req[g].handle \in {"cas", "unlinked"}
BY DEF StoredUnlinked, Request

-----------------------------------------------------------------------------
(* Three kinds of steps                                                     *)

SessionsHold == \A s \in Sessions : SessionOK(s) /\ Owned(s)
RequestsHold == \A h \in Handlers : ParametersOK(h) /\ HandleOK(h) /\ OwnerOK(h)

\* The request g keeps its place and its parameters; its open file may move.
Keeps(g) ==
    /\ pc'[g] = pc[g]
    /\ req'[g].s = req[g].s /\ req'[g].sha = req[g].sha
    /\ req'[g].user = req[g].user
    /\ req'[g].chunk = req[g].chunk /\ req'[g].byte = req[g].byte

\* Stored, after the step.
StillStored(a) == cas'[a] # NoFile \/ a \in swept'

\* Sessions stay as they are while h moves and files change: what has to be
\* shown is that handles keep pointing to files, that found files stay, and
\* that h is well placed and does not walk away from a session it finalizes.
LEMMA FileStep ==
    ASSUME Core, TypeOK', NEW h,
           UNCHANGED uploads, stranded \subseteq stranded',
           \A a \in Shas : Found(a) /\ Stored(a) => StillStored(a),
           \A g \in Handlers : g # h => Keeps(g),
           \A g \in Handlers : HandleOK(g)',
           h \in Handlers =>
              /\ ParametersOK(h)'
              /\ Creates(h)' => Creates(h) /\ req'[h].s = req[h].s
              /\ Completes(h)' => Completes(h) /\ req'[h].s = req[h].s
              /\ req'[h].s \in Sessions /\ req'[h].s # req[h].s =>
                    uploads[req'[h].s].status = "open"
              /\ pc'[h] \in {"discard", "upsert"} =>
                    StillStored(uploads[req'[h].s].sha)
              /\ Completes(h) /\ ~Completes(h)' =>
                    \/ uploads[req[h].s].status # "finalizing"
                    \/ req[h].s \in stranded'
    PROVE  SessionsHold' /\ RequestsHold'
<1>1. \A s \in Sessions : SessionOK(s)'
  BY DEF Core, SessionOK
<1>2. ASSUME NEW s \in Sessions PROVE Owned(s)'
  <2>1. SUFFICES ASSUME uploads[s].status = "finalizing", s \notin stranded'
                 PROVE  \E g \in Handlers : Completes(g)' /\ Session(g)' = s
    BY DEF Owned
  <2>2. PICK g \in Handlers : Completes(g) /\ Session(g) = s
    BY <2>1 DEF Core, Owned
  <2>3. CASE g = h
    BY <2>1, <2>2, <2>3 DEF Session
  <2>4. CASE g # h
    BY <2>2, <2>4 DEF Session, Completes, Keeps
  <2>5. QED BY <2>3, <2>4
<1>3. ASSUME NEW g \in Handlers, g # h PROVE ParametersOK(g)'
  BY <1>3 DEF Core, ParametersOK, Session, Creates, Completes, Keeps
<1>4. ASSUME NEW g \in Handlers PROVE OwnerOK(g)'
  <2>1. ASSUME pc'[g] \in {"discard", "upsert"}
        PROVE  StillStored(uploads[req'[g].s].sha)
    <3>1. CASE g = h
      BY <2>1, <3>1
    <3>2. CASE g # h
      <4>1. /\ Stored(uploads[req[g].s].sha) /\ Found(uploads[req[g].s].sha)
            /\ req[g].s \in Sessions /\ uploads[req[g].s].status # "unused"
        BY <2>1, <3>2 DEF Core, OwnerOK, ParametersOK, Sha, Session, Keeps,
                          Completes, CompletePCs, Found
      <4>2. uploads[req[g].s].sha \in Shas
        BY <4>1 DEF Core, SessionOK
      <4>3. QED BY <3>2, <4>1, <4>2 DEF Keeps
    <3>3. QED BY <3>1, <3>2
  <2>2. ASSUME Creates(g)'
        PROVE  /\ uploads[req'[g].s].status = "named"
               /\ \A f \in Handlers : req'[f].s = req'[g].s => f = g
    <3>1. Creates(g) /\ req'[g].s = req[g].s
      BY <2>2 DEF Creates, Keeps
    <3>2. /\ uploads[req[g].s].status = "named" /\ req[g].s \in Sessions
          /\ \A f \in Handlers : req[f].s = req[g].s => f = g
      BY <3>1 DEF Core, OwnerOK, ParametersOK, Session
    <3>3. \A f \in Handlers : req'[f].s = req'[g].s => f = g
      BY <3>1, <3>2 DEF Keeps
    <3>4. QED BY <3>1, <3>2, <3>3
  <2>3. ASSUME Completes(g)'
        PROVE  /\ uploads[req'[g].s].status \in {"finalizing", "gone"}
               /\ \A f \in Handlers :
                     Completes(f)' /\ req'[f].s = req'[g].s => f = g
    <3>1. \A f \in Handlers :
             Completes(f)' => Completes(f) /\ req'[f].s = req[f].s
      BY DEF Completes, Keeps
    <3>2. QED BY <2>3, <3>1 DEF Core, OwnerOK, Session
  <2>4. QED BY <2>1, <2>2, <2>3
            DEF OwnerOK, Session, Sha, Stored, StillStored
<1>5. QED BY <1>1, <1>2, <1>3, <1>4 DEF SessionsHold, RequestsHold

\* Only the request h moves, files and sessions stay.
LEMMA RequestStep ==
    ASSUME Core, TypeOK', NEW h \in Handlers,
           UNCHANGED <<uploads, tmp, cas, swept>>, stranded \subseteq stranded',
           \A g \in Handlers : g # h => pc'[g] = pc[g] /\ req'[g] = req[g],
           ParametersOK(h)', HandleOK(h)',
           Creates(h)' => Creates(h) /\ req'[h].s = req[h].s,
           Completes(h)' => Completes(h) /\ req'[h].s = req[h].s,
           req'[h].s \in Sessions /\ req'[h].s # req[h].s =>
               uploads[req'[h].s].status = "open",
           pc'[h] \in {"discard", "upsert"} =>
               Stored(uploads[req'[h].s].sha),
           Completes(h) /\ ~Completes(h)' =>
               \/ uploads[req[h].s].status # "finalizing"
               \/ req[h].s \in stranded'
    PROVE  SessionsHold' /\ RequestsHold'
<1>1. \A g \in Handlers : HandleOK(g)'
  BY DEF Core, HandleOK, Session, Sha
<1>2. \A g \in Handlers : g # h => Keeps(g)
  BY DEF Keeps
<1>3. \A a \in Shas : Stored(a) => StillStored(a)
  BY DEF Stored, StillStored
<1>4. Stored(uploads[req'[h].s].sha) => StillStored(uploads[req'[h].s].sha)
  BY DEF Stored, StillStored
<1>5. QED BY <1>1, <1>2, <1>3, <1>4, FileStep

\* The status of session s changes, files stay.
LEMMA StatusStep ==
    ASSUME Core, TypeOK', NEW h, NEW s \in Sessions,
           UNCHANGED <<tmp, cas, swept>>, stranded \subseteq stranded',
           uploads[s].status # "unused",
           \A t \in Sessions :
              /\ uploads'[t].sha = uploads[t].sha
              /\ t # s => uploads'[t].status = uploads[t].status
              /\ uploads'[t].status \in {"unused", "named"} =>
                    /\ uploads'[t].status = uploads[t].status
                    /\ uploads'[t].expired = uploads[t].expired,
           \A g \in Handlers : g # h =>
              /\ pc'[g] = pc[g] /\ req'[g] = req[g]
              /\ Creates(g) /\ req[g].s = s =>
                    uploads'[s].status = uploads[s].status
              /\ Completes(g) /\ req[g].s = s =>
                    uploads'[s].status \in {"finalizing", "gone"},
           h \in Handlers =>
              /\ ParametersOK(h)' /\ HandleOK(h)' /\ OwnerOK(h)'
              /\ Completes(h) => req[h].s = s
              /\ req'[h].s \in Sessions => req'[h].s = s
              /\ \A g \in Handlers : g # h /\ (Creates(g) \/ Completes(g)) =>
                    req'[h].s # req[g].s,
           Owned(s)'
    PROVE  SessionsHold' /\ RequestsHold'
<1>1. ASSUME NEW t \in Sessions PROVE SessionOK(t)'
  <2>1. uploads'[t].status # "unused" => uploads[t].status # "unused"
    OBVIOUS
  <2>2. QED BY <2>1 DEF Core, SessionOK
<1>2. ASSUME NEW t \in Sessions PROVE Owned(t)'
  <2>1. CASE t = s
    BY <2>1
  <2>2. CASE t # s
    <3>1. SUFFICES ASSUME uploads'[t].status = "finalizing", t \notin stranded'
                   PROVE  \E g \in Handlers : Completes(g)' /\ Session(g)' = t
      BY DEF Owned
    <3>2. PICK g \in Handlers : Completes(g) /\ Session(g) = t
      BY <2>2, <3>1 DEF Core, Owned
    <3>3. g # h
      BY <2>2, <3>2 DEF Session
    <3>4. QED BY <3>2, <3>3 DEF Session, Completes
  <2>3. QED BY <2>1, <2>2
<1>3. ASSUME NEW g \in Handlers, g # h
      PROVE  ParametersOK(g)' /\ HandleOK(g)' /\ OwnerOK(g)'
  <2>1. ParametersOK(g)'
    BY <1>3 DEF Core, ParametersOK, Session, Creates, Completes
  <2>2. HandleOK(g)'
    <3>1. req'[g] = req[g] /\ pc'[g] = pc[g] /\ HandleOK(g) /\ ParametersOK(g)
      BY <1>3 DEF Core
    <3>2. pc[g] = "write" => req[g].s \in Sessions
      BY <3>1 DEF ParametersOK, PutPCs, Session
    <3>3. QED BY <3>1, <3>2 DEF HandleOK, Session, Sha
  <2>3. OwnerOK(g)'
    <3>1. /\ req'[g] = req[g] /\ pc'[g] = pc[g] /\ OwnerOK(g)
          /\ Creates(g) \/ Completes(g) => req[g].s \in Sessions
      BY <1>3 DEF Core, ParametersOK, Session
    <3>2. ASSUME Creates(g)
          PROVE  /\ uploads'[req[g].s].status = "named"
                 /\ \A f \in Handlers : req'[f].s = req[g].s => f = g
      BY <1>3, <3>1, <3>2 DEF OwnerOK, Session
    <3>3. ASSUME Completes(g)
          PROVE  /\ uploads'[req[g].s].status \in {"finalizing", "gone"}
                 /\ \A f \in Handlers :
                       Completes(f)' /\ req'[f].s = req[g].s => f = g
      <4>1. uploads'[req[g].s].status \in {"finalizing", "gone"}
        BY <1>3, <3>1, <3>3 DEF OwnerOK, Session
      <4>2. ASSUME NEW f \in Handlers, Completes(f)', req'[f].s = req[g].s
            PROVE  f = g
        <5>1. f # h
          BY <1>3, <3>1, <3>3, <4>2
        <5>2. QED BY <3>1, <3>3, <4>2, <5>1 DEF OwnerOK, Session, Completes
      <4>3. QED BY <4>1, <4>2
    <3>4. pc[g] \in {"discard", "upsert"} =>
             Completes(g) /\ Stored(uploads[req[g].s].sha)
      BY <3>1 DEF OwnerOK, Sha, Session, Completes, CompletePCs
    <3>5. Creates(g)' = Creates(g) /\ Completes(g)' = Completes(g)
      BY <3>1 DEF Creates, Completes
    <3>6. QED BY <3>1, <3>2, <3>3, <3>4, <3>5
              DEF OwnerOK, Session, Sha, Stored
  <2>4. QED BY <2>1, <2>2, <2>3
<1>4. QED BY <1>1, <1>2, <1>3 DEF SessionsHold, RequestsHold

-----------------------------------------------------------------------------
(* Type correctness                                                         *)

LEMMA InitHolds == Init => Core
<1>1. ASSUME Init PROVE TypeOK
  BY <1>1, UploadAssumption, RequestFacts
     DEF Init, TypeOK, Upload, NoUpload, NoFile, PCs
<1>2. ASSUME Init PROVE Core
  BY <1>1, <1>2, RequestFacts
     DEF Init, Core, NoUpload, SessionOK, Owned, ParametersOK, HandleOK,
         OwnerOK, DocHasFileUnlessSwept, Creates, Completes, PutPCs, CompletePCs,
         Session
<1>3. QED BY <1>2

\* Moving on and answering keep the places and parameters well formed.
LEMMA GotoFacts ==
    ASSUME TypeOK, NEW h \in Handlers
    PROVE  /\ \A l \in PCs : Goto(h, l) =>
                 /\ pc' \in [Handlers -> PCs] /\ req' = req /\ pc'[h] = l
                 /\ \A g \in Handlers : g # h => pc'[g] = pc[g]
           /\ Return(h) =>
                 /\ pc' \in [Handlers -> PCs] /\ req' \in [Handlers -> Request]
                 /\ pc'[h] = "idle" /\ req'[h] = NoRequest
                 /\ \A g \in Handlers : g # h =>
                       pc'[g] = pc[g] /\ req'[g] = req[g]
           /\ \A l \in PCs, r \in Request : Start(h, l, r) =>
                 /\ pc' \in [Handlers -> PCs] /\ req' \in [Handlers -> Request]
                 /\ pc'[h] = l /\ req'[h] = r
                 /\ \A g \in Handlers : g # h =>
                       pc'[g] = pc[g] /\ req'[g] = req[g]
<1>1. /\ NoRequest \in Request /\ "idle" \in PCs
      /\ pc \in [Handlers -> PCs] /\ req \in [Handlers -> Request]
  BY RequestFacts DEF PCs, TypeOK
<1>2. QED BY <1>1 DEF Goto, Return, Start

-----------------------------------------------------------------------------
(* Every action keeps the invariant                                         *)

LEMMA InvParts ==
    /\ Core <=> TypeOK /\ SessionsHold /\ RequestsHold /\ DocHasFileUnlessSwept
    /\ Core' <=> TypeOK' /\ SessionsHold' /\ RequestsHold' /\ DocHasFileUnlessSwept'
BY DEF Core, SessionsHold, RequestsHold

\* Answering ends a request that does not finalize a live session.
LEMMA Answered ==
    ASSUME Core, NEW h \in Handlers, Return(h),
           UNCHANGED <<uploads, tmp, cas, removed, late, sweep, swept>>,
           docs' = docs, stranded' \subseteq Sessions, faults' \in Nat,
           stranded \subseteq stranded',
           Completes(h) => \/ uploads[req[h].s].status # "finalizing"
                           \/ req[h].s \in stranded'
    PROVE  Core'
<1>1. /\ TypeOK' /\ pc'[h] = "idle" /\ req'[h] = NoRequest
      /\ \A g \in Handlers : g # h => pc'[g] = pc[g] /\ req'[g] = req[g]
  BY GotoFacts DEF Core, TypeOK
<1>2. SessionsHold' /\ RequestsHold'
  <2>1. /\ ParametersOK(h)' /\ HandleOK(h)' /\ ~Creates(h)' /\ ~Completes(h)'
        /\ req'[h].s \notin Sessions
    BY <1>1, RequestFacts, UploadAssumption
       DEF ParametersOK, HandleOK, Creates, Completes, PutPCs, CompletePCs,
           Session
  <2>2. QED BY <1>1, <2>1, RequestStep
<1>3. DocHasFileUnlessSwept'
  BY DEF Core, DocHasFileUnlessSwept
<1>4. QED BY <1>1, <1>2, <1>3, InvParts

\* The move of a request that keeps its parameters, between two places where
\* it holds no handle.
LEMMA Moved ==
    ASSUME Core, NEW h \in Handlers, NEW l \in PCs, Goto(h, l),
           UNCHANGED <<uploads, tmp, cas, removed, late, sweep, swept>>, stranded' = stranded,
           docs' \subseteq Shas, DocHasFileUnlessSwept', faults' \in Nat,
           pc[h] # "write", l \notin {"idle", "find", "mkTmp", "insert"},
           \/ pc[h] \in PutPCs /\ l \in PutPCs
           \/ Completes(h) /\ l \in CompletePCs,
           l \in {"discard", "upsert"} => Stored(Sha(h))
    PROVE  Core'
<1>1. /\ TypeOK' /\ pc'[h] = l /\ req' = req
      /\ \A g \in Handlers : g # h => pc'[g] = pc[g]
  BY GotoFacts DEF Core, TypeOK
<1>2. SessionsHold' /\ RequestsHold'
  <2>1. Completes(h)' => Completes(h)
    BY <1>1 DEF Completes, PutPCs, CompletePCs
  <2>2. Completes(h) => Completes(h)'
    BY <1>1 DEF Completes, PutPCs, CompletePCs
  <2>3. ~Creates(h)' /\ HandleOK(h)'
    BY <1>1 DEF Core, HandleOK, Creates
  <2>5. ParametersOK(h)'
    <3>1. CASE Completes(h) /\ l \in CompletePCs
      <4>1. l \notin PutPCs /\ l # "find" /\ ~Creates(h)'
        BY <1>1, <3>1 DEF PutPCs, CompletePCs, Creates
      <4>2. QED BY <1>1, <3>1, <4>1 DEF Core, ParametersOK, Session
    <3>2. CASE pc[h] \in PutPCs /\ l \in PutPCs
      <4>1. l # "find" BY <3>2 DEF PutPCs
      <4>2. QED BY <1>1, <3>2, <4>1 DEF Core, ParametersOK, Session
    <3>3. QED BY <3>1, <3>2
  <2>4. QED BY <1>1, <2>1, <2>2, <2>3, <2>5, RequestStep DEF Sha, Session
<1>3. QED BY <1>1, <1>2, InvParts

LEMMA BeginKeeps ==
    ASSUME Core, NEW h \in Handlers, NEW u \in Users, NEW a \in Shas,
           Begin(h, u, a)
    PROVE  Core'
<1> DEFINE r == [NoRequest EXCEPT !.sha = a, !.user = u]
<1>1. /\ r \in Request /\ r.sha = a /\ r.user = u /\ r.s = None
      /\ r.handle = "none"
  BY DEF Request, NoRequest
<1>2. "find" \in PCs
  BY DEF PCs, InitPCs
<1>3. /\ TypeOK' /\ pc'[h] = "find" /\ req'[h] = r
      /\ \A g \in Handlers : g # h => pc'[g] = pc[g] /\ req'[g] = req[g]
  BY <1>1, <1>2, GotoFacts DEF Begin, Core, TypeOK
<1>4. pc[h] = "idle"
  BY DEF Begin, Start
<1>5. SessionsHold' /\ RequestsHold'
  <2>1. /\ ParametersOK(h)' /\ HandleOK(h)' /\ ~Creates(h)' /\ ~Completes(h)'
        /\ req'[h].s \notin Sessions /\ ~Completes(h)
    BY <1>1, <1>3, <1>4, UploadAssumption
       DEF ParametersOK, HandleOK, Creates, Completes, PutPCs, CompletePCs,
           Session
  <2>2. QED BY <1>3, <2>1, RequestStep DEF Begin
<1>6. DocHasFileUnlessSwept'
  BY DEF Core, DocHasFileUnlessSwept, Begin
<1>7. QED BY <1>3, <1>5, <1>6, InvParts

LEMMA PutKeeps ==
    ASSUME Core, NEW h \in Handlers, NEW s \in Sessions, NEW c \in Chunks,
           NEW b \in Bytes, Put(h, s, c, b)
    PROVE  Core'
<1> DEFINE r == [NoRequest EXCEPT !.s = s, !.chunk = c, !.byte = b]
<1>1. r \in Request /\ r.s = s /\ r.chunk = c /\ r.byte = b /\ r.handle = "none"
  BY DEF Request, NoRequest
<1>2. "open" \in PCs
  BY DEF PCs, PutPCs
<1>3. /\ TypeOK' /\ pc'[h] = "open" /\ req'[h] = r
      /\ \A g \in Handlers : g # h => pc'[g] = pc[g] /\ req'[g] = req[g]
  BY <1>1, <1>2, GotoFacts DEF Put, Core, TypeOK
<1>4. pc[h] = "idle" /\ uploads[s].status = "open" /\ uploads' = uploads
  BY DEF Put, Start, Usable
<1>5. SessionsHold' /\ RequestsHold'
  <2>1. /\ ParametersOK(h)' /\ HandleOK(h)' /\ ~Creates(h)' /\ ~Completes(h)'
        /\ ~Completes(h)
    BY <1>1, <1>3, <1>4
       DEF ParametersOK, HandleOK, Creates, Completes, PutPCs, CompletePCs,
           Session
  <2>2. QED BY <1>1, <1>3, <1>4, <2>1, RequestStep DEF Put
<1>6. DocHasFileUnlessSwept'
  BY DEF Core, DocHasFileUnlessSwept, Put
<1>7. QED BY <1>3, <1>5, <1>6, InvParts

LEMMA FindKeeps ==
    ASSUME Core, NEW h \in Handlers, Find(h)
    PROVE  Core'
<1>1. /\ pc[h] = "find" /\ ~Creates(h) /\ ~Completes(h)
      /\ req[h].sha \in Shas /\ req[h].user \in Users
  BY DEF Find, Core, ParametersOK, Creates, Completes, CompletePCs
<1>2. CASE Return(h) /\ UNCHANGED uploads
  BY <1>1, <1>2, Answered DEF Find, Core, TypeOK
<1>3. ASSUME NEW s \in Sessions, uploads[s].status = "unused",
             uploads' = [uploads EXCEPT ![s] =
                 [NoUpload EXCEPT !.status = "named", !.sha = req[h].sha,
                                  !.user = req[h].user]],
             pc' = [pc EXCEPT ![h] = "mkTmp"],
             req' = [req EXCEPT ![h].s = s]
      PROVE  Core'
  <2>1. /\ uploads' \in [Sessions -> Upload]
        /\ uploads'[s].status = "named" /\ uploads'[s].sha = req[h].sha
        /\ uploads'[s].expired = FALSE
        /\ \A t \in Sessions \ {s} : uploads'[t] = uploads[t]
    BY <1>1, <1>3, DrawFacts DEF Core, TypeOK
  <2>2. /\ req' \in [Handlers -> Request]
        /\ \A g \in Handlers : g # h => req'[g] = req[g]
        /\ req'[h].s = s /\ req'[h].handle = req[h].handle
    BY <1>3, SessionFacts DEF Core, TypeOK
  <2>3. /\ pc' \in [Handlers -> PCs] /\ pc'[h] = "mkTmp"
        /\ \A g \in Handlers : g # h => pc'[g] = pc[g]
    BY <1>3 DEF Core, TypeOK, PCs, InitPCs
  <2>4. TypeOK'
    BY <2>1, <2>2, <2>3 DEF Find, Core, TypeOK
  <2>5. SessionsHold'
    <3>1. ASSUME NEW t \in Sessions PROVE SessionOK(t)'
      BY <1>1, <2>1 DEF Core, SessionOK
    <3>2. ASSUME NEW t \in Sessions PROVE Owned(t)'
      <4>1. SUFFICES ASSUME uploads'[t].status = "finalizing", t \notin stranded'
                     PROVE  \E g \in Handlers : Completes(g)' /\ Session(g)' = t
        BY DEF Owned
      <4>2. t # s /\ uploads'[t] = uploads[t] /\ stranded' = stranded
        BY <2>1, <4>1 DEF Find
      <4>3. PICK g \in Handlers : Completes(g) /\ Session(g) = t
        BY <4>1, <4>2 DEF Core, Owned
      <4>4. g # h
        BY <1>1, <4>3
      <4>5. QED BY <2>2, <2>3, <4>3, <4>4 DEF Completes, Session
    <3>3. QED BY <3>1, <3>2 DEF SessionsHold
  <2>6. ASSUME NEW g \in Handlers, g # h
        PROVE  /\ ParametersOK(g)' /\ HandleOK(g)' /\ OwnerOK(g)'
               /\ Creates(g) \/ Completes(g) => req[g].s # s
    <3>1. /\ req'[g] = req[g] /\ pc'[g] = pc[g]
          /\ ParametersOK(g) /\ HandleOK(g) /\ OwnerOK(g)
          /\ UNCHANGED <<tmp, cas, swept>>
      BY <2>2, <2>3, <2>6 DEF Core, Find
    <3>2. Creates(g) \/ pc[g] \in PutPCs \/ Completes(g) =>
             /\ req[g].s \in Sessions /\ req[g].s # s
             /\ uploads'[req[g].s] = uploads[req[g].s]
      BY <1>3, <2>1, <3>1 DEF ParametersOK, Session
    <3>3. ParametersOK(g)'
      BY <3>1, <3>2 DEF ParametersOK, Session, Creates, Completes
    <3>4. HandleOK(g)'
      BY <3>1, <3>2 DEF HandleOK, Session, Sha, PutPCs
    <3>5. OwnerOK(g)'
      <4>1. \A f \in Handlers : Completes(f)' => Completes(f) /\ f # h
        BY <2>3 DEF Completes, CompletePCs
      <4>2. \A f \in Handlers : req'[f].s = req[f].s \/ f = h
        BY <2>2
      <4>3. Creates(g)' = Creates(g) /\ Completes(g)' = Completes(g)
        BY <3>1 DEF Creates, Completes
      <4>4. pc[g] \in {"discard", "upsert"} => Completes(g)
        BY DEF Completes, CompletePCs
      <4>5. ASSUME Creates(g)
            PROVE  /\ uploads'[req'[g].s].status = "named"
                   /\ \A f \in Handlers : req'[f].s = req'[g].s => f = g
        BY <2>2, <3>1, <3>2, <4>2, <4>5 DEF OwnerOK, Session
      <4>6. ASSUME Completes(g)
            PROVE  /\ uploads'[req'[g].s].status \in {"finalizing", "gone"}
                   /\ \A f \in Handlers :
                         Completes(f)' /\ req'[f].s = req'[g].s => f = g
        BY <3>1, <3>2, <4>1, <4>2, <4>6 DEF OwnerOK, Session
      <4>7. pc'[g] \in {"discard", "upsert"} =>
               StillStored(uploads'[req'[g].s].sha)
        BY <3>1, <3>2, <4>4
           DEF OwnerOK, Session, Sha, Stored, StillStored, Find
      <4>8. QED BY <4>3, <4>5, <4>6, <4>7
                DEF OwnerOK, Session, Sha, Stored, StillStored
    <3>6. QED BY <3>2, <3>3, <3>4, <3>5
  <2>7. ParametersOK(h)' /\ HandleOK(h)' /\ OwnerOK(h)'
    <3>1. ParametersOK(h)' /\ HandleOK(h)' /\ ~Completes(h)'
      BY <1>1, <2>1, <2>2, <2>3
         DEF Core, ParametersOK, HandleOK, Session, Creates, Completes,
             PutPCs, CompletePCs
    <3>2. \A g \in Handlers :
             \/ pc[g] \in {"idle", "find"}
             \/ Creates(g) \/ pc[g] \in PutPCs \/ Completes(g)
      BY DEF Core, TypeOK, PCs, InitPCs, Creates, Completes
    <3>3. \A g \in Handlers : req[g].s # s
      BY <1>3, <3>2, UploadAssumption DEF Core, ParametersOK, Session
    <3>4. QED BY <2>1, <2>2, <2>3, <3>1, <3>3 DEF OwnerOK, Session, Sha
  <2>8. DocHasFileUnlessSwept'
    BY DEF Core, DocHasFileUnlessSwept, Find
  <2>9. QED BY <2>4, <2>5, <2>6, <2>7, <2>8, InvParts DEF RequestsHold
<1>4. QED BY <1>2, <1>3 DEF Find

\* Steps of complete, and a chunk request that finds no file.
LEMMA MovesKeep ==
    ASSUME Core, NEW h \in Handlers,
           Hash(h) \/ Exists(h) \/ LostRace(h) \/ Upsert(h)
    PROVE  Core'
<1>1. CASE Hash(h)
  <2>1. PICK l \in {"release", "exists", "dropTmp"} : Goto(h, l)
    BY <1>1 DEF Hash
  <2>2. QED BY <1>1, <2>1, Moved
        DEF Hash, Core, TypeOK, DocHasFileUnlessSwept, PCs, CompletePCs, PutPCs, Completes
<1>2. CASE Exists(h)
  <2>1. PICK l \in {"discard", "rename"} :
            Goto(h, l) /\ (l = "discard" => Stored(Sha(h)))
    BY <1>2 DEF Exists, Stored
  <2>2. QED BY <1>2, <2>1, Moved
        DEF Exists, Core, TypeOK, DocHasFileUnlessSwept, PCs, CompletePCs, PutPCs, Completes
<1>3. CASE LostRace(h)
  <2>1. PICK l \in {"discard", "release"} :
            Goto(h, l) /\ (l = "discard" => Stored(Sha(h)))
    BY <1>3 DEF LostRace, Stored
  <2>2. QED BY <1>3, <2>1, Moved
        DEF LostRace, Core, TypeOK, DocHasFileUnlessSwept, PCs, CompletePCs, PutPCs,
            Completes
<1>4. CASE Upsert(h)
  <2>1. Stored(Sha(h)) /\ Sha(h) \in Shas
    BY <1>4 DEF Upsert, Core, OwnerOK, ParametersOK, SessionOK, Completes,
                CompletePCs, Sha, Session
  <2>2. docs' \subseteq Shas /\ DocHasFileUnlessSwept'
    BY <1>4, <2>1 DEF Upsert, Core, TypeOK, DocHasFileUnlessSwept, Stored
  <2>3. QED BY <1>4, <2>2, Moved
        DEF Upsert, Core, TypeOK, PCs, CompletePCs, PutPCs, Completes
<1>5. QED BY <1>1, <1>2, <1>3, <1>4

LEMMA OpenKeeps ==
    ASSUME Core, NEW h \in Handlers, Open(h)
    PROVE  Core'
<1>1. CASE Goto(h, "recreate")
  <2>1. /\ pc[h] = "open"
        /\ UNCHANGED <<uploads, tmp, cas, docs, faults, removed, stranded, late, sweep, swept>>
    BY DEF Open
  <2>2. PICK l \in {"recreate"} : Goto(h, l)
    BY <1>1
  <2>3. QED BY <2>1, <2>2, Moved
        DEF Core, TypeOK, DocHasFileUnlessSwept, PCs, CompletePCs, PutPCs, Completes
<1>2. CASE ~Goto(h, "recreate")
  <2>1. /\ pc[h] = "open" /\ tmp[Session(h)] # NoFile
        /\ pc' = [pc EXCEPT ![h] = "write"]
        /\ req' = [req EXCEPT ![h].handle = "tmp"]
        /\ UNCHANGED <<uploads, tmp, cas, docs, faults, removed, stranded, late, sweep, swept>>
    BY <1>2 DEF Open
  <2>2. /\ req' \in [Handlers -> Request] /\ req'[h].handle = "tmp"
        /\ \A g \in Handlers : g # h => req'[g] = req[g]
        /\ req'[h].s = req[h].s /\ req'[h].chunk = req[h].chunk
        /\ req'[h].byte = req[h].byte
    BY <2>1, HandleFacts DEF Core, TypeOK
  <2>3. /\ pc' \in [Handlers -> PCs] /\ pc'[h] = "write"
        /\ \A g \in Handlers : g # h => pc'[g] = pc[g]
    BY <2>1 DEF Core, TypeOK, PCs, PutPCs
  <2>4. TypeOK'
    BY <2>1, <2>2, <2>3 DEF Core, TypeOK
  <2>5. /\ ParametersOK(h)' /\ HandleOK(h)' /\ ~Creates(h)' /\ ~Completes(h)'
        /\ ~Completes(h)
    BY <2>1, <2>2, <2>3
       DEF Core, ParametersOK, HandleOK, Session, Creates, Completes, PutPCs,
           CompletePCs
  <2>6. SessionsHold' /\ RequestsHold'
    BY <2>1, <2>2, <2>3, <2>4, <2>5, RequestStep
  <2>7. DocHasFileUnlessSwept'
    BY <2>1 DEF Core, DocHasFileUnlessSwept
  <2>8. QED BY <2>4, <2>6, <2>7, InvParts
<1>3. QED BY <1>1, <1>2

LEMMA FailKeeps ==
    ASSUME Core, NEW h \in Handlers, Fail(h)
    PROVE  Core'
<1>1. faults' \in Nat /\ UNCHANGED <<uploads, tmp, cas, docs, removed, late, sweep, swept>>
  BY DEF Fail, Core, TypeOK
<1>2. CASE pc[h] \in DOMAIN FailsTo
  <2>1. PICK l \in {"release", "rename", "lostRace", "dropDoc"} :
            Goto(h, l) /\ UNCHANGED stranded
    BY <1>2 DEF Fail, FailsTo
  <2>2. pc[h] \in {"hash", "exists", "discard", "rename", "lostRace", "dropTmp"}
    BY <1>2 DEF FailsTo
  <2>3. QED BY <1>1, <2>1, <2>2, Moved
        DEF Core, TypeOK, DocHasFileUnlessSwept, PCs, CompletePCs, PutPCs, Completes
<1>3. CASE pc[h] \notin DOMAIN FailsTo
  <2>1. /\ Return(h)
        /\ stranded' = IF pc[h] \in CompletePCs
                       THEN stranded \cup {Session(h)} ELSE stranded
    BY <1>3 DEF Fail
  <2>2. Completes(h) => Session(h) \in Sessions
    BY DEF Core, ParametersOK
  <2>3. QED BY <1>1, <2>1, <2>2, Answered
        DEF Core, TypeOK, Completes, Session
<1>4. QED BY <1>2, <1>3

LEMMA CrashKeeps ==
    ASSUME Core, Crash
    PROVE  Core'
<1>1. /\ \A h \in Handlers : pc'[h] = "idle" /\ req'[h] = NoRequest
      /\ UNCHANGED <<uploads, tmp, cas, docs, removed, late, swept>>
      /\ sweep' \in [Collectors -> Shas \cup {None}]
  BY DEF Crash
<1>2. \A h \in Handlers : Completes(h) =>
         Session(h) \in Sessions /\ Session(h) \in stranded'
  BY DEF Crash, Core, ParametersOK, Completes
<1>3. TypeOK'
  <2>1. stranded' \subseteq Sessions
    BY <1>2 DEF Crash, Core, TypeOK, Completes
  <2>2. pc' \in [Handlers -> PCs] /\ req' \in [Handlers -> Request]
    BY RequestFacts DEF Crash, PCs
  <2>3. QED BY <1>1, <2>1, <2>2 DEF Crash, Core, TypeOK
<1>4. SessionsHold'
  BY <1>1, <1>2 DEF Crash, Core, SessionsHold, SessionOK, Owned
<1>5. RequestsHold'
  BY <1>1, RequestFacts
     DEF RequestsHold, ParametersOK, HandleOK, OwnerOK, Creates, Completes,
         Session, PutPCs, CompletePCs
<1>6. DocHasFileUnlessSwept'
  BY <1>1 DEF Core, DocHasFileUnlessSwept
<1>7. QED BY <1>3, <1>4, <1>5, <1>6, InvParts

\* A session gets its document, is claimed, deleted or released.
LEMMA InsertKeeps ==
    ASSUME Core, NEW h \in Handlers, Insert(h)
    PROVE  Core'
<1>0. PICK s \in Sessions : s = req[h].s
  BY DEF Insert, Core, ParametersOK, Creates, Session
<1>1. /\ pc[h] = "insert" /\ Creates(h) /\ ~Completes(h)
      /\ uploads[s].status = "named"
      /\ \A g \in Handlers : req[g].s = s => g = h
      /\ SetStatus(s, "open") /\ Return(h)
      /\ UNCHANGED <<tmp, cas, docs, faults, removed, stranded, late, sweep, swept>>
  BY <1>0 DEF Insert, Core, ParametersOK, OwnerOK, Creates, Completes, CompletePCs,
         Session
<1>2. /\ uploads' \in [Sessions -> Upload]
      /\ \A t \in Sessions :
            /\ uploads'[t].status = IF t = s THEN "open" ELSE uploads[t].status
            /\ uploads'[t].sha = uploads[t].sha
            /\ uploads'[t].expired = uploads[t].expired
  BY <1>1, SetStatusFacts DEF Core, TypeOK, Statuses
<1>3. /\ TypeOK' /\ pc'[h] = "idle" /\ req'[h] = NoRequest
      /\ \A g \in Handlers : g # h => pc'[g] = pc[g] /\ req'[g] = req[g]
  BY <1>1, <1>2, GotoFacts DEF Core, TypeOK
<1>4. /\ ParametersOK(h)' /\ HandleOK(h)' /\ OwnerOK(h)'
      /\ req'[h].s \notin Sessions /\ req'[h].s = None
  BY <1>3, RequestFacts, UploadAssumption
     DEF ParametersOK, HandleOK, OwnerOK, Creates, Completes, PutPCs,
         CompletePCs, Session
<1>5. \A g \in Handlers : Creates(g) \/ Completes(g) => req[g].s # None
  BY UploadAssumption DEF Core, ParametersOK, Session
<1>6. Owned(s)'
  BY <1>1, <1>2 DEF Owned
<1>7. SessionsHold' /\ RequestsHold'
  BY <1>0, <1>1, <1>2, <1>3, <1>4, <1>5, <1>6, StatusStep
<1>8. DocHasFileUnlessSwept'
  BY <1>1 DEF Core, DocHasFileUnlessSwept
<1>9. QED BY <1>3, <1>7, <1>8, InvParts

LEMMA ClaimKeeps ==
    ASSUME Core, NEW h \in Handlers, NEW s \in Sessions, Claim(h, s)
    PROVE  Core'
<1> DEFINE r == [NoRequest EXCEPT !.s = s]
<1>1. /\ r \in Request /\ r.s = s /\ r.handle = "none"
  BY DEF Request, NoRequest
<1>2. PICK l \in {"hash", "release"} : Start(h, l, r)
  BY DEF Claim
<1>3. /\ pc[h] = "idle" /\ ~Creates(h) /\ ~Completes(h)
      /\ uploads[s].status = "open" /\ SetStatus(s, "finalizing")
      /\ UNCHANGED <<tmp, cas, docs, faults, removed, stranded, late, sweep, swept>>
  BY DEF Claim, Start, Usable, Creates, Completes, CompletePCs
<1>4. /\ uploads' \in [Sessions -> Upload]
      /\ \A t \in Sessions :
            /\ uploads'[t].status = IF t = s THEN "finalizing"
                                             ELSE uploads[t].status
            /\ uploads'[t].sha = uploads[t].sha
            /\ uploads'[t].expired = uploads[t].expired
  BY <1>3, SetStatusFacts DEF Core, TypeOK, Statuses
<1> HIDE DEF r
<1>5. /\ TypeOK' /\ pc'[h] = l /\ req'[h] = r /\ l \in CompletePCs
      /\ \A g \in Handlers : g # h => pc'[g] = pc[g] /\ req'[g] = req[g]
  BY <1>1, <1>2, <1>3, <1>4, GotoFacts DEF Core, TypeOK, PCs, CompletePCs
<1>6. \A g \in Handlers : Creates(g) \/ Completes(g) => req[g].s # s
  BY <1>3 DEF Core, OwnerOK, Session
<1>7. \A g \in Handlers : g # h => Completes(g)' = Completes(g)
  BY <1>5 DEF Completes
<1>8. ParametersOK(h)' /\ HandleOK(h)' /\ Completes(h)' /\ ~Creates(h)'
  BY <1>1, <1>2, <1>4, <1>5
     DEF ParametersOK, HandleOK, Creates, Completes, PutPCs, CompletePCs,
         Session
<1>9. OwnerOK(h)'
  BY <1>1, <1>2, <1>4, <1>5, <1>6, <1>7, <1>8 DEF OwnerOK, Session
<1>10. Owned(s)'
  BY <1>1, <1>5, <1>8 DEF Owned, Session
<1>11. SessionsHold' /\ RequestsHold'
  BY <1>1, <1>3, <1>4, <1>5, <1>6, <1>8, <1>9, <1>10, StatusStep
<1>12. DocHasFileUnlessSwept'
  BY <1>3 DEF Core, DocHasFileUnlessSwept
<1>13. QED BY <1>5, <1>11, <1>12, InvParts

\* The last step of complete: its session is deleted or reopened.
LEMMA EndKeeps ==
    ASSUME Core, NEW h \in Handlers, Finish(h) \/ Release(h)
    PROVE  Core'
<1>0. PICK s \in Sessions : s = req[h].s
  BY DEF Finish, Release, Core, ParametersOK, Completes, CompletePCs, Session
<1>1. /\ Completes(h) /\ ~Creates(h) /\ Return(h)
      /\ uploads[s].status \in {"finalizing", "gone"}
      /\ \A g \in Handlers : Completes(g) /\ req[g].s = s => g = h
      /\ UNCHANGED <<tmp, cas, docs, faults, removed, stranded, late, sweep, swept>>
  BY <1>0 DEF Finish, Release, Core, ParametersOK, OwnerOK, Creates, Completes,
         CompletePCs, Session
<1>2. \/ uploads' = uploads /\ uploads[s].status = "gone"
      \/ SetStatus(s, "gone")
      \/ SetStatus(s, "open")
  BY <1>0 DEF Finish, Release, Session
<1>3. /\ uploads' \in [Sessions -> Upload]
      /\ uploads'[s].status \in {"gone", "open"}
      /\ \A t \in Sessions :
            /\ t # s => uploads'[t].status = uploads[t].status
            /\ uploads'[t].sha = uploads[t].sha
            /\ uploads'[t].expired = uploads[t].expired
  BY <1>1, <1>2, SetStatusFacts DEF Core, TypeOK, Statuses
<1>4. /\ TypeOK' /\ pc'[h] = "idle" /\ req'[h] = NoRequest
      /\ \A g \in Handlers : g # h => pc'[g] = pc[g] /\ req'[g] = req[g]
  BY <1>1, <1>3, GotoFacts DEF Core, TypeOK
<1>5. /\ ParametersOK(h)' /\ HandleOK(h)' /\ OwnerOK(h)'
      /\ req'[h].s \notin Sessions /\ req'[h].s = None
  BY <1>4, RequestFacts, UploadAssumption
     DEF ParametersOK, HandleOK, OwnerOK, Creates, Completes, PutPCs,
         CompletePCs, Session
<1>6. \A g \in Handlers : Creates(g) \/ Completes(g) => req[g].s # None
  BY UploadAssumption DEF Core, ParametersOK, Session
<1>7. \A g \in Handlers : Creates(g) => req[g].s # s
  BY <1>1 DEF Core, OwnerOK, Session
<1>8. Owned(s)'
  BY <1>3 DEF Owned
<1>9. SessionsHold' /\ RequestsHold'
  BY <1>0, <1>1, <1>3, <1>4, <1>5, <1>6, <1>7, <1>8, StatusStep
<1>10. DocHasFileUnlessSwept'
  BY <1>1 DEF Core, DocHasFileUnlessSwept
<1>11. QED BY <1>4, <1>9, <1>10, InvParts

LEMMA MarkKeeps ==
    ASSUME Core, NEW h \in Handlers, Mark(h)
    PROVE  Core'
<1>0. PICK s \in Sessions : s = req[h].s
  BY DEF Mark, Core, ParametersOK, PutPCs, Session
<1>1. /\ uploads[s].status # "unused" /\ req[h].chunk \in Chunks
      /\ ~Creates(h) /\ ~Completes(h) /\ Return(h)
      /\ \A g \in Handlers : Creates(g) => req[g].s # s
      /\ UNCHANGED <<tmp, cas, docs, faults, removed, stranded, late, sweep, swept>>
  BY <1>0 DEF Mark, Core, ParametersOK, OwnerOK, PutPCs, Creates, Completes,
              CompletePCs, Session
<1>2. \/ uploads' = uploads
      \/ uploads' = [uploads EXCEPT ![s].received = @ \cup {req[h].chunk}]
  BY <1>0 DEF Mark, Session
<1>3. /\ uploads' \in [Sessions -> Upload]
      /\ \A t \in Sessions :
            /\ uploads'[t].status = uploads[t].status
            /\ uploads'[t].sha = uploads[t].sha
            /\ uploads'[t].expired = uploads[t].expired
  BY <1>1, <1>2, MarkFacts DEF Core, TypeOK
<1>4. /\ TypeOK' /\ pc'[h] = "idle" /\ req'[h] = NoRequest
      /\ \A g \in Handlers : g # h => pc'[g] = pc[g] /\ req'[g] = req[g]
  BY <1>1, <1>3, GotoFacts DEF Core, TypeOK
<1>5. /\ ParametersOK(h)' /\ HandleOK(h)' /\ OwnerOK(h)'
      /\ req'[h].s \notin Sessions /\ req'[h].s = None
  BY <1>4, RequestFacts, UploadAssumption
     DEF ParametersOK, HandleOK, OwnerOK, Creates, Completes, PutPCs,
         CompletePCs, Session
<1>6. \A g \in Handlers : Creates(g) \/ Completes(g) => req[g].s # None
  BY UploadAssumption DEF Core, ParametersOK, Session
<1>7. Owned(s)'
  <2>1. SUFFICES ASSUME uploads[s].status = "finalizing", s \notin stranded
                 PROVE  \E g \in Handlers : Completes(g)' /\ Session(g)' = s
    BY <1>1, <1>3 DEF Owned
  <2>2. PICK g \in Handlers : Completes(g) /\ Session(g) = s
    BY <2>1 DEF Core, Owned
  <2>3. QED BY <1>1, <1>4, <2>2 DEF Completes, Session
<1>8. \A g \in Handlers : Completes(g) /\ req[g].s = s =>
         uploads'[s].status \in {"finalizing", "gone"}
  BY <1>3 DEF Core, OwnerOK, Session
<1>9. SessionsHold' /\ RequestsHold'
  BY <1>0, <1>1, <1>3, <1>4, <1>5, <1>6, <1>7, <1>8, StatusStep
<1>10. DocHasFileUnlessSwept'
  BY <1>1 DEF Core, DocHasFileUnlessSwept
<1>11. QED BY <1>4, <1>9, <1>10, InvParts

\* Time passes for a session, and the TTL index deletes it.
LEMMA ExpiryKeeps ==
    ASSUME Core, NEW s \in Sessions, Expire(s) \/ Ttl(s)
    PROVE  Core'
<1>1. /\ uploads[s].status \notin {"unused", "named"}
      /\ UNCHANGED <<tmp, cas, docs, pc, req, faults, removed, stranded, late, sweep, swept>>
  BY DEF Expire, Ttl, Core, SessionOK
<1>2. /\ uploads' \in [Sessions -> Upload]
      /\ uploads'[s].status \in {"gone", uploads[s].status}
      /\ \A t \in Sessions :
            /\ t # s => uploads'[t].status = uploads[t].status
            /\ t # s => uploads'[t].expired = uploads[t].expired
            /\ uploads'[t].sha = uploads[t].sha
  BY SetStatusFacts, ExpireFacts DEF Expire, Ttl, Core, TypeOK, Statuses
<1>3. TypeOK'
  BY <1>1, <1>2 DEF Core, TypeOK
<1>4. PICK x : x \notin Handlers
  BY NoSetContainsEverything
<1>5. \A g \in Handlers :
         /\ Creates(g) => req[g].s # s
         /\ Completes(g) /\ req[g].s = s =>
               uploads'[s].status \in {"finalizing", "gone"}
  BY <1>1, <1>2 DEF Core, OwnerOK, Session
<1>6. Owned(s)'
  <2>1. SUFFICES ASSUME uploads[s].status = "finalizing", s \notin stranded
                 PROVE  \E g \in Handlers : Completes(g)' /\ Session(g)' = s
    BY <1>1, <1>2 DEF Owned
  <2>2. QED BY <1>1, <2>1 DEF Core, Owned, Completes, Session
<1>7. SessionsHold' /\ RequestsHold'
  BY <1>1, <1>2, <1>3, <1>4, <1>5, <1>6, StatusStep
<1>8. DocHasFileUnlessSwept'
  BY <1>1 DEF Core, DocHasFileUnlessSwept
<1>9. QED BY <1>3, <1>7, <1>8, InvParts

\* Files are created, emptied and written.
LEMMA MkTmpKeeps ==
    ASSUME Core, NEW h \in Handlers, MkTmp(h)
    PROVE  Core'
<1>1. /\ pc[h] = "mkTmp" /\ Creates(h) /\ ~Completes(h)
      /\ tmp' = [tmp EXCEPT ![Session(h)] = Holes]
      /\ req' = req /\ pc' = [pc EXCEPT ![h] = "insert"]
      /\ UNCHANGED <<uploads, cas, docs, faults, removed, stranded, late, sweep, swept>>
  BY DEF MkTmp, Goto, Creates, Completes, CompletePCs
<1>2. Holes \in File /\ Holes # NoFile
  BY UploadAssumption DEF Holes, File, NoFile
<1>3. /\ TypeOK' /\ pc'[h] = "insert"
      /\ \A g \in Handlers : g # h => pc'[g] = pc[g]
      /\ \A s \in Sessions : tmp[s] # NoFile => tmp'[s] # NoFile
  BY <1>1, <1>2 DEF Core, TypeOK, PCs, InitPCs
<1>4. \A g \in Handlers : HandleOK(g)'
  BY <1>1, <1>3 DEF Core, HandleOK, ParametersOK, PutPCs, Session, Sha
<1>5. ParametersOK(h)' /\ Creates(h)' /\ ~Completes(h)'
  BY <1>1, <1>3 DEF Core, ParametersOK, Creates, Completes, PutPCs,
                    CompletePCs, Session
<1>6. \A g \in Handlers : g # h => Keeps(g)
  BY <1>1, <1>3 DEF Keeps
<1>7. SessionsHold' /\ RequestsHold'
  BY <1>1, <1>3, <1>4, <1>5, <1>6, FileStep DEF Stored, StillStored
<1>8. DocHasFileUnlessSwept'
  BY <1>1 DEF Core, DocHasFileUnlessSwept
<1>9. QED BY <1>3, <1>7, <1>8, InvParts

LEMMA RecreateKeeps ==
    ASSUME Core, NEW h \in Handlers, Recreate(h)
    PROVE  Core'
<1>1. /\ pc[h] = "recreate" /\ ~Creates(h) /\ ~Completes(h)
      /\ tmp' = [tmp EXCEPT ![Session(h)] = Holes]
      /\ pc' = [pc EXCEPT ![h] = "write"]
      /\ req' = [req EXCEPT ![h].handle = "tmp"]
      /\ UNCHANGED <<uploads, cas, docs, faults, removed, stranded, sweep, swept>>
      /\ late' \subseteq late \cup {Sha(h)}
  BY DEF Recreate, Creates, Completes, CompletePCs
<1>2. /\ req' \in [Handlers -> Request] /\ req'[h].handle = "tmp"
      /\ \A g \in Handlers : g # h => req'[g] = req[g]
      /\ req'[h].s = req[h].s /\ req'[h].chunk = req[h].chunk
      /\ req'[h].byte = req[h].byte
  BY <1>1, HandleFacts DEF Core, TypeOK
<1>3. Holes \in File /\ Holes # NoFile
  BY UploadAssumption DEF Holes, File, NoFile
<1>4. Session(h) \in Sessions /\ Sha(h) \in Shas
  BY <1>1 DEF Core, ParametersOK, SessionOK, PutPCs, Session, Sha
<1>5. /\ pc' \in [Handlers -> PCs] /\ pc'[h] = "write"
      /\ \A g \in Handlers : g # h => pc'[g] = pc[g]
  BY <1>1 DEF Core, TypeOK, PCs, PutPCs
<1>6. /\ tmp' \in [Sessions -> File \cup {NoFile}] /\ tmp'[Session(h)] # NoFile
      /\ \A s \in Sessions : tmp[s] # NoFile => tmp'[s] # NoFile
  BY <1>1, <1>3, <1>4 DEF Core, TypeOK
<1>7. TypeOK'
  BY <1>1, <1>2, <1>4, <1>5, <1>6 DEF Core, TypeOK
<1>8. ASSUME NEW g \in Handlers PROVE HandleOK(g)'
  <2>1. CASE g = h
    BY <1>2, <1>5, <1>6, <2>1 DEF HandleOK, Session
  <2>2. CASE g # h
    BY <1>1, <1>2, <1>5, <1>6, <2>2
       DEF Core, HandleOK, ParametersOK, PutPCs, Session, Sha
  <2>3. QED BY <2>1, <2>2
<1>9. ParametersOK(h)' /\ ~Creates(h)' /\ ~Completes(h)'
  BY <1>1, <1>2, <1>5 DEF Core, ParametersOK, Creates, Completes, PutPCs,
                          CompletePCs, Session
<1>10. \A g \in Handlers : g # h => Keeps(g)
  BY <1>2, <1>5 DEF Keeps
<1>11. SessionsHold' /\ RequestsHold'
  BY <1>1, <1>2, <1>5, <1>7, <1>8, <1>9, <1>10, FileStep
     DEF Stored, StillStored
<1>12. DocHasFileUnlessSwept'
  BY <1>1 DEF Core, DocHasFileUnlessSwept
<1>13. QED BY <1>7, <1>11, <1>12, InvParts

\* Writing one chunk of a file leaves a file.
LEMMA ChunkFacts ==
    ASSUME NEW f \in File, NEW c \in Chunks, NEW b \in Bytes
    PROVE  [f EXCEPT ![c] = b] \in File /\ [f EXCEPT ![c] = b] # NoFile
<1>1. b \in {"hole", "good", "bad"}
  BY UploadAssumption
<1>2. [f EXCEPT ![c] = b] \in File
  BY <1>1 DEF File
<1>3. NoFile \notin File
  BY UploadAssumption DEF NoFile, File
<1>4. QED BY <1>2, <1>3

LEMMA WriteKeeps ==
    ASSUME Core, NEW h \in Handlers, Write(h)
    PROVE  Core'
<1>1. /\ pc[h] = "write" /\ ~Creates(h) /\ ~Completes(h)
      /\ pc' = [pc EXCEPT ![h] = "mark"]
      /\ req' = [req EXCEPT ![h].handle = "none"]
      /\ UNCHANGED <<uploads, docs, faults, removed, stranded, sweep, swept>>
      /\ late' \subseteq late \cup {Sha(h)}
  BY DEF Write, Creates, Completes, CompletePCs
<1>2. /\ req' \in [Handlers -> Request] /\ req'[h].handle = "none"
      /\ \A g \in Handlers : g # h => req'[g] = req[g]
      /\ req'[h].s = req[h].s /\ req'[h].chunk = req[h].chunk
      /\ req'[h].byte = req[h].byte
  BY <1>1, HandleFacts DEF Core, TypeOK
<1>3. /\ Session(h) \in Sessions /\ Sha(h) \in Shas
      /\ req[h].chunk \in Chunks /\ req[h].byte \in Bytes
      /\ req[h].handle = "tmp" => tmp[Session(h)] # NoFile
      /\ req[h].handle = "cas" => cas[Sha(h)] # NoFile
  BY <1>1 DEF Core, ParametersOK, SessionOK, HandleOK, PutPCs, Session, Sha
<1>4. /\ tmp' \in [Sessions -> File \cup {NoFile}]
      /\ \A s \in Sessions : tmp[s] # NoFile => tmp'[s] # NoFile
  <2>1. CASE req[h].handle = "tmp"
    <3> DEFINE new == [tmp[Session(h)] EXCEPT ![req[h].chunk] = req[h].byte]
    <3>1. tmp' = [tmp EXCEPT ![Session(h)] = new]
      BY <2>1 DEF Write
    <3>2. tmp \in [Sessions -> File \cup {NoFile}] /\ tmp[Session(h)] \in File
      BY <1>3, <2>1 DEF Core, TypeOK
    <3>3. new \in File /\ new # NoFile
      BY <1>3, <3>2, ChunkFacts
    <3> HIDE DEF new
    <3>4. QED BY <1>3, <3>1, <3>2, <3>3
  <2>2. CASE req[h].handle # "tmp"
    BY <2>2 DEF Write, Core, TypeOK
  <2>3. QED BY <2>1, <2>2
<1>5. /\ cas' \in [Shas -> File \cup {NoFile}]
      /\ \A a \in Shas : cas[a] # NoFile => cas'[a] # NoFile
  <2>1. CASE req[h].handle = "cas"
    <3> DEFINE new == [cas[Sha(h)] EXCEPT ![req[h].chunk] = req[h].byte]
    <3>1. cas' = [cas EXCEPT ![Sha(h)] = new]
      BY <2>1 DEF Write
    <3>2. cas \in [Shas -> File \cup {NoFile}] /\ cas[Sha(h)] \in File
      BY <1>3, <2>1 DEF Core, TypeOK
    <3>3. new \in File /\ new # NoFile
      BY <1>3, <3>2, ChunkFacts
    <3> HIDE DEF new
    <3>4. QED BY <1>3, <3>1, <3>2, <3>3
  <2>2. CASE req[h].handle # "cas"
    BY <2>2 DEF Write, Core, TypeOK
  <2>3. QED BY <2>1, <2>2
<1>6. /\ pc' \in [Handlers -> PCs] /\ pc'[h] = "mark"
      /\ \A g \in Handlers : g # h => pc'[g] = pc[g]
  BY <1>1 DEF Core, TypeOK, PCs, PutPCs
<1>7. TypeOK'
  BY <1>1, <1>2, <1>3, <1>4, <1>5, <1>6 DEF Core, TypeOK
<1>8. ASSUME NEW g \in Handlers PROVE HandleOK(g)'
  <2>1. CASE g = h
    BY <1>2, <2>1 DEF HandleOK
  <2>2. CASE g # h
    <3>1. /\ req'[g] = req[g] /\ pc'[g] = pc[g] /\ HandleOK(g)
          /\ pc[g] = "write" => Session(g) \in Sessions /\ Sha(g) \in Shas
      BY <1>2, <1>6, <2>2
         DEF Core, ParametersOK, SessionOK, PutPCs, Session, Sha
    <3>2. QED BY <1>1, <1>4, <1>5, <3>1 DEF HandleOK, Session, Sha
  <2>3. QED BY <2>1, <2>2
<1>9. ParametersOK(h)' /\ ~Creates(h)' /\ ~Completes(h)'
  BY <1>1, <1>2, <1>6 DEF Core, ParametersOK, Creates, Completes, PutPCs,
                          CompletePCs, Session
<1>10. \A g \in Handlers : g # h => Keeps(g)
  BY <1>2, <1>6 DEF Keeps
<1>11. SessionsHold' /\ RequestsHold'
  BY <1>1, <1>2, <1>5, <1>6, <1>7, <1>8, <1>9, <1>10, FileStep
     DEF Stored, StillStored
<1>12. DocHasFileUnlessSwept'
  BY <1>1, <1>5 DEF Core, TypeOK, DocHasFileUnlessSwept
<1>13. QED BY <1>7, <1>11, <1>12, InvParts

\* Removing the tmp file of a session takes the file from open handles.
LEMMA RemoveFacts ==
    ASSUME Core, NEW s \in Sessions, RemoveTmp(s), UNCHANGED <<uploads, cas, swept>>,
           \A g \in Handlers : pc[g] = "write" => pc'[g] = pc[g]
    PROVE  /\ tmp' \in [Sessions -> File \cup {NoFile}]
           /\ req' \in [Handlers -> Request]
           /\ \A g \in Handlers :
                 /\ req'[g].s = req[g].s /\ req'[g].sha = req[g].sha
                 /\ req'[g].user = req[g].user
                 /\ req'[g].chunk = req[g].chunk /\ req'[g].byte = req[g].byte
           /\ \A g \in Handlers : HandleOK(g)'
<1>1. /\ tmp' = [tmp EXCEPT ![s] = NoFile] /\ HandlesUnlinked(s)
      /\ tmp \in [Sessions -> File \cup {NoFile}]
      /\ req \in [Handlers -> Request]
  BY DEF RemoveTmp, Core, TypeOK
<1>2. /\ req' \in [Handlers -> Request]
      /\ \A g \in Handlers :
            /\ req'[g].s = req[g].s /\ req'[g].sha = req[g].sha
            /\ req'[g].user = req[g].user
            /\ req'[g].chunk = req[g].chunk /\ req'[g].byte = req[g].byte
            /\ req'[g].handle = "tmp" => req[g].handle = "tmp" /\ req[g].s # s
            /\ req'[g].handle = "cas" => req[g].handle = "cas"
  BY <1>1, UnlinkedFacts
<1>3. ASSUME NEW g \in Handlers PROVE HandleOK(g)'
  <2>1. ASSUME req'[g].handle = "tmp"
        PROVE  pc'[g] = "write" /\ tmp'[req'[g].s] # NoFile
    <3>1. req[g].handle = "tmp" /\ req[g].s # s
      BY <1>2, <2>1
    <3>2. pc[g] = "write" /\ tmp[req[g].s] # NoFile /\ req[g].s \in Sessions
      BY <3>1 DEF Core, HandleOK, ParametersOK, PutPCs, Session
    <3>3. QED BY <1>1, <1>2, <3>1, <3>2
  <2>2. ASSUME req'[g].handle = "cas"
        PROVE  pc'[g] = "write" /\ cas'[uploads'[req'[g].s].sha] # NoFile
    <3>1. req[g].handle = "cas"
      BY <1>2, <2>2
    <3>2. QED BY <1>2, <3>1 DEF Core, HandleOK, Session, Sha
  <2>3. QED BY <2>1, <2>2 DEF HandleOK, Session, Sha
<1>4. QED BY <1>1, <1>2, <1>3

LEMMA RemovalKeeps ==
    ASSUME Core, NEW h \in Handlers, Discard(h) \/ DropTmp(h)
    PROVE  Core'
<1>1. PICK s \in Sessions : s = Session(h)
  BY DEF Discard, DropTmp, Core, ParametersOK, Completes, CompletePCs
<1>2. PICK l \in {"upsert", "dropDoc"} :
         /\ pc' = [pc EXCEPT ![h] = l]
         /\ l = "upsert" => pc[h] = "discard"
  BY DEF Discard, DropTmp
<1>3. /\ pc[h] \in {"discard", "dropTmp"} /\ RemoveTmp(s)
      /\ ~Creates(h) /\ Completes(h)
      /\ UNCHANGED <<uploads, cas, docs, faults, removed, stranded, late, sweep, swept>>
  BY <1>1 DEF Discard, DropTmp, Creates, Completes, CompletePCs
<1>4. /\ pc' \in [Handlers -> PCs] /\ pc'[h] = l
      /\ \A g \in Handlers : g # h => pc'[g] = pc[g]
  BY <1>2 DEF Core, TypeOK, PCs, CompletePCs
<1>5. /\ tmp' \in [Sessions -> File \cup {NoFile}]
      /\ req' \in [Handlers -> Request]
      /\ \A g \in Handlers :
            /\ req'[g].s = req[g].s /\ req'[g].sha = req[g].sha
            /\ req'[g].user = req[g].user
            /\ req'[g].chunk = req[g].chunk /\ req'[g].byte = req[g].byte
      /\ \A g \in Handlers : HandleOK(g)'
  <2>1. \A g \in Handlers : pc[g] = "write" => pc'[g] = pc[g]
    BY <1>3, <1>4
  <2>2. QED BY <1>3, <2>1, RemoveFacts
<1>6. TypeOK'
  BY <1>3, <1>4, <1>5 DEF Core, TypeOK
<1>7. /\ ParametersOK(h)' /\ Completes(h)' /\ ~Creates(h)'
  BY <1>3, <1>4, <1>5
     DEF Core, ParametersOK, Creates, Completes, PutPCs, CompletePCs, Session
<1>8. pc'[h] \in {"discard", "upsert"} => Stored(uploads[req[h].s].sha)
  BY <1>2, <1>3, <1>4 DEF Core, OwnerOK, Sha, Session
<1>9. \A g \in Handlers : g # h => Keeps(g)
  BY <1>4, <1>5 DEF Keeps
<1>10. SessionsHold' /\ RequestsHold'
  <2>1. \A a \in Shas : Stored(a) => StillStored(a)
    BY <1>3 DEF Stored, StillStored
  <2>2. pc'[h] \in {"discard", "upsert"} =>
           StillStored(uploads[req'[h].s].sha)
    BY <1>1, <1>3, <1>5, <1>8 DEF Stored, StillStored
  <2>3. QED BY <1>1, <1>3, <1>5, <1>6, <1>7, <1>9, <2>1, <2>2, FileStep
<1>11. DocHasFileUnlessSwept'
  BY <1>3 DEF Core, DocHasFileUnlessSwept
<1>12. QED BY <1>6, <1>10, <1>11, InvParts

LEMMA GcKeeps ==
    ASSUME Core, NEW s \in Sessions, GcStaleTmp(s)
    PROVE  Core'
<1>1. /\ RemoveTmp(s) /\ removed' \subseteq removed \cup {s}
      /\ UNCHANGED <<uploads, cas, docs, pc, faults, stranded, late, sweep, swept>>
  BY DEF GcStaleTmp
<1>2. /\ tmp' \in [Sessions -> File \cup {NoFile}]
      /\ req' \in [Handlers -> Request]
      /\ \A g \in Handlers :
            /\ req'[g].s = req[g].s /\ req'[g].sha = req[g].sha
            /\ req'[g].user = req[g].user
            /\ req'[g].chunk = req[g].chunk /\ req'[g].byte = req[g].byte
      /\ \A g \in Handlers : HandleOK(g)'
  BY <1>1, RemoveFacts
<1>3. TypeOK'
  BY <1>1, <1>2 DEF Core, TypeOK
<1>4. PICK x : x \notin Handlers
  BY NoSetContainsEverything
<1>5. \A g \in Handlers : Keeps(g)
  BY <1>1, <1>2 DEF Keeps
<1>6. SessionsHold' /\ RequestsHold'
  BY <1>1, <1>2, <1>3, <1>4, <1>5, FileStep DEF Stored, StillStored
<1>7. DocHasFileUnlessSwept'
  BY <1>1 DEF Core, DocHasFileUnlessSwept
<1>8. QED BY <1>3, <1>6, <1>7, InvParts

LEMMA RenameKeeps ==
    ASSUME Core, NEW h \in Handlers, Rename(h)
    PROVE  Core'
<1>1. /\ pc[h] = "rename" /\ ~Creates(h) /\ Completes(h)
      /\ Session(h) \in Sessions /\ Sha(h) \in Shas
      /\ UNCHANGED <<uploads, docs, faults, removed, stranded, late, sweep>>
  BY DEF Rename, Creates, Completes, CompletePCs, Core, ParametersOK,
         SessionOK, Session, Sha
<1>2. CASE Goto(h, "lostRace") /\ UNCHANGED <<tmp, cas, swept>>
  <2>1. docs' \subseteq Shas /\ DocHasFileUnlessSwept' /\ faults' \in Nat
    BY <1>1, <1>2 DEF Core, TypeOK, DocHasFileUnlessSwept
  <2>2. "lostRace" \in PCs /\ "lostRace" \in CompletePCs
    BY DEF PCs, CompletePCs
  <2>3. QED BY <1>1, <1>2, <2>1, <2>2, Moved
<1>3. ASSUME NEW s \in Sessions, NEW a \in Shas, s = req[h].s,
             a = uploads[s].sha, tmp[s] # NoFile,
             cas' = [cas EXCEPT ![a] = tmp[s]],
             tmp' = [tmp EXCEPT ![s] = NoFile],
             HandlesMoved(s, a), pc' = [pc EXCEPT ![h] = "upsert"],
             swept' = swept \ {a}
      PROVE  Core'
  <2>1. /\ cas' \in [Shas -> File \cup {NoFile}] /\ cas'[a] # NoFile
        /\ tmp' \in [Sessions -> File \cup {NoFile}]
        /\ \A b \in Shas : cas[b] # NoFile => cas'[b] # NoFile
        /\ \A b : b = a => cas'[b] # NoFile
        /\ \A t \in Sessions : t # s => tmp'[t] = tmp[t]
    BY <1>3 DEF Core, TypeOK
  <2>2. /\ req' \in [Handlers -> Request]
        /\ \A g \in Handlers :
              /\ req'[g].s = req[g].s /\ req'[g].sha = req[g].sha
              /\ req'[g].user = req[g].user
              /\ req'[g].chunk = req[g].chunk /\ req'[g].byte = req[g].byte
              /\ req'[g].handle = "tmp" => req[g].handle = "tmp" /\ req[g].s # s
              /\ req'[g].handle = "cas" =>
                    \/ req[g].handle = "tmp" /\ req[g].s = s
                    \/ req[g].handle = "cas" /\ Sha(g) # a
    BY <1>3, MovedFacts DEF Core, TypeOK
  <2>3. /\ pc' \in [Handlers -> PCs] /\ pc'[h] = "upsert"
        /\ \A g \in Handlers : g # h => pc'[g] = pc[g]
    BY <1>3 DEF Core, TypeOK, PCs, CompletePCs
  <2>4. TypeOK'
    BY <1>1, <1>3, <2>1, <2>2, <2>3 DEF Core, TypeOK
  <2>5. ASSUME NEW g \in Handlers PROVE HandleOK(g)'
    <3>1. req[g].handle \in {"tmp", "cas"} =>
             /\ pc[g] = "write" /\ pc'[g] = "write" /\ req[g].s \in Sessions
             /\ uploads[req[g].s].sha \in Shas
      BY <1>1, <2>3 DEF Core, HandleOK, ParametersOK, SessionOK, PutPCs,
                        Session
    <3>2. ASSUME req'[g].handle = "tmp"
          PROVE  pc'[g] = "write" /\ tmp'[req'[g].s] # NoFile
      BY <2>1, <2>2, <3>1, <3>2 DEF Core, HandleOK, Session
    <3>3. ASSUME req'[g].handle = "cas"
          PROVE  pc'[g] = "write" /\ cas'[uploads'[req'[g].s].sha] # NoFile
      <4>1. CASE req[g].handle = "tmp" /\ req[g].s = s
        BY <1>1, <1>3, <2>1, <2>2, <3>1, <4>1
      <4>2. CASE req[g].handle = "cas"
        BY <1>1, <2>1, <2>2, <3>1, <4>2 DEF Core, HandleOK, Session, Sha
      <4>3. QED BY <2>2, <3>3, <4>1, <4>2
    <3>4. QED BY <3>2, <3>3 DEF HandleOK, Session, Sha
  <2>6. ParametersOK(h)' /\ Completes(h)' /\ ~Creates(h)'
    BY <1>1, <2>2, <2>3
       DEF Core, ParametersOK, Creates, Completes, PutPCs, CompletePCs, Session
  <2>7. \A g \in Handlers : g # h => Keeps(g)
    BY <2>2, <2>3 DEF Keeps
  <2>8. SessionsHold' /\ RequestsHold'
    <3>1. \A b \in Shas : Stored(b) => StillStored(b)
      BY <1>3, <2>1 DEF Stored, StillStored
    <3>2. StillStored(uploads[req'[h].s].sha)
      BY <1>1, <1>3, <2>1, <2>2 DEF StillStored
    <3>3. QED BY <1>1, <1>3, <2>2, <2>4, <2>5, <2>6, <2>7, <3>1, <3>2,
                 FileStep
  <2>9. DocHasFileUnlessSwept'
    BY <1>1, <1>3, <2>1 DEF Core, TypeOK, DocHasFileUnlessSwept
  <2>10. QED BY <2>4, <2>8, <2>9, InvParts
<1>4. CASE tmp[Session(h)] # NoFile
  BY <1>1, <1>3, <1>4 DEF Rename, Session, Sha
<1>5. QED BY <1>2, <1>4 DEF Rename

\* The collector: a document goes first, and its file later.
LEMMA ClaimOrphanKeeps ==
    ASSUME Core, NEW g \in Collectors, NEW a \in Shas, ClaimOrphan(g, a)
    PROVE  Core'
<1>1. /\ UNCHANGED <<uploads, tmp, cas, pc, req, removed, stranded, late, swept>>
      /\ docs' \subseteq docs /\ faults' = faults + 1
      /\ sweep' = [sweep EXCEPT ![g] = a]
  BY DEF ClaimOrphan
<1>2. TypeOK'
  BY <1>1 DEF Core, TypeOK
<1>3. DocHasFileUnlessSwept'
  BY <1>1 DEF Core, DocHasFileUnlessSwept
<1>4. \A s \in Sessions : SessionOK(s)' /\ Owned(s)'
  BY <1>1 DEF Core, SessionOK, Owned, Completes, Session
<1>5. \A h \in Handlers : ParametersOK(h)' /\ HandleOK(h)' /\ OwnerOK(h)'
  BY <1>1 DEF Core, ParametersOK, HandleOK, OwnerOK, Creates, Completes,
              Session, Sha, Stored
<1>6. QED BY <1>2, <1>3, <1>4, <1>5 DEF Core

\* What the collector takes from an upload, it is recorded to have taken.
LEMMA RemoveOrphanKeeps ==
    ASSUME Core, NEW g \in Collectors, RemoveOrphan(g)
    PROVE  Core'
<1>1. PICK a \in Shas : a = sweep[g]
  BY DEF RemoveOrphan, Core, TypeOK
<1>2. /\ UNCHANGED <<uploads, tmp, docs, pc, faults, removed, stranded, late>>
      /\ sweep' \in [Collectors -> Shas \cup {None}]
      /\ req \in [Handlers -> Request]
      /\ cas \in [Shas -> File \cup {NoFile}]
  BY DEF RemoveOrphan, Core, TypeOK
<1>3. /\ cas' \in [Shas -> File \cup {NoFile}] /\ swept' \subseteq Shas
      /\ \A b \in Shas : (Found(b) \/ b \in docs) /\ Stored(b) => StillStored(b)
      /\ \A b \in Shas : b # a => cas'[b] = cas[b]
      /\ swept \subseteq swept'
  BY <1>1, <1>2 DEF RemoveOrphan, Stored, StillStored, Core, TypeOK
<1>4. /\ req' \in [Handlers -> Request]
      /\ \A h \in Handlers :
            /\ req'[h].s = req[h].s /\ req'[h].sha = req[h].sha
            /\ req'[h].user = req[h].user
            /\ req'[h].chunk = req[h].chunk /\ req'[h].byte = req[h].byte
            /\ req'[h].handle = "tmp" => req[h].handle = "tmp"
            /\ req'[h].handle = "cas" => req[h].handle = "cas"
            /\ req'[h].handle = "cas" => Sha(h) # a \/ cas' = cas
  BY <1>1, <1>2, StoredUnlinkedFacts DEF RemoveOrphan
<1>5. TypeOK'
  BY <1>2, <1>3, <1>4 DEF Core, TypeOK
<1>6. ASSUME NEW h \in Handlers PROVE HandleOK(h)'
  <2>1. req'[h].handle = "tmp" => pc'[h] = "write" /\ tmp'[req'[h].s] # NoFile
    BY <1>2, <1>4 DEF Core, HandleOK, Session
  <2>2. ASSUME req'[h].handle = "cas"
        PROVE  pc'[h] = "write" /\ cas'[uploads'[req'[h].s].sha] # NoFile
    <3>1. /\ pc[h] = "write" /\ cas[Sha(h)] # NoFile
          /\ Sha(h) # a \/ cas' = cas
      BY <1>4, <2>2 DEF Core, HandleOK
    <3>2. Sha(h) \in Shas
      BY <3>1 DEF Core, ParametersOK, SessionOK, PutPCs, Session, Sha
    <3>3. QED BY <1>2, <1>3, <1>4, <3>1, <3>2 DEF Sha, Session
  <2>3. QED BY <2>1, <2>2 DEF HandleOK, Session, Sha
<1>7. PICK x : x \notin Handlers
  BY NoSetContainsEverything
<1>8. \A h \in Handlers : Keeps(h)
  BY <1>2, <1>4 DEF Keeps
<1>9. SessionsHold' /\ RequestsHold'
  BY <1>2, <1>3, <1>5, <1>6, <1>7, <1>8, FileStep
<1>10. DocHasFileUnlessSwept'
  BY <1>2, <1>3 DEF Core, TypeOK, DocHasFileUnlessSwept, Stored, StillStored
<1>11. QED BY <1>5, <1>9, <1>10, InvParts

-----------------------------------------------------------------------------
(* Every step keeps the invariant                                           *)

LEMMA StutterKeeps == Core /\ UNCHANGED vars => Core'
<1>1. SUFFICES ASSUME Core, UNCHANGED vars PROVE Core'
  OBVIOUS
<1>2. TypeOK' /\ DocHasFileUnlessSwept'
  BY <1>1 DEF vars, Core, TypeOK, DocHasFileUnlessSwept
<1>3. \A s \in Sessions : SessionOK(s)' /\ Owned(s)'
  BY <1>1 DEF vars, Core, SessionOK, Owned, Completes, Session
<1>4. \A h \in Handlers : ParametersOK(h)' /\ HandleOK(h)' /\ OwnerOK(h)'
  BY <1>1 DEF vars, Core, ParametersOK, HandleOK, OwnerOK, Creates, Completes,
              Session, Sha, Stored
<1>5. QED BY <1>2, <1>3, <1>4 DEF Core

\* Each handler, the expiry and the collectors keep what handles and sessions
\* need of each other.
LEMMA CoreStep == Core /\ [Next]_vars => Core'
<1>1. SUFFICES ASSUME Core, Next PROVE Core'
  BY StutterKeeps
<1>2. ASSUME NEW h \in Handlers, HandlerStep(h)
      PROVE  Core'
  BY <1>1, <1>2, FindKeeps, MkTmpKeeps, InsertKeeps, OpenKeeps,
     RecreateKeeps, WriteKeeps, MarkKeeps, MovesKeep, RemovalKeeps,
     RenameKeeps, EndKeeps
     DEF HandlerStep
<1>3. QED
  BY <1>1, <1>2, BeginKeeps, ClaimKeeps, PutKeeps, FailKeeps, ExpiryKeeps,
     GcKeeps, CrashKeeps, ClaimOrphanKeeps, RemoveOrphanKeeps
     DEF Next

-----------------------------------------------------------------------------
(* What was hashed is what is stored                                        *)

\* A session keeps the content it was drawn for.
LEMMA ShaStays ==
    ASSUME Core, Next, NEW s \in Sessions, uploads[s].status # "unused"
    PROVE  uploads'[s].sha = uploads[s].sha
<1>0. uploads \in [Sessions -> Upload]
  BY DEF Core, TypeOK
<1>1. ASSUME NEW h \in Handlers, HandlerStep(h)
      PROVE  uploads'[s].sha = uploads[s].sha
  <2>1. CASE UNCHANGED uploads
    BY <2>1
  <2>2. CASE Find(h)
    BY <1>0, <2>2 DEF Find
  <2>3. CASE Insert(h) \/ Finish(h) \/ Release(h)
    BY <1>0, <2>3 DEF Insert, Finish, Release, SetStatus, Upload
  <2>4. CASE Mark(h)
    BY <1>0, <2>4 DEF Mark, Upload
  <2> QED BY <1>1, <2>1, <2>2, <2>3, <2>4
          DEF HandlerStep, MkTmp, Open, Recreate, Write, Hash, Exists, Discard,
              Rename, LostRace, Upsert, DropTmp
<1>2. ASSUME NEW h \in Handlers,
             \/ \E u \in Users, a \in Shas : Begin(h, u, a)
             \/ \E t \in Sessions : \E c \in Chunks, b \in Bytes : Put(h, t, c, b)
             \/ Fail(h)
      PROVE  uploads'[s].sha = uploads[s].sha
  BY <1>2 DEF Begin, Put, Fail
<1>5. ASSUME NEW h \in Handlers, NEW t \in Sessions, Claim(h, t)
      PROVE  uploads'[s].sha = uploads[s].sha
  BY <1>0, <1>5 DEF Claim, SetStatus, Upload
<1>3. ASSUME NEW t \in Sessions, Expire(t) \/ Ttl(t) \/ GcStaleTmp(t)
      PROVE  uploads'[s].sha = uploads[s].sha
  BY <1>0, <1>3 DEF Expire, Ttl, GcStaleTmp, SetStatus, Upload
<1>4. CASE Crash
  BY <1>4 DEF Crash
<1>6. ASSUME NEW g \in Collectors,
             RemoveOrphan(g) \/ \E a \in Shas : ClaimOrphan(g, a)
      PROVE  uploads'[s].sha = uploads[s].sha
  BY <1>6 DEF RemoveOrphan, ClaimOrphan
<1> QED BY <1>1, <1>2, <1>3, <1>4, <1>5, <1>6 DEF Next

Hashed == {"exists", "rename"}
Good(f) == \A c \in Chunks : f[c] = "good"

\* What a step may do to stored files and to files that have been hashed.
LEMMA VerifyFrame ==
    ASSUME Core, Verifies, Next, late \subseteq late',
           \A a \in Shas :
              \/ a \in late' \/ cas'[a] \in {cas[a], NoFile} \/ Good(cas'[a]),
           \A g \in Handlers : pc'[g] \in Hashed =>
              /\ Completes(g) /\ req'[g].s = req[g].s
              /\ \/ Sha(g) \in late'
                 \/ tmp'[Session(g)] = NoFile
                 \/ Good(tmp'[Session(g)])
                 \/ pc[g] \in Hashed /\ tmp'[Session(g)] = tmp[Session(g)]
    PROVE  Verifies'
<1>1. StoredVerifiesUnlessLate'
  BY DEF Verifies, StoredVerifiesUnlessLate, Good
<1>2. ASSUME NEW g \in Handlers, pc'[g] \in Hashed, uploads'[req'[g].s].sha \notin late'
      PROVE  tmp'[req'[g].s] = NoFile \/ Good(tmp'[req'[g].s])
  <2>1. /\ Completes(g) /\ req'[g].s = req[g].s
        /\ \/ Sha(g) \in late'
           \/ tmp'[Session(g)] = NoFile
           \/ Good(tmp'[Session(g)])
           \/ pc[g] \in Hashed /\ tmp'[Session(g)] = tmp[Session(g)]
    BY <1>2
  <2>2. req[g].s \in Sessions /\ uploads[req[g].s].status # "unused"
    BY <2>1 DEF Core, ParametersOK, Session
  <2>3. uploads'[req'[g].s].sha = Sha(g)
    BY <2>1, <2>2, ShaStays DEF Sha
  <2>4. CASE pc[g] \in Hashed /\ tmp'[req[g].s] = tmp[req[g].s]
    <3>1. tmp[req[g].s] = NoFile \/ Good(tmp[req[g].s])
      BY <1>2, <2>3, <2>4 DEF Verifies, HashTrue, Hashed, Good, Session
    <3> QED BY <2>1, <2>4, <3>1
  <2> QED BY <1>2, <2>1, <2>3, <2>4 DEF Session
<1>3. \A g \in Handlers : HashTrue(g)'
  BY <1>2 DEF HashTrue, Hashed, Good, Session, Sha
<1> QED BY <1>1, <1>3 DEF Verifies

\* No file is touched, and only a hash that matches lets a request go on.
LEMMA VerifyQuiet ==
    ASSUME Core, Verifies, Next, UNCHANGED <<tmp, cas, late>>,
           \A g \in Handlers : pc'[g] \in Hashed =>
              /\ req'[g].s = req[g].s
              /\ \/ pc[g] \in Hashed
                 \/ pc[g] = "hash" /\ HashMatches(tmp[Session(g)])
    PROVE  Verifies'
<1>1. \A g \in Handlers : pc'[g] \in Hashed =>
         /\ Completes(g) /\ req'[g].s = req[g].s
         /\ \/ Good(tmp[Session(g)])
            \/ pc[g] \in Hashed
  BY DEF Hashed, Completes, CompletePCs, HashMatches, Good
<1> QED BY <1>1, VerifyFrame

\* The requests that move without touching a file.
LEMMA VerifyMoves ==
    ASSUME Core, Verifies, Next, NEW h \in Handlers,
           \/ Find(h) \/ Insert(h) \/ Mark(h) \/ Hash(h) \/ Exists(h)
           \/ LostRace(h) \/ Upsert(h) \/ Finish(h) \/ Release(h) \/ Open(h)
           \/ Fail(h)
           \/ \E u \in Users, a \in Shas : Begin(h, u, a)
           \/ \E s \in Sessions :
                 Claim(h, s) \/ \E c \in Chunks, b \in Bytes : Put(h, s, c, b)
    PROVE  Verifies'
<1>0. pc \in [Handlers -> PCs] /\ req \in [Handlers -> Request]
  BY DEF Core, TypeOK
<1> USE <1>0 DEF Goto, Return, Start, Hashed
<1>1. CASE Find(h)
  BY <1>1, VerifyQuiet DEF Find
<1>2. CASE Insert(h) \/ Mark(h) \/ Upsert(h) \/ Finish(h) \/ Release(h)
  <2>1. UNCHANGED <<tmp, cas, late>>
    BY <1>2 DEF Insert, Mark, Upsert, Finish, Release
  <2>2. \A g \in Handlers : pc'[g] \in Hashed => pc[g] \in Hashed /\ req'[g].s = req[g].s
    BY <1>2 DEF Insert, Mark, Upsert, Finish, Release
  <2> QED BY <2>1, <2>2, VerifyQuiet
<1>3. CASE Hash(h)
  <2>1. UNCHANGED <<tmp, cas, late, req>>
    BY <1>3 DEF Hash
  <2>2. \A g \in Handlers : pc'[g] \in Hashed =>
           \/ pc[g] \in Hashed
           \/ pc[g] = "hash" /\ HashMatches(tmp[Session(g)])
    BY <1>3 DEF Hash
  <2> QED BY <2>1, <2>2, VerifyQuiet
<1>4. CASE Exists(h) \/ LostRace(h)
  <2>1. UNCHANGED <<tmp, cas, late, req>>
    BY <1>4 DEF Exists, LostRace
  <2>2. \A g \in Handlers : pc'[g] \in Hashed => pc[g] \in Hashed
    BY <1>4 DEF Exists, LostRace
  <2> QED BY <2>1, <2>2, VerifyQuiet
<1>5. CASE Open(h)
  <2>1. UNCHANGED <<tmp, cas, late>>
    BY <1>5 DEF Open
  <2>2. \A g \in Handlers : pc'[g] \in Hashed => pc[g] \in Hashed /\ req'[g].s = req[g].s
    BY <1>5 DEF Open
  <2> QED BY <2>1, <2>2, VerifyQuiet
<1>6. CASE Fail(h)
  <2>1. UNCHANGED <<tmp, cas, late>>
    BY <1>6 DEF Fail
  <2>2. \A g \in Handlers : pc'[g] \in Hashed => pc[g] \in Hashed /\ req'[g].s = req[g].s
    BY <1>6 DEF Fail, FailsTo
  <2> QED BY <2>1, <2>2, VerifyQuiet
<1>7. ASSUME NEW u \in Users, NEW a \in Shas, Begin(h, u, a)
      PROVE  Verifies'
  BY <1>7, VerifyQuiet DEF Begin
<1>8. ASSUME NEW s \in Sessions, Claim(h, s)
      PROVE  Verifies'
  BY <1>8, VerifyQuiet DEF Claim
<1>9. ASSUME NEW s \in Sessions, NEW c \in Chunks, NEW b \in Bytes, Put(h, s, c, b)
      PROVE  Verifies'
  BY <1>9, VerifyQuiet DEF Put
<1> QED BY <1>1, <1>2, <1>3, <1>4, <1>5, <1>6, <1>7, <1>8, <1>9

\* The requests that create, empty, write, move or remove a file.
LEMMA VerifyFiles ==
    ASSUME Core, Verifies, Next, NEW h \in Handlers,
           \/ MkTmp(h) \/ Recreate(h) \/ Write(h)
           \/ Discard(h) \/ DropTmp(h) \/ Rename(h)
    PROVE  Verifies'
<1>0. /\ pc \in [Handlers -> PCs] /\ req \in [Handlers -> Request]
      /\ tmp \in [Sessions -> File \cup {NoFile}]
      /\ cas \in [Shas -> File \cup {NoFile}]
  BY DEF Core, TypeOK
<1>1. CASE MkTmp(h)
  <2>1. /\ UNCHANGED <<cas, late, req>> /\ Creates(h)
        /\ tmp' = [tmp EXCEPT ![Session(h)] = Holes]
        /\ pc' = [pc EXCEPT ![h] = "insert"]
    BY <1>1 DEF MkTmp, Goto, Creates
  <2>2. ASSUME NEW g \in Handlers, pc'[g] \in Hashed
        PROVE  Completes(g) /\ pc[g] \in Hashed /\ tmp'[Session(g)] = tmp[Session(g)]
    <3>1. pc[g] \in Hashed /\ Completes(g) /\ g # h
      BY <1>0, <2>1, <2>2 DEF Hashed, Completes, CompletePCs
    <3>2. Session(g) # Session(h) /\ Session(g) \in Sessions
      BY <2>1, <3>1 DEF Core, OwnerOK, ParametersOK
    <3> QED BY <1>0, <2>1, <3>1, <3>2
  <2> QED BY <2>1, <2>2, VerifyFrame
<1>2. CASE Recreate(h)
  <2>1. /\ UNCHANGED cas /\ late \subseteq late' /\ pc[h] = "recreate"
        /\ tmp' = [tmp EXCEPT ![Session(h)] = Holes]
        /\ pc' = [pc EXCEPT ![h] = "write"]
        /\ req' = [req EXCEPT ![h].handle = "tmp"]
        /\ Verified(Session(h)) => Sha(h) \in late'
    BY <1>2 DEF Recreate
  <2>2. \A g \in Handlers : req'[g].s = req[g].s
    BY <1>0, <2>1, HandleFacts
  <2>3. ASSUME NEW g \in Handlers, pc'[g] \in Hashed
        PROVE  /\ Completes(g) /\ pc[g] \in Hashed
               /\ Sha(g) \in late' \/ tmp'[Session(g)] = tmp[Session(g)]
    <3>1. pc[g] \in Hashed /\ Completes(g) /\ g # h
      BY <1>0, <2>1, <2>3 DEF Hashed, Completes, CompletePCs
    <3>2. Session(g) = Session(h) => Sha(g) \in late'
      BY <2>1, <3>1 DEF Verified, Hashed, Sha, Session
    <3>3. Session(g) # Session(h) => tmp'[Session(g)] = tmp[Session(g)]
      BY <1>0, <2>1, <3>1 DEF Core, ParametersOK
    <3> QED BY <3>1, <3>2, <3>3
  <2> QED BY <2>1, <2>2, <2>3, VerifyFrame
<1>3. CASE Write(h)
  <2>1. /\ pc[h] = "write" /\ late \subseteq late'
        /\ pc' = [pc EXCEPT ![h] = "mark"]
        /\ req' = [req EXCEPT ![h].handle = "none"]
        /\ req[h].handle = "cas" => Sha(h) \in late'
        /\ req[h].handle = "tmp" /\ Verified(Session(h)) => Sha(h) \in late'
    BY <1>3 DEF Write
  <2>2. \A g \in Handlers : req'[g].s = req[g].s
    BY <1>0, <2>1, HandleFacts
  <2>3. ASSUME NEW a \in Shas PROVE a \in late' \/ cas'[a] = cas[a]
    BY <1>0, <1>3, <2>1 DEF Write
  <2>4. \A s \in Sessions : s # Session(h) \/ req[h].handle # "tmp" => tmp'[s] = tmp[s]
    BY <1>0, <1>3 DEF Write
  <2>5. ASSUME NEW g \in Handlers, pc'[g] \in Hashed
        PROVE  /\ Completes(g) /\ pc[g] \in Hashed
               /\ Sha(g) \in late' \/ tmp'[Session(g)] = tmp[Session(g)]
    <3>1. pc[g] \in Hashed /\ Completes(g) /\ Session(g) \in Sessions
      BY <1>0, <2>1, <2>5 DEF Hashed, Completes, CompletePCs, Core, ParametersOK
    <3>2. Session(g) = Session(h) /\ req[h].handle = "tmp" => Sha(g) \in late'
      BY <2>1, <3>1 DEF Verified, Hashed, Sha, Session
    <3> QED BY <2>4, <3>1, <3>2
  <2> QED BY <2>1, <2>2, <2>3, <2>5, VerifyFrame
<1>4. CASE Discard(h) \/ DropTmp(h)
  <2>1. /\ UNCHANGED <<cas, late>>
        /\ tmp' = [tmp EXCEPT ![Session(h)] = NoFile]
        /\ HandlesUnlinked(Session(h))
        /\ pc' = [pc EXCEPT ![h] = "upsert"] \/ pc' = [pc EXCEPT ![h] = "dropDoc"]
    BY <1>4 DEF Discard, DropTmp, RemoveTmp
  <2>2. \A g \in Handlers : req'[g].s = req[g].s
    BY <1>0, <2>1, UnlinkedFacts
  <2>3. ASSUME NEW g \in Handlers, pc'[g] \in Hashed
        PROVE  /\ Completes(g) /\ pc[g] \in Hashed
               /\ tmp'[Session(g)] = NoFile \/ tmp'[Session(g)] = tmp[Session(g)]
    <3>1. pc[g] \in Hashed /\ Completes(g) /\ Session(g) \in Sessions
      BY <1>0, <2>1, <2>3 DEF Hashed, Completes, CompletePCs, Core, ParametersOK
    <3> QED BY <1>0, <2>1, <3>1
  <2> QED BY <2>1, <2>2, <2>3, VerifyFrame
<1>5. CASE Rename(h)
  <2>0. pc[h] = "rename" /\ UNCHANGED <<uploads, late>>
    BY <1>5 DEF Rename
  <2>1. CASE Goto(h, "lostRace") /\ UNCHANGED <<tmp, cas>>
    <3>1. \A g \in Handlers : pc'[g] \in Hashed => pc[g] \in Hashed
      BY <1>0, <2>1 DEF Goto, Hashed
    <3> QED BY <2>0, <2>1, <3>1, VerifyQuiet DEF Goto
  <2>2. ASSUME tmp[Session(h)] # NoFile,
               cas' = [cas EXCEPT ![Sha(h)] = tmp[Session(h)]],
               tmp' = [tmp EXCEPT ![Session(h)] = NoFile],
               HandlesMoved(Session(h), Sha(h)),
               pc' = [pc EXCEPT ![h] = "upsert"]
        PROVE  Verifies'
    <3>1. \A g \in Handlers : req'[g].s = req[g].s
      BY <1>0, <2>2, MovedFacts
    <3>2. Sha(h) \in late \/ Good(tmp[Session(h)])
      BY <2>0, <2>2 DEF Verifies, HashTrue, Good
    <3>3. ASSUME NEW a \in Shas PROVE a \in late' \/ cas'[a] = cas[a] \/ Good(cas'[a])
      <4>1. CASE a = Sha(h)
        <5>1. cas'[a] = tmp[Session(h)]
          BY <1>0, <2>2, <4>1
        <5> QED BY <2>0, <3>2, <4>1, <5>1 DEF Good
      <4>2. CASE a # Sha(h)
        BY <1>0, <2>2, <4>2
      <4> QED BY <4>1, <4>2
    <3>4. ASSUME NEW g \in Handlers, pc'[g] \in Hashed
          PROVE  /\ Completes(g) /\ pc[g] \in Hashed
                 /\ tmp'[Session(g)] = NoFile \/ tmp'[Session(g)] = tmp[Session(g)]
      <4>1. pc[g] \in Hashed /\ Completes(g) /\ Session(g) \in Sessions
        BY <1>0, <2>2, <3>4 DEF Hashed, Completes, CompletePCs, Core, ParametersOK
      <4> QED BY <1>0, <2>2, <4>1
    <3> QED BY <2>0, <3>1, <3>3, <3>4, VerifyFrame
  <2> QED BY <1>5, <2>1, <2>2 DEF Rename
<1> QED BY <1>1, <1>2, <1>3, <1>4, <1>5

LEMMA VerifyStep ==
    ASSUME Core, Verifies, [Next]_vars
    PROVE  Verifies'
<1>0. CASE UNCHANGED vars
  BY <1>0 DEF vars, Verifies, StoredVerifiesUnlessLate, HashTrue, Session, Sha
<1>1. ASSUME Next, NEW s \in Sessions, Expire(s) \/ Ttl(s)
      PROVE  Verifies'
  <2>1. UNCHANGED <<tmp, cas, late, pc, req>>
    BY <1>1 DEF Expire, Ttl
  <2> QED BY <1>1, <2>1, VerifyQuiet
<1>2. ASSUME Next, NEW s \in Sessions, GcStaleTmp(s)
      PROVE  Verifies'
  <2>1. /\ UNCHANGED <<cas, late, pc>> /\ tmp' = [tmp EXCEPT ![s] = NoFile]
        /\ HandlesUnlinked(s)
        /\ tmp \in [Sessions -> File \cup {NoFile}]
        /\ req \in [Handlers -> Request]
    BY <1>2 DEF GcStaleTmp, RemoveTmp, Core, TypeOK
  <2>2. \A g \in Handlers : req'[g].s = req[g].s
    BY <2>1, UnlinkedFacts
  <2>3. ASSUME NEW g \in Handlers, pc'[g] \in Hashed
        PROVE  /\ Completes(g) /\ pc[g] \in Hashed
               /\ tmp'[Session(g)] = NoFile \/ tmp'[Session(g)] = tmp[Session(g)]
    <3>1. pc[g] \in Hashed /\ Completes(g) /\ Session(g) \in Sessions
      BY <2>1, <2>3 DEF Hashed, Completes, CompletePCs, Core, ParametersOK
    <3> QED BY <2>1, <3>1
  <2> QED BY <1>2, <2>1, <2>2, <2>3, VerifyFrame
<1>3. ASSUME Next, Crash
      PROVE  Verifies'
  <2>1. \A g \in Handlers : pc'[g] \notin Hashed
    BY <1>3 DEF Crash, Hashed
  <2>2. UNCHANGED <<tmp, cas, late>>
    BY <1>3 DEF Crash
  <2> QED BY <1>3, <2>1, <2>2, VerifyQuiet
<1>4. ASSUME Next, NEW g \in Collectors,
             RemoveOrphan(g) \/ \E a \in Shas : ClaimOrphan(g, a)
      PROVE  Verifies'
  <2>1. /\ UNCHANGED <<uploads, tmp, late, pc>>
        /\ \A a \in Shas : cas'[a] \in {cas[a], NoFile}
        /\ \A h \in Handlers : req'[h].s = req[h].s
    <3>1. CASE RemoveOrphan(g)
      <4>1. cas \in [Shas -> File \cup {NoFile}] /\ req \in [Handlers -> Request]
        BY DEF Core, TypeOK
      <4>2. QED BY <3>1, <4>1, StoredUnlinkedFacts DEF RemoveOrphan
    <3>2. CASE \E a \in Shas : ClaimOrphan(g, a)
      BY <3>2 DEF ClaimOrphan
    <3>3. QED BY <1>4, <3>1, <3>2
  <2>2. ASSUME NEW h \in Handlers, pc'[h] \in Hashed
        PROVE  Completes(h) /\ pc[h] \in Hashed /\ tmp'[Session(h)] = tmp[Session(h)]
    BY <2>1, <2>2 DEF Hashed, Completes, CompletePCs
  <2> QED BY <1>4, <2>1, <2>2, VerifyFrame
<1> QED BY <1>0, <1>1, <1>2, <1>3, <1>4, VerifyMoves, VerifyFiles
        DEF Next, HandlerStep

-----------------------------------------------------------------------------
(* What a resuming client is told                                           *)

LEMMA InitRest == Init => Resumes /\ Verifies
<1> SUFFICES ASSUME Init PROVE Resumes /\ Verifies
  OBVIOUS
<1>1. /\ \A s \in Sessions : uploads[s].status = "unused" /\ uploads[s].received = {}
      /\ \A h \in Handlers : pc[h] = "idle" /\ req[h].handle = "none"
      /\ \A a \in Shas : cas[a] = NoFile
  BY RequestFacts DEF Init, NoUpload
<1>2. \A s \in Sessions : ReceivedOK(s)
  BY <1>1 DEF ReceivedOK, Intact, Live, Undecided
<1>3. \A h \in Handlers : ChunkOK(h) /\ HashTrue(h)
  BY <1>1 DEF ChunkOK, HashTrue, PutPCs
<1> QED BY <1>1, <1>2, <1>3 DEF Resumes, Verifies, StoredVerifiesUnlessLate

\* A session comes back to clients only from who has not decided on it.
LEMMA LiveFrame ==
    ASSUME NEW s,
           uploads'[s].status = "open" => Live(s),
           \A g \in Handlers : pc'[g] \in Undecided /\ req'[g].s = s =>
              \/ pc[g] \in Undecided /\ req[g].s = s
              \/ Live(s)
    PROVE  Live(s)' => Live(s)
BY DEF Live, Session

\* Nothing but the way of requests and the status of sessions has changed.
LEMMA ResumeQuiet ==
    ASSUME Core, Resumes, UNCHANGED <<tmp, removed>>,
           \A s \in Sessions :
              /\ Live(s)' => Live(s)
              /\ uploads'[s].received \in {uploads[s].received, {}}
              /\ uploads'[s].status \in {"unused", "named"} =>
                    uploads'[s].status = uploads[s].status \/ uploads'[s].received = {}
              /\ uploads[s].status \in {"open", "finalizing", "gone"} =>
                    uploads'[s].status \in {"open", "finalizing", "gone"},
           \A g \in Handlers :
              \/ /\ pc'[g] \notin PutPCs \cup {"insert"}
                 /\ req'[g].handle = "none"
              \/ pc'[g] = pc[g] /\ req'[g] = req[g]
              \/ /\ pc'[g] = "open" /\ req'[g].handle = "none"
                 /\ uploads'[req'[g].s].status = "open"
    PROVE  Resumes'
<1>1. \A s \in Sessions : Intact(s)' => Intact(s)
  BY DEF Intact
<1>2. ASSUME NEW s \in Sessions PROVE ReceivedOK(s)'
  BY <1>1 DEF Resumes, ReceivedOK
<1>3. ASSUME NEW g \in Handlers PROVE ChunkOK(g)'
  <2>1. CASE pc'[g] \notin PutPCs \cup {"insert"} /\ req'[g].handle = "none"
    BY <2>1 DEF ChunkOK, PutPCs
  <2>2. CASE pc'[g] = "open" /\ req'[g].handle = "none"
             /\ uploads'[req'[g].s].status = "open"
    BY <2>2 DEF ChunkOK, PutPCs, Session
  <2>3. CASE pc'[g] = pc[g] /\ req'[g] = req[g]
    <3>1. ChunkOK(g) /\ req[g].handle \in {"none", "tmp", "cas", "unlinked"}
      BY DEF Resumes, Core, TypeOK, Request
    <3>2. pc[g] \in PutPCs => req[g].s \in Sessions
      BY DEF Core, ParametersOK, Session
    <3>3. pc[g] \in {"write", "recreate", "mark"} => pc[g] \in PutPCs
      BY DEF PutPCs
    <3> QED BY <1>1, <2>3, <3>1, <3>2, <3>3 DEF ChunkOK, Session
  <2> QED BY <2>1, <2>2, <2>3
<1> QED BY <1>2, <1>3 DEF Resumes

\* Requests on the move: their sessions keep their status.
LEMMA ResumeWalks ==
    ASSUME Core, Resumes, NEW h \in Handlers, UNCHANGED <<uploads, tmp, removed>>,
           \A g \in Handlers : g # h => pc'[g] = pc[g] /\ req'[g] = req[g],
           pc'[h] \in Undecided => pc[h] \in Undecided /\ req'[h].s = req[h].s,
           \/ pc'[h] \notin PutPCs \cup {"insert"} /\ req'[h].handle = "none"
           \/ /\ pc'[h] = "open" /\ req'[h].handle = "none"
              /\ uploads[req'[h].s].status = "open"
    PROVE  Resumes'
<1>1. ASSUME NEW s \in Sessions PROVE Live(s)' => Live(s)
  BY LiveFrame DEF Live
<1> QED BY <1>1, ResumeQuiet

\* Where a request is that holds no handle.
LEMMA NoHandle ==
    ASSUME Resumes, NEW h \in Handlers, pc[h] # "write"
    PROVE  req[h].handle = "none"
BY DEF Resumes, ChunkOK

LEMMA ResumeMoves ==
    ASSUME Core, Resumes, NEW h \in Handlers,
           \/ Hash(h) \/ Exists(h) \/ LostRace(h) \/ Upsert(h) \/ Fail(h)
           \/ \E u \in Users, a \in Shas : Begin(h, u, a)
           \/ \E s \in Sessions, c \in Chunks, b \in Bytes : Put(h, s, c, b)
           \/ Find(h) /\ UNCHANGED uploads /\ Return(h)
           \/ Rename(h) /\ Goto(h, "lostRace") /\ UNCHANGED <<tmp, cas>>
    PROVE  Resumes'
<1>0. pc \in [Handlers -> PCs] /\ req \in [Handlers -> Request]
  BY DEF Core, TypeOK
<1> USE <1>0 DEF Undecided, PutPCs
<1>1. CASE Hash(h) \/ Exists(h) \/ LostRace(h) \/ Upsert(h)
  <2>1. /\ UNCHANGED <<uploads, tmp, removed, req>> /\ pc[h] # "write"
        /\ \A g \in Handlers : g # h => pc'[g] = pc[g]
    BY <1>1 DEF Hash, Exists, LostRace, Upsert, Goto
  <2>2. pc'[h] \in Undecided => pc[h] \in Undecided
    BY <1>1 DEF Hash, Exists, LostRace, Upsert, Goto
  <2>3. pc'[h] \notin PutPCs \cup {"insert"}
    BY <1>1 DEF Hash, Exists, LostRace, Upsert, Goto
  <2> QED BY <2>1, <2>2, <2>3, NoHandle, ResumeWalks
<1>2. CASE Fail(h)
  <2>1. UNCHANGED <<uploads, tmp, removed>>
    BY <1>2 DEF Fail
  <2>2. CASE pc[h] \in DOMAIN FailsTo
    <3>1. /\ UNCHANGED req /\ pc[h] # "write"
          /\ \A g \in Handlers : g # h => pc'[g] = pc[g]
          /\ pc'[h] \in Undecided => pc[h] \in Undecided
          /\ pc'[h] \notin PutPCs \cup {"insert"}
      BY <1>2, <2>2 DEF Fail, FailsTo, Goto
    <3> QED BY <2>1, <3>1, NoHandle, ResumeWalks
  <2>3. CASE pc[h] \notin DOMAIN FailsTo
    <3>1. Return(h)
      BY <1>2, <2>3 DEF Fail
    <3>2. /\ \A g \in Handlers : g # h => pc'[g] = pc[g] /\ req'[g] = req[g]
          /\ pc'[h] = "idle" /\ req'[h].handle = "none"
      BY <3>1, RequestFacts DEF Return
    <3> QED BY <2>1, <3>2, ResumeWalks
  <2> QED BY <2>2, <2>3
<1>3. ASSUME NEW u \in Users, NEW a \in Shas, Begin(h, u, a)
      PROVE  Resumes'
  <2>1. /\ UNCHANGED <<uploads, tmp, removed>>
        /\ \A g \in Handlers : g # h => pc'[g] = pc[g] /\ req'[g] = req[g]
        /\ pc'[h] = "find" /\ req'[h].handle = "none"
    BY <1>3 DEF Begin, Start, NoRequest
  <2> QED BY <2>1, ResumeWalks
<1>4. ASSUME NEW s \in Sessions, NEW c \in Chunks, NEW b \in Bytes, Put(h, s, c, b)
      PROVE  Resumes'
  <2>1. /\ UNCHANGED <<uploads, tmp, removed>>
        /\ \A g \in Handlers : g # h => pc'[g] = pc[g] /\ req'[g] = req[g]
        /\ pc'[h] = "open" /\ req'[h].handle = "none" /\ req'[h].s = s
        /\ uploads[s].status = "open"
    BY <1>4 DEF Put, Start, NoRequest, Usable
  <2> QED BY <2>1, ResumeWalks
<1>5. CASE Find(h) /\ UNCHANGED uploads /\ Return(h)
  <2>1. /\ UNCHANGED <<uploads, tmp, removed>>
        /\ \A g \in Handlers : g # h => pc'[g] = pc[g] /\ req'[g] = req[g]
        /\ pc'[h] = "idle" /\ req'[h].handle = "none"
    BY <1>5, RequestFacts DEF Find, Return
  <2> QED BY <2>1, ResumeWalks
<1>6. CASE Rename(h) /\ Goto(h, "lostRace") /\ UNCHANGED <<tmp, cas>>
  <2>1. /\ UNCHANGED <<uploads, tmp, removed, req>> /\ pc[h] = "rename"
        /\ \A g \in Handlers : g # h => pc'[g] = pc[g]
        /\ pc'[h] = "lostRace"
    BY <1>6 DEF Rename, Goto
  <2> QED BY <2>1, NoHandle, ResumeWalks
<1> QED BY <1>1, <1>2, <1>3, <1>4, <1>5, <1>6

\* A session is drawn, claimed, deleted, reopened or expires.
LEMMA ResumeStatus ==
    ASSUME Core, Resumes,
           \/ \E h \in Handlers :
                 \/ Find(h) \/ Finish(h) \/ Release(h)
                 \/ \E s \in Sessions : Claim(h, s)
           \/ \E s \in Sessions : Expire(s) \/ Ttl(s)
           \/ Crash
    PROVE  Resumes'
<1>0. /\ pc \in [Handlers -> PCs] /\ req \in [Handlers -> Request]
      /\ uploads \in [Sessions -> Upload]
  BY DEF Core, TypeOK
<1>1. ASSUME NEW h \in Handlers, Find(h) PROVE Resumes'
  <2>1. CASE UNCHANGED uploads /\ Return(h)
    BY <1>1, <2>1, ResumeMoves
  <2>2. ASSUME NEW s \in Sessions, uploads[s].status = "unused",
               uploads' = [uploads EXCEPT ![s] =
                   [NoUpload EXCEPT !.status = "named", !.sha = req[h].sha,
                                    !.user = req[h].user]],
               pc' = [pc EXCEPT ![h] = "mkTmp"],
               req' = [req EXCEPT ![h].s = s]
        PROVE  Resumes'
    <3>1. /\ uploads'[s].status = "named" /\ uploads'[s].received = {}
          /\ \A t \in Sessions : t # s => uploads'[t] = uploads[t]
      BY <1>0, <2>2 DEF NoUpload
    <3>2. /\ \A g \in Handlers : g # h => pc'[g] = pc[g] /\ req'[g] = req[g]
          /\ pc'[h] = "mkTmp" /\ req'[h].handle = req[h].handle
      BY <1>0, <2>2, SessionFacts
    <3>3. req'[h].handle = "none"
      BY <1>1, <3>2, NoHandle DEF Find
    <3>4. ASSUME NEW t \in Sessions PROVE Live(t)' => Live(t)
      BY <3>1, <3>2, LiveFrame DEF Live, Undecided
    <3>5. UNCHANGED <<tmp, removed>>
      BY <1>1 DEF Find
    <3>6. pc'[h] \notin PutPCs \cup {"insert"}
      BY <3>2 DEF PutPCs
    <3>7. ASSUME NEW t \in Sessions
          PROVE  /\ uploads'[t].received \in {uploads[t].received, {}}
                 /\ uploads'[t].status \in {"unused", "named"} =>
                       uploads'[t].status = uploads[t].status \/ uploads'[t].received = {}
                 /\ uploads[t].status \in {"open", "finalizing", "gone"} =>
                       uploads'[t].status \in {"open", "finalizing", "gone"}
      BY <2>2, <3>1
    <3> QED BY <3>2, <3>3, <3>4, <3>5, <3>6, <3>7, ResumeQuiet
  <2> QED BY <1>1, <2>1, <2>2 DEF Find
<1>2. ASSUME NEW h \in Handlers, NEW s \in Sessions, SetStatus(s, "gone"), Completes(h),
             Return(h), UNCHANGED <<tmp, removed>>
      PROVE  Resumes'
  <2>1. \A t \in Sessions :
           /\ uploads'[t].received = uploads[t].received
           /\ uploads'[t].status = IF t = s THEN "gone" ELSE uploads[t].status
    BY <1>0, <1>2 DEF SetStatus, Upload
  <2>2. /\ \A g \in Handlers : g # h => pc'[g] = pc[g] /\ req'[g] = req[g]
        /\ pc'[h] = "idle" /\ req'[h].handle = "none"
    BY <1>0, <1>2, RequestFacts DEF Return
  <2>3. ASSUME NEW t \in Sessions PROVE Live(t)' => Live(t)
    BY <2>1, <2>2, LiveFrame DEF Live, Undecided
  <2>4. pc'[h] \notin PutPCs \cup {"insert"}
    BY <2>2 DEF PutPCs
  <2> QED BY <1>2, <2>1, <2>2, <2>3, <2>4, ResumeQuiet
<1>3. ASSUME NEW h \in Handlers, Finish(h) PROVE Resumes'
  <2>1. Completes(h) /\ Session(h) \in Sessions
    BY <1>3 DEF Finish, Completes, CompletePCs, Core, ParametersOK
  <2> QED BY <1>2, <1>3, <2>1 DEF Finish
<1>4. ASSUME NEW h \in Handlers, Release(h) PROVE Resumes'
  <2>1. /\ Completes(h) /\ Session(h) \in Sessions /\ Live(Session(h))
        /\ uploads[Session(h)].status \in {"finalizing", "gone"}
    BY <1>4 DEF Release, Completes, CompletePCs, Core, ParametersOK, OwnerOK,
                Live, Undecided
  <2>2. PICK s \in Sessions : s = Session(h)
    BY <2>1
  <2>3. \A t \in Sessions :
           /\ uploads'[t].received = uploads[t].received
           /\ t # s => uploads'[t].status = uploads[t].status
           /\ uploads'[s].status \in {"open", "gone"}
    BY <1>0, <1>4, <2>2 DEF Release, SetStatus, Upload
  <2>4. /\ \A g \in Handlers : g # h => pc'[g] = pc[g] /\ req'[g] = req[g]
        /\ pc'[h] = "idle" /\ req'[h].handle = "none"
    BY <1>0, <1>4, RequestFacts DEF Release, Return
  <2>5. ASSUME NEW t \in Sessions PROVE Live(t)' => Live(t)
    BY <2>1, <2>2, <2>3, <2>4, LiveFrame DEF Live, Undecided
  <2>6. pc'[h] \notin PutPCs \cup {"insert"} /\ UNCHANGED <<tmp, removed>>
    BY <1>4, <2>4 DEF PutPCs, Release
  <2>7. ASSUME NEW t \in Sessions
        PROVE  /\ uploads'[t].received \in {uploads[t].received, {}}
               /\ uploads'[t].status \in {"unused", "named"} =>
                     uploads'[t].status = uploads[t].status
               /\ uploads[t].status \in {"open", "finalizing", "gone"} =>
                     uploads'[t].status \in {"open", "finalizing", "gone"}
    BY <2>3
  <2> QED BY <2>4, <2>5, <2>6, <2>7, ResumeQuiet
<1>5. ASSUME NEW h \in Handlers, NEW s \in Sessions, Claim(h, s) PROVE Resumes'
  <2>1. /\ uploads[s].status = "open"
        /\ \A t \in Sessions :
              /\ uploads'[t].received = uploads[t].received
              /\ uploads'[t].status = IF t = s THEN "finalizing" ELSE uploads[t].status
    BY <1>0, <1>5 DEF Claim, Usable, SetStatus, Upload
  <2>2. /\ \A g \in Handlers : g # h => pc'[g] = pc[g] /\ req'[g] = req[g]
        /\ pc'[h] \in {"hash", "release"} /\ req'[h].handle = "none"
        /\ req'[h].s = s
    BY <1>0, <1>5 DEF Claim, Start, NoRequest
  <2>3. ASSUME NEW t \in Sessions PROVE Live(t)' => Live(t)
    BY <2>1, <2>2, LiveFrame DEF Live, Undecided
  <2>4. pc'[h] \notin PutPCs \cup {"insert"} /\ UNCHANGED <<tmp, removed>>
    BY <1>5, <2>2 DEF PutPCs, Claim
  <2> QED BY <2>1, <2>2, <2>3, <2>4, ResumeQuiet
<1>6. ASSUME NEW s \in Sessions, Expire(s) \/ Ttl(s) PROVE Resumes'
  <2>1. /\ uploads[s].status \notin {"unused", "named"}
        /\ UNCHANGED <<tmp, removed, pc, req>>
    BY <1>6 DEF Expire, Ttl, Core, SessionOK
  <2>2. \A t \in Sessions :
           /\ uploads'[t].received = uploads[t].received
           /\ uploads'[t].status \in {uploads[t].status, "gone"}
           /\ t # s => uploads'[t].status = uploads[t].status
    BY <1>0, <1>6 DEF Expire, Ttl, SetStatus, Upload
  <2>3. ASSUME NEW t \in Sessions PROVE Live(t)' => Live(t)
    BY <2>1, <2>2, LiveFrame DEF Live
  <2>4. ASSUME NEW t \in Sessions
        PROVE  /\ uploads'[t].received \in {uploads[t].received, {}}
               /\ uploads'[t].status \in {"unused", "named"} =>
                     uploads'[t].status = uploads[t].status
               /\ uploads[t].status \in {"open", "finalizing", "gone"} =>
                     uploads'[t].status \in {"open", "finalizing", "gone"}
    BY <2>2
  <2> QED BY <2>1, <2>3, <2>4, ResumeQuiet
<1>7. CASE Crash
  <2>1. /\ UNCHANGED <<uploads, tmp, removed>>
        /\ \A g \in Handlers : pc'[g] = "idle" /\ req'[g].handle = "none"
    BY <1>7, RequestFacts DEF Crash
  <2>2. ASSUME NEW t \in Sessions PROVE Live(t)' => Live(t)
    BY <2>1 DEF Live, Undecided
  <2>3. "idle" \notin PutPCs \cup {"insert"}
    BY DEF PutPCs
  <2> QED BY <2>1, <2>2, <2>3, ResumeQuiet
<1> QED BY <1>1, <1>3, <1>4, <1>5, <1>6, <1>7

\* A file is created, written, moved or removed: what a request needs that
\* stays where it is.
LEMMA ResumeOthers ==
    ASSUME Core, Resumes, NEW g \in Handlers, Keeps(g),
           \A s \in Sessions :
              /\ Intact(s)' => Intact(s)
              /\ uploads[s].status \in {"open", "finalizing", "gone"} =>
                    uploads'[s].status \in {"open", "finalizing", "gone"}
              /\ Intact(s) /\ Intact(s)' =>
                    \A c \in Chunks : tmp[s][c] # "hole" => tmp'[s][c] # "hole",
           pc[g] = "insert" => tmp'[req[g].s] # NoFile,
           req'[g].handle = "none" <=> req[g].handle = "none",
           req'[g].handle \in {"cas", "unlinked"} =>
              req[g].handle \in {"cas", "unlinked"} \/ ~Intact(req[g].s)'
    PROVE  ChunkOK(g)'
<1>1. ChunkOK(g) /\ (pc[g] \in PutPCs => req[g].s \in Sessions /\ req[g].chunk \in Chunks)
  BY DEF Resumes, Core, ParametersOK, Session
<1>2. /\ pc'[g] = pc[g] /\ req'[g].s = req[g].s /\ req'[g].chunk = req[g].chunk
  BY DEF Keeps
<1>3. pc'[g] \in PutPCs => uploads'[req'[g].s].status \in {"open", "finalizing", "gone"}
  BY <1>1, <1>2 DEF ChunkOK, Session
<1>4. req'[g].handle # "none" <=> pc'[g] = "write"
  BY <1>1, <1>2 DEF ChunkOK
<1>5. pc'[g] = "insert" => tmp'[req'[g].s] # NoFile
  BY <1>2
<1>6. pc'[g] = "recreate" \/ req'[g].handle \in {"cas", "unlinked"} => ~Intact(req[g].s)'
  <2>1. pc[g] \in {"recreate", "write"} => req[g].s \in Sessions
    BY <1>1 DEF PutPCs
  <2>2. req[g].handle # "none" => pc[g] = "write"
    BY <1>1 DEF ChunkOK
  <2>3. pc[g] = "recreate" \/ req[g].handle \in {"cas", "unlinked"} => ~Intact(req[g].s)
    BY <1>1 DEF ChunkOK, Session
  <2> QED BY <1>2, <2>1, <2>2, <2>3
<1>7. pc'[g] = "mark" /\ Intact(req[g].s)' => tmp'[req'[g].s][req'[g].chunk] # "hole"
  <2>1. pc[g] = "mark" => req[g].s \in Sessions /\ req[g].chunk \in Chunks
    BY <1>1 DEF PutPCs
  <2>2. pc[g] = "mark" /\ Intact(req[g].s) => tmp[req[g].s][req[g].chunk] # "hole"
    BY <1>1 DEF ChunkOK, Session
  <2> QED BY <1>2, <2>1, <2>2
<1>8. \A s : (s = req'[g].s /\ Intact(s)') => Intact(req[g].s)'
  BY <1>2
<1> QED BY <1>2, <1>3, <1>4, <1>5, <1>6, <1>7, <1>8 DEF ChunkOK, Session

LEMMA ResumeCreates ==
    ASSUME Core, Resumes, NEW h \in Handlers, MkTmp(h) \/ Insert(h)
    PROVE  Resumes'
<1>0. /\ pc \in [Handlers -> PCs] /\ req \in [Handlers -> Request]
      /\ uploads \in [Sessions -> Upload]
      /\ tmp \in [Sessions -> File \cup {NoFile}]
  BY DEF Core, TypeOK
<1>1. /\ Creates(h) /\ Session(h) \in Sessions
      /\ uploads[Session(h)].status = "named" /\ uploads[Session(h)].received = {}
      /\ \A g \in Handlers : Session(g) = Session(h) => g = h
      /\ req[h].handle = "none"
  BY NoHandle DEF MkTmp, Insert, Creates, Core, OwnerOK, ParametersOK, Resumes, ReceivedOK
<1>2. PICK s \in Sessions : s = Session(h)
  BY <1>1
<1>3. CASE MkTmp(h)
  <2>1. /\ UNCHANGED <<uploads, removed, req>>
        /\ tmp' = [tmp EXCEPT ![s] = Holes]
        /\ \A g \in Handlers : g # h => pc'[g] = pc[g]
        /\ pc'[h] = "insert"
    BY <1>0, <1>2, <1>3 DEF MkTmp, Goto
  <2>2. ASSUME NEW t \in Sessions PROVE Intact(t)' => Intact(t) /\ t # s
    <3>1. Live(t)' => Live(t)
      BY <2>1, LiveFrame DEF Live, Undecided
    <3>2. ~Live(s)'
      BY <1>1, <1>2, <2>1 DEF Live, Undecided, Session
    <3> QED BY <2>1, <3>1, <3>2 DEF Intact
  <2>3. /\ \A t \in Sessions : t # s => tmp'[t] = tmp[t]
        /\ tmp'[s] # NoFile
    <3>1. Holes # NoFile
      BY UploadAssumption DEF Holes, NoFile
    <3> QED BY <1>0, <2>1, <3>1
  <2>4. ASSUME NEW t \in Sessions PROVE ReceivedOK(t)'
    BY <2>1, <2>2, <2>3 DEF Resumes, ReceivedOK
  <2>5. ASSUME NEW g \in Handlers, g # h PROVE ChunkOK(g)'
    <3>1. Keeps(g)
      BY <2>1, <2>5 DEF Keeps
    <3>2. pc[g] = "insert" => tmp'[req[g].s] # NoFile
      <4>1. pc[g] = "insert" => req[g].s \in Sessions /\ tmp[req[g].s] # NoFile
        BY DEF Resumes, ChunkOK, Core, ParametersOK, Creates, Session
      <4> QED BY <2>3, <4>1
    <3> QED BY <2>1, <2>2, <2>3, <3>1, <3>2, ResumeOthers
  <2>6. ChunkOK(h)'
    BY <1>1, <1>2, <2>1, <2>3 DEF ChunkOK, PutPCs, Session
  <2> QED BY <2>4, <2>5, <2>6 DEF Resumes
<1>4. CASE Insert(h)
  <2>1. /\ UNCHANGED <<tmp, removed>> /\ pc[h] = "insert" /\ tmp[s] # NoFile
        /\ \A g \in Handlers : g # h => pc'[g] = pc[g] /\ req'[g] = req[g]
        /\ pc'[h] = "idle" /\ req'[h].handle = "none"
    BY <1>0, <1>2, <1>4, RequestFacts DEF Insert, Return, Resumes, ChunkOK
  <2>2. \A t \in Sessions :
           /\ uploads'[t].received = uploads[t].received
           /\ uploads'[t].status = IF t = s THEN "open" ELSE uploads[t].status
    BY <1>0, <1>2, <1>4 DEF Insert, SetStatus, Upload
  <2>3. ASSUME NEW t \in Sessions, t # s PROVE Intact(t)' => Intact(t)
    <3>1. Live(t)' => Live(t)
      BY <2>1, <2>2, <2>3, LiveFrame DEF Live, Undecided
    <3> QED BY <2>1, <3>1 DEF Intact
  <2>4. ASSUME NEW t \in Sessions PROVE ReceivedOK(t)'
    BY <1>1, <1>2, <2>1, <2>2, <2>3 DEF Resumes, ReceivedOK
  <2>5. ASSUME NEW g \in Handlers, g # h PROVE ChunkOK(g)'
    <3>1. /\ pc'[g] = pc[g] /\ req'[g] = req[g] /\ ChunkOK(g) /\ Session(g) # s
          /\ req[g].handle \in {"none", "tmp", "cas", "unlinked"}
      BY <1>0, <1>1, <1>2, <2>1, <2>5 DEF Resumes, Request
    <3>2. pc[g] \in PutPCs => req[g].s \in Sessions
      BY DEF Core, ParametersOK, Session
    <3>3. pc[g] \in {"write", "recreate", "mark"} => pc[g] \in PutPCs
      BY DEF PutPCs
    <3> QED BY <2>1, <2>2, <2>3, <3>1, <3>2, <3>3 DEF ChunkOK, Session
  <2>6. ChunkOK(h)'
    BY <2>1 DEF ChunkOK, PutPCs
  <2> QED BY <2>4, <2>5, <2>6 DEF Resumes
<1> QED BY <1>3, <1>4

\* A chunk request from its open to its mark.
LEMMA ResumeChunks ==
    ASSUME Core, Resumes, NEW h \in Handlers,
           Open(h) \/ Recreate(h) \/ Write(h) \/ Mark(h)
    PROVE  Resumes'
<1>0. /\ pc \in [Handlers -> PCs] /\ req \in [Handlers -> Request]
      /\ uploads \in [Sessions -> Upload]
      /\ tmp \in [Sessions -> File \cup {NoFile}]
  BY DEF Core, TypeOK
<1>1. /\ pc[h] \in {"open", "recreate", "write", "mark"}
      /\ Session(h) \in Sessions /\ req[h].chunk \in Chunks /\ req[h].byte \in Bytes
      /\ uploads[Session(h)].status \in {"open", "finalizing", "gone"}
      /\ ChunkOK(h)
  BY DEF Open, Recreate, Write, Mark, PutPCs, Core, ParametersOK, Resumes, ChunkOK
<1>2. PICK s \in Sessions : s = Session(h)
  BY <1>1
<1>3. /\ UNCHANGED removed
      /\ \A g \in Handlers : g # h => pc'[g] = pc[g] /\ req'[g] = req[g]
      /\ pc'[h] \in {"recreate", "write", "mark", "idle"}
  BY <1>0 DEF Open, Recreate, Write, Mark, Goto, Return
<1>4. \A t \in Sessions : uploads'[t].status = uploads[t].status
  BY <1>0 DEF Open, Recreate, Write, Mark, Upload
<1>5. ASSUME NEW t \in Sessions PROVE Intact(t)' => Intact(t)
  <2>1. Live(t)' => Live(t)
    BY <1>3, <1>4, LiveFrame DEF Live, Undecided
  <2> QED BY <1>3, <2>1 DEF Intact
<1>6. ASSUME \A t \in Sessions :
                /\ tmp[t] # NoFile => tmp'[t] # NoFile
                /\ Intact(t) => \A c \in Chunks : tmp[t][c] # "hole" => tmp'[t][c] # "hole"
      PROVE  \A g \in Handlers : g # h => ChunkOK(g)'
  <2> SUFFICES ASSUME NEW g \in Handlers, g # h PROVE ChunkOK(g)'
    OBVIOUS
  <2>1. Keeps(g) /\ req'[g].handle = req[g].handle
    BY <1>3 DEF Keeps
  <2>2. pc[g] = "insert" => tmp'[req[g].s] # NoFile
    <3>1. pc[g] = "insert" => req[g].s \in Sessions /\ tmp[req[g].s] # NoFile
      BY DEF Resumes, ChunkOK, Core, ParametersOK, Creates, Session
    <3> QED BY <1>6, <3>1
  <2> QED BY <1>4, <1>5, <1>6, <2>1, <2>2, ResumeOthers
<1>7. CASE Open(h)
  <2>1. UNCHANGED <<tmp, uploads>> /\ pc[h] = "open"
    BY <1>7 DEF Open
  <2>2. ASSUME NEW t \in Sessions PROVE ReceivedOK(t)'
    BY <1>3, <1>5, <2>1 DEF Resumes, ReceivedOK
  <2>3. ChunkOK(h)'
    <3>1. CASE tmp[s] = NoFile
      <4>1. pc'[h] = "recreate" /\ UNCHANGED req
        BY <1>0, <1>2, <1>7, <3>1 DEF Open, Goto
      <4>2. ~Intact(s)
        BY <3>1 DEF Resumes, ReceivedOK
      <4>3. req[h].handle = "none"
        BY <1>1, <2>1 DEF ChunkOK
      <4> QED BY <1>1, <1>2, <1>4, <1>5, <4>1, <4>2, <4>3 DEF ChunkOK, Session
    <3>2. CASE tmp[s] # NoFile
      <4>1. pc'[h] = "write" /\ req'[h].handle = "tmp" /\ req'[h].s = s
        BY <1>0, <1>2, <1>7, <3>2, HandleFacts DEF Open, Session
      <4> QED BY <1>1, <1>2, <1>4, <4>1 DEF ChunkOK, Session
    <3> QED BY <3>1, <3>2
  <2> QED BY <1>6, <2>1, <2>2, <2>3 DEF Resumes
<1>8. CASE Recreate(h)
  <2>1. /\ UNCHANGED uploads /\ tmp' = [tmp EXCEPT ![s] = Holes]
        /\ pc'[h] = "write" /\ req'[h].handle = "tmp" /\ req'[h].s = s
        /\ ~Intact(s)
    BY <1>0, <1>1, <1>2, <1>8, HandleFacts DEF Recreate, ChunkOK, Session
  <2>2. Holes # NoFile
    BY UploadAssumption DEF Holes, NoFile
  <2>3. \A t \in Sessions : (t # s => tmp'[t] = tmp[t]) /\ (tmp[t] # NoFile => tmp'[t] # NoFile)
    BY <1>0, <2>1, <2>2
  <2>4. ASSUME NEW t \in Sessions PROVE ReceivedOK(t)'
    BY <1>3, <1>5, <2>1, <2>3 DEF Resumes, ReceivedOK
  <2>5. ChunkOK(h)'
    BY <1>1, <1>2, <1>4, <2>1 DEF ChunkOK, Session
  <2>6. \A t \in Sessions : Intact(t) => tmp'[t] = tmp[t]
    BY <2>1, <2>3
  <2> QED BY <1>6, <2>3, <2>4, <2>5, <2>6 DEF Resumes
<1>9. CASE Write(h)
  <2>1. /\ UNCHANGED uploads /\ pc[h] = "write" /\ pc'[h] = "mark"
        /\ req'[h].handle = "none" /\ req'[h].s = s /\ req'[h].chunk = req[h].chunk
    BY <1>0, <1>2, <1>9, HandleFacts DEF Write, Session
  <2>2. req[h].handle \in {"tmp", "cas", "unlinked"}
    BY <1>0, <1>1, <2>1 DEF ChunkOK, Request
  <2>3. ASSUME req[h].handle = "tmp"
        PROVE  /\ \A t \in Sessions : t # s => tmp'[t] = tmp[t]
               /\ tmp'[s] = [tmp[s] EXCEPT ![req[h].chunk] = req[h].byte]
               /\ tmp[s] \in File /\ tmp'[s] \in File
    <3>1. tmp' = [tmp EXCEPT ![s][req[h].chunk] = req[h].byte]
      BY <1>2, <1>9, <2>3 DEF Write
    <3>2. tmp[s] \in File
      BY <1>0, <1>2, <2>3 DEF Core, HandleOK
    <3>3. tmp'[s] = [tmp[s] EXCEPT ![req[h].chunk] = req[h].byte]
      BY <1>0, <3>1
    <3> QED BY <1>0, <1>1, <3>1, <3>2, <3>3, ChunkFacts
  <2>4. req[h].handle # "tmp" => tmp' = tmp /\ ~Intact(s)
    BY <1>1, <1>2, <1>9, <2>2 DEF Write, ChunkOK
  <2>5. req[h].byte # "hole" /\ NoFile \notin File
    BY <1>1, UploadAssumption DEF File, NoFile
  <2>6. ASSUME NEW t \in Sessions
        PROVE  /\ tmp[t] # NoFile => tmp'[t] # NoFile
               /\ \A c \in Chunks : tmp[t][c] # "hole" => tmp'[t][c] # "hole"
    <3>1. CASE req[h].handle = "tmp"
      BY <1>1, <2>3, <2>5, <3>1 DEF File
    <3>2. CASE req[h].handle # "tmp"
      BY <2>4, <3>2
    <3> QED BY <3>1, <3>2
  <2>7. ASSUME NEW t \in Sessions PROVE ReceivedOK(t)'
    <3>1. uploads[t].received \subseteq Chunks
      BY <1>0 DEF Upload
    <3> QED BY <1>3, <1>5, <2>1, <2>6, <3>1 DEF Resumes, ReceivedOK
  <2>8. ChunkOK(h)'
    <3>1. Intact(s)' => tmp'[s][req[h].chunk] # "hole"
      BY <1>1, <1>5, <2>3, <2>4, <2>5 DEF File
    <3> QED BY <1>1, <1>2, <1>4, <2>1, <3>1 DEF ChunkOK, Session
  <2> QED BY <1>6, <2>6, <2>7, <2>8 DEF Resumes
<1>10. CASE Mark(h)
  <2>1. /\ UNCHANGED tmp /\ pc[h] = "mark" /\ pc'[h] = "idle"
        /\ req'[h].handle = "none"
        /\ Intact(s) => tmp[s][req[h].chunk] # "hole"
    BY <1>0, <1>1, <1>2, <1>10, RequestFacts DEF Mark, Return, ChunkOK
  <2>2. \A t \in Sessions :
           /\ t # s => uploads'[t].received = uploads[t].received
           /\ uploads'[s].received \subseteq uploads[s].received \cup {req[h].chunk}
    BY <1>0, <1>2, <1>10 DEF Mark, Upload
  <2>3. ASSUME NEW t \in Sessions PROVE ReceivedOK(t)'
    <3>1. CASE t = s
      BY <1>1, <1>2, <1>4, <1>5, <2>1, <2>2, <3>1 DEF Resumes, ReceivedOK
    <3>2. CASE t # s
      BY <1>4, <1>5, <2>1, <2>2, <3>2 DEF Resumes, ReceivedOK
    <3> QED BY <3>1, <3>2
  <2>4. ChunkOK(h)'
    BY <2>1 DEF ChunkOK, PutPCs
  <2> QED BY <1>6, <2>1, <2>3, <2>4 DEF Resumes
<1> QED BY <1>7, <1>8, <1>9, <1>10

\* The file of session s goes, and nobody can resume s any more.
LEMMA ResumeGone ==
    ASSUME Core, Resumes, NEW s \in Sessions, UNCHANGED uploads,
           tmp' = [tmp EXCEPT ![s] = NoFile], ~Intact(s)',
           removed \subseteq removed',
           uploads[s].status # "named" \/ \A g \in Handlers : req[g].s # s,
           \A g \in Handlers :
              /\ req'[g].s = req[g].s /\ req'[g].sha = req[g].sha
              /\ req'[g].user = req[g].user
              /\ req'[g].chunk = req[g].chunk /\ req'[g].byte = req[g].byte
              /\ req'[g].handle = "none" <=> req[g].handle = "none"
              /\ req'[g].handle \in {"cas", "unlinked"} =>
                    req[g].handle \in {"cas", "unlinked"} \/ req[g].s = s
              /\ \/ pc'[g] = pc[g]
                 \/ /\ pc[g] \in Undecided \cup {"dropTmp"} /\ req[g].s = s
                    /\ pc'[g] \notin PutPCs \cup Undecided \cup {"insert"}
    PROVE  Resumes'
<1>0. tmp \in [Sessions -> File \cup {NoFile}]
  BY DEF Core, TypeOK
<1>1. ASSUME NEW t \in Sessions PROVE Intact(t)' => Intact(t) /\ t # s
  <2>1. Live(t)' => Live(t)
    BY LiveFrame DEF Live
  <2> QED BY <2>1 DEF Intact
<1>2. \A t \in Sessions : t # s => tmp'[t] = tmp[t]
  BY <1>0
<1>3. ASSUME NEW t \in Sessions PROVE ReceivedOK(t)'
  BY <1>1, <1>2 DEF Resumes, ReceivedOK
<1>4. ASSUME NEW g \in Handlers PROVE ChunkOK(g)'
  <2>1. CASE pc'[g] = pc[g]
    <3>1. Keeps(g)
      BY <2>1 DEF Keeps
    <3>2. pc[g] = "insert" => tmp'[req[g].s] # NoFile
      <4>1. pc[g] = "insert" =>
               /\ req[g].s \in Sessions /\ tmp[req[g].s] # NoFile
               /\ uploads[req[g].s].status = "named"
        BY DEF Resumes, ChunkOK, Core, ParametersOK, OwnerOK, Creates, Session
      <4> QED BY <1>2, <4>1
    <3>3. req'[g].handle \in {"cas", "unlinked"} =>
             req[g].handle \in {"cas", "unlinked"} \/ ~Intact(req[g].s)'
      <4>1. \A t : t = s => ~Intact(t)'
        OBVIOUS
      <4> QED BY <4>1
    <3> QED BY <1>1, <1>2, <2>1, <3>1, <3>2, <3>3, ResumeOthers
  <2>2. CASE /\ pc[g] \in Undecided \cup {"dropTmp"}
             /\ pc'[g] \notin PutPCs \cup Undecided \cup {"insert"}
    <3>1. req'[g].handle = "none"
      BY <2>2, NoHandle DEF Undecided
    <3> QED BY <2>2, <3>1 DEF ChunkOK, PutPCs
  <2> QED BY <2>1, <2>2
<1> QED BY <1>3, <1>4 DEF Resumes

LEMMA HandlesChange ==
    ASSUME req \in [Handlers -> Request], NEW s,
           HandlesUnlinked(s) \/ \E a : HandlesMoved(s, a)
    PROVE  \A g \in Handlers :
              /\ req'[g].s = req[g].s /\ req'[g].sha = req[g].sha
              /\ req'[g].user = req[g].user
              /\ req'[g].chunk = req[g].chunk /\ req'[g].byte = req[g].byte
              /\ req'[g].handle = "none" <=> req[g].handle = "none"
              /\ req'[g].handle \in {"cas", "unlinked"} =>
                    req[g].handle \in {"cas", "unlinked"} \/ req[g].s = s
BY DEF HandlesUnlinked, HandlesMoved, Request, Session

\* The file is stored, discarded or collected.
LEMMA ResumeRemoves ==
    ASSUME Core, Resumes,
           \/ \E h \in Handlers : Discard(h) \/ DropTmp(h) \/ Rename(h)
           \/ \E s \in Sessions : GcStaleTmp(s)
    PROVE  Resumes'
<1>0. pc \in [Handlers -> PCs] /\ req \in [Handlers -> Request]
  BY DEF Core, TypeOK
<1>1. ASSUME NEW h \in Handlers, Completes(h), Session(h) \in Sessions,
             pc[h] \in Undecided \cup {"dropTmp"},
             UNCHANGED <<uploads, removed>>,
             tmp' = [tmp EXCEPT ![Session(h)] = NoFile],
             HandlesUnlinked(Session(h)) \/ \E a : HandlesMoved(Session(h), a),
             pc' = [pc EXCEPT ![h] = "upsert"] \/ pc' = [pc EXCEPT ![h] = "dropDoc"]
      PROVE  Resumes'
  <2>1. PICK s \in Sessions : s = Session(h)
    BY <1>1
  <2>2. \A g \in Handlers :
           /\ req'[g].s = req[g].s /\ req'[g].sha = req[g].sha
           /\ req'[g].user = req[g].user
           /\ req'[g].chunk = req[g].chunk /\ req'[g].byte = req[g].byte
           /\ req'[g].handle = "none" <=> req[g].handle = "none"
           /\ req'[g].handle \in {"cas", "unlinked"} =>
                 req[g].handle \in {"cas", "unlinked"} \/ req[g].s = s
    BY <1>0, <1>1, <2>1, HandlesChange
  <2>3. /\ \A g \in Handlers : g # h => pc'[g] = pc[g]
        /\ pc'[h] \in {"upsert", "dropDoc"}
    BY <1>0, <1>1
  <2>4. /\ uploads[s].status \in {"finalizing", "gone"}
        /\ \A g \in Handlers : pc[g] \in Undecided /\ req[g].s = s => g = h
    BY <1>1, <2>1 DEF Core, OwnerOK, Completes, CompletePCs, Undecided, Session
  <2>5. ~Intact(s)'
    BY <1>1, <2>2, <2>3, <2>4 DEF Intact, Live, Undecided, Session
  <2>6. /\ tmp' = [tmp EXCEPT ![s] = NoFile] /\ uploads[s].status # "named"
        /\ req[h].s = s
        /\ pc'[h] \notin PutPCs \cup Undecided \cup {"insert"}
    BY <1>1, <2>1, <2>3, <2>4 DEF Session, PutPCs, Undecided
  <2> QED BY <1>1, <2>2, <2>3, <2>5, <2>6, ResumeGone
<1>2. ASSUME NEW h \in Handlers, Discard(h) \/ DropTmp(h)
      PROVE  Resumes'
  <2>1. /\ pc[h] \in Undecided \cup {"dropTmp"} /\ Completes(h) /\ Session(h) \in Sessions
    BY <1>2 DEF Discard, DropTmp, Undecided, Completes, CompletePCs, Core, ParametersOK
  <2> QED BY <1>1, <1>2, <2>1 DEF Discard, DropTmp, RemoveTmp
<1>3. ASSUME NEW h \in Handlers, Rename(h)
      PROVE  Resumes'
  <2>1. /\ pc[h] \in Undecided \cup {"dropTmp"} /\ Completes(h) /\ Session(h) \in Sessions
    BY <1>3 DEF Rename, Undecided, Completes, CompletePCs, Core, ParametersOK
  <2>2. CASE tmp[Session(h)] = NoFile
    BY <1>3, <2>2, ResumeMoves DEF Rename
  <2>3. CASE tmp[Session(h)] # NoFile
    BY <1>1, <1>3, <2>1, <2>3 DEF Rename
  <2> QED BY <2>2, <2>3
<1>4. ASSUME NEW s \in Sessions, GcStaleTmp(s)
      PROVE  Resumes'
  <2>1. /\ UNCHANGED <<uploads, pc>> /\ tmp' = [tmp EXCEPT ![s] = NoFile]
        /\ HandlesUnlinked(s) /\ removed' = removed \cup {s}
        /\ uploads[s].status # "named" \/ \A g \in Handlers : req[g].s # s
    BY <1>4 DEF GcStaleTmp, RemoveTmp, Stale, Session, Core, SessionOK
  <2>2. ~Intact(s)'
    BY <2>1 DEF Intact
  <2> QED BY <1>0, <2>1, <2>2, HandlesChange, ResumeGone
<1> QED BY <1>2, <1>3, <1>4

\* The collector of documents leaves the files of sessions alone.
LEMMA ResumeCollects ==
    ASSUME Core, Resumes, NEW g \in Collectors,
           RemoveOrphan(g) \/ \E a \in Shas : ClaimOrphan(g, a)
    PROVE  Resumes'
<1>1. /\ UNCHANGED <<uploads, tmp, removed, pc>>
      /\ \A h \in Handlers :
            /\ req'[h].s = req[h].s /\ req'[h].sha = req[h].sha
            /\ req'[h].user = req[h].user
            /\ req'[h].chunk = req[h].chunk /\ req'[h].byte = req[h].byte
            /\ req'[h].handle = "none" <=> req[h].handle = "none"
            /\ req'[h].handle \in {"cas", "unlinked"} =>
                  req[h].handle \in {"cas", "unlinked"}
  <2>1. CASE RemoveOrphan(g)
    <3>1. req \in [Handlers -> Request]
      BY DEF Core, TypeOK
    <3>2. QED BY <2>1, <3>1, StoredUnlinkedFacts DEF RemoveOrphan
  <2>2. CASE \E a \in Shas : ClaimOrphan(g, a)
    BY <2>2 DEF ClaimOrphan
  <2>3. QED BY <2>1, <2>2
<1>2. ASSUME NEW s \in Sessions PROVE Intact(s)' => Intact(s)
  BY <1>1, LiveFrame DEF Intact, Live
<1>3. ASSUME NEW s \in Sessions PROVE ReceivedOK(s)'
  BY <1>1, <1>2 DEF Resumes, ReceivedOK
<1>4. ASSUME NEW h \in Handlers PROVE ChunkOK(h)'
  <2>1. Keeps(h)
    BY <1>1 DEF Keeps
  <2>2. pc[h] = "insert" => tmp'[req[h].s] # NoFile
    BY <1>1 DEF Resumes, ChunkOK, Session
  <2>3. QED BY <1>1, <1>2, <2>1, <2>2, ResumeOthers
<1>5. QED BY <1>3, <1>4 DEF Resumes

LEMMA ResumeStep ==
    ASSUME Core, Resumes, [Next]_vars
    PROVE  Resumes'
<1>1. CASE UNCHANGED vars
  BY <1>1 DEF vars, Resumes, ReceivedOK, ChunkOK, Intact, Live, Session
<1>2. ASSUME NEW h \in Handlers, HandlerStep(h)
      PROVE  Resumes'
  BY <1>2, ResumeMoves, ResumeStatus, ResumeCreates, ResumeChunks, ResumeRemoves
     DEF HandlerStep
<1>3. ASSUME NEW h \in Handlers,
             \/ \E u \in Users, a \in Shas : Begin(h, u, a)
             \/ \E s \in Sessions :
                   Claim(h, s) \/ \E c \in Chunks, b \in Bytes : Put(h, s, c, b)
             \/ Fail(h)
      PROVE  Resumes'
  BY <1>3, ResumeMoves, ResumeStatus
<1>4. ASSUME NEW s \in Sessions, Expire(s) \/ Ttl(s) \/ GcStaleTmp(s)
      PROVE  Resumes'
  BY <1>4, ResumeStatus, ResumeRemoves
<1>5. CASE Crash
  BY <1>5, ResumeStatus
<1>6. ASSUME NEW g \in Collectors,
             RemoveOrphan(g) \/ \E a \in Shas : ClaimOrphan(g, a)
      PROVE  Resumes'
  BY <1>6, ResumeCollects
<1> QED BY <1>1, <1>2, <1>3, <1>4, <1>5, <1>6 DEF Next

-----------------------------------------------------------------------------
(* Theorems                                                                 *)

\* Sessions, files and requests fit together in every reachable state: handles
\* point to files, a session is finalized by one request, a stored file is what
\* was hashed and is there while an upload relies on it unless a collector took
\* it, and received chunks stay in the file of a session that can be resumed.
THEOREM Invariance == Spec => []IInv
<1>1. IInv /\ [Next]_vars => IInv'
  BY CoreStep, VerifyStep, ResumeStep DEF IInv
<1>2. Init => IInv
  BY InitHolds, InitRest DEF IInv
<1>3. QED BY <1>1, <1>2, PTL DEF Spec

\* The documents, files and local variables of requests keep their shape.
THEOREM TypeCorrect == Spec => []TypeOK
<1>1. IInv => TypeOK
  BY DEF IInv, Core
<1>2. QED BY <1>1, Invariance, PTL

\* However uploads and collections of one content interleave, fail or die, an
\* asset document has its file, except where a collector that had claimed an
\* earlier document removed the file from under an upload, and until the next
\* upload of the content.
THEOREM DocumentsHaveFiles == Spec => []DocHasFileUnlessSwept
<1>1. IInv => DocHasFileUnlessSwept
  BY DEF IInv, Core
<1>2. QED BY <1>1, Invariance, PTL

\* The claim in complete is exclusive, and a session is left finalizing only
\* by a request that died or failed.
THEOREM ClaimsAreExclusive == Spec => []FinalizingOwned
<1>1. ASSUME IInv PROVE FinalizingOwned
  <2>1. ASSUME NEW s \in Sessions, NEW g \in Handlers, NEW h \in Handlers,
               pc[g] \in CompletePCs, Session(g) = s,
               pc[h] \in CompletePCs, Session(h) = s
        PROVE  g = h
    BY <1>1, <2>1 DEF IInv, Core, OwnerOK, Completes
  <2>2. ASSUME NEW s \in Sessions, uploads[s].status = "finalizing",
               s \notin stranded
        PROVE  \E h \in Handlers : pc[h] \in CompletePCs /\ Session(h) = s
    BY <1>1, <2>2 DEF IInv, Core, Owned, Completes
  <2>3. QED BY <2>1, <2>2 DEF FinalizingOwned
<1>2. QED BY <1>1, Invariance, PTL

\* A resuming client is told the truth: what is listed as received is in the
\* tmp file of the open session, unless the collector took it.
THEOREM ReceivedIsThere == Spec => []ResumeTruth
<1>1. IInv => ResumeTruth
  BY DEF IInv, Resumes, ReceivedOK, Intact, Live, ResumeTruth
<1>2. QED BY <1>1, Invariance, PTL

\* Whatever uploads of one content race, a stored file is the content of its
\* name, unless a chunk was written after the hash was taken.
THEOREM StoredIsVerified == Spec => []StoredVerifiesUnlessLate
<1>1. IInv => StoredVerifiesUnlessLate
  BY DEF IInv, Verifies
<1>2. QED BY <1>1, Invariance, PTL
=============================================================================
