------------------------ MODULE AssetAndExportProofs ------------------------
(***************************************************************************)
(* Proofs about AssetStore and about Export, for every value of their      *)
(* constants.  First AssetStore: the inductive invariant IInv and what     *)
(* follows from it.  Then Export and its Project: facts about filtered     *)
(* lists, what an operation does to a project and the parser makes of it,  *)
(* what that means for deletions, retries, locks and edits at once, the    *)
(* plan of a build, and the build of a ZIP step by step.                   *)
(***************************************************************************)
EXTENDS AssetStore, Export, FunctionTheorems, FiniteSetTheorems, SequenceTheorems, TLAPS

USE DEF Revisions

-----------------------------------------------------------------------------
(* The shape of the state                                                   *)

LEMMA UploadSteps ==
    ASSUME TypeOK, NEW u \in Uploaders,
           (\E a \in Shas : Verified(u, a)) \/ Exists(u) \/ Rename(u) \/ Upsert(u)
    PROVE  /\ up' \in [Uploaders -> Upload \cup {NoUpload}]
           /\ asset' \in [Shas -> Asset \cup {Absent}]
           /\ file' \subseteq Shas
<1>1. up[u] \in Upload \/ up[u] = NoUpload
    BY DEF TypeOK
<1>2. up \in [Uploaders -> Upload \cup {NoUpload}]
    BY DEF TypeOK
<1>3. asset \in [Shas -> Asset \cup {Absent}] /\ file \subseteq Shas
    BY DEF TypeOK
<1>4. ASSUME NEW a \in Shas, Verified(u, a)
      PROVE  up' \in [Uploaders -> Upload \cup {NoUpload}] /\ UNCHANGED <<asset, file>>
  <2>1. [at |-> "exists", sha |-> a] \in Upload
      BY DEF Upload
  <2> QED BY <1>4, <1>2, <2>1 DEF Verified
<1>5. CASE Exists(u)
  <2>1. up[u] \in Upload
      BY <1>5, <1>1 DEF Exists, NoUpload
  <2>2. \A x \in {"rename", "upsert"} : [up[u] EXCEPT !.at = x] \in Upload
      BY <2>1 DEF Upload
  <2> QED BY <1>5, <1>2, <1>3, <2>2 DEF Exists
<1>6. CASE Rename(u)
  <2>1. up[u] \in Upload
      BY <1>6, <1>1 DEF Rename, NoUpload
  <2>2. [up[u] EXCEPT !.at = "upsert"] \in Upload /\ up[u].sha \in Shas
      BY <2>1 DEF Upload
  <2> QED BY <1>6, <1>2, <1>3, <2>2 DEF Rename
<1>7. CASE Upsert(u)
  <2>1. [refs |-> 0, old |-> FALSE] \in Asset
      BY DEF Asset
  <2> QED BY <1>7, <1>2, <1>3, <2>1 DEF Upsert
<1> QED BY <1>3, <1>4, <1>5, <1>6, <1>7

LEMMA ReturnTypes ==
    ASSUME TypeOK, NEW h \in Committers, Return(h)
    PROVE  /\ pc' \in [Committers -> {"idle"} \cup CommitPCs]
           /\ req' \in [Committers -> Request]
<1>1. NoRequest \in Request
    BY StoreAssumption DEF NoRequest, Request
<1> QED BY <1>1 DEF TypeOK, Return

LEMMA CommitSteps ==
    ASSUME TypeOK, NumberOwned, NEW h \in Committers,
           (\E base \in 0..head, shas \in SUBSET Shas : Check(h, base, shas))
              \/ Bump(h) \/ Insert(h) \/ Count(h) \/ Abort(h)
    PROVE  /\ pc' \in [Committers -> {"idle"} \cup CommitPCs]
           /\ req' \in [Committers -> Request]
           /\ head' \in 0..MaxHead
           /\ revs' \in [Revisions -> (SUBSET Shas) \cup {Absent}]
           /\ asset' \in [Shas -> Asset \cup {Absent}]
           /\ faults' \in Nat /\ abandoned' \subseteq Revisions
           /\ exposed' \subseteq Shas
<1>1. /\ pc \in [Committers -> {"idle"} \cup CommitPCs]
      /\ req \in [Committers -> Request] /\ req[h] \in Request
      /\ head \in 0..MaxHead
      /\ revs \in [Revisions -> (SUBSET Shas) \cup {Absent}]
      /\ asset \in [Shas -> Asset \cup {Absent}]
      /\ faults \in Nat /\ abandoned \subseteq Revisions /\ exposed \subseteq Shas
    BY DEF TypeOK
<1>2. req[h].base \in 0..MaxHead /\ req[h].shas \subseteq Shas
    BY <1>1 DEF Request
<1>3. pc[h] # "idle" => req[h].base + 1 \in Revisions
    BY <1>2, StoreAssumption DEF NumberOwned
<1>4. ASSUME NEW base \in 0..head, NEW shas \in SUBSET Shas, Check(h, base, shas)
      PROVE  /\ pc' \in [Committers -> {"idle"} \cup CommitPCs]
             /\ req' \in [Committers -> Request]
             /\ UNCHANGED <<head, revs, asset, faults, abandoned, exposed>>
  <2>1. [base |-> base, shas |-> shas] \in Request
      BY <1>1, StoreAssumption DEF Request
  <2>2. req' = [req EXCEPT ![h] = [base |-> base, shas |-> shas]]
      BY <1>4 DEF Check
  <2>3. req' \in [Committers -> Request]
      BY <1>1, <2>1, <2>2
  <2> QED BY <1>1, <1>4, <2>3 DEF Check, CommitPCs
<1>5. CASE Bump(h)
  <2>1. /\ head' \in 0..MaxHead
        /\ UNCHANGED <<revs, asset, faults, abandoned, exposed>>
        /\ (pc' = [pc EXCEPT ![h] = "insert"] /\ UNCHANGED req) \/ Return(h)
      BY <1>5, <1>1, <1>3, StoreAssumption DEF Bump
  <2> QED BY <2>1, <1>1, ReturnTypes DEF CommitPCs
<1>6. CASE Insert(h)
  <2>1. /\ revs' \in [Revisions -> (SUBSET Shas) \cup {Absent}]
        /\ UNCHANGED <<head, asset, faults, abandoned, exposed>>
        /\ (pc' = [pc EXCEPT ![h] = "count"] /\ UNCHANGED req) \/ Return(h)
      BY <1>6, <1>1, <1>2 DEF Insert
  <2> QED BY <2>1, <1>1, ReturnTypes DEF CommitPCs
<1>7. CASE Count(h)
  <2>1. PICK a \in req[h].shas :
          /\ asset' = IF a \in Present
                      THEN [asset EXCEPT ![a].refs = Counted(@)] ELSE asset
          /\ IF req[h].shas = {a} THEN Return(h)
             ELSE req' = [req EXCEPT ![h].shas = @ \ {a}] /\ UNCHANGED pc
      BY <1>7 DEF Count
  <2>2. a \in Present => [asset[a] EXCEPT !.refs = Counted(@)] \in Asset
      BY <1>1, <1>2 DEF Present, Asset, Counted
  <2>3. [req[h] EXCEPT !.shas = @ \ {a}] \in Request
      BY <1>1 DEF Request
  <2>4. asset' \in [Shas -> Asset \cup {Absent}]
      BY <2>1, <2>2, <1>1
  <2>5. CASE Return(h)
      BY <2>4, <2>5, <1>1, <1>7, ReturnTypes DEF Count
  <2>6. CASE req' = [req EXCEPT ![h].shas = @ \ {a}] /\ UNCHANGED pc
      BY <2>3, <2>4, <2>6, <1>1, <1>7 DEF Count
  <2> QED BY <2>1, <2>5, <2>6
<1>8. CASE Abort(h)
  <2>1. /\ faults' = faults + 1 /\ UNCHANGED <<head, revs, asset>>
        /\ abandoned' \subseteq Revisions /\ exposed' \subseteq Shas
      BY <1>8, <1>1, <1>2, <1>3 DEF Abort, CommitPCs
  <2>2. Return(h)
      BY <1>8 DEF Abort
  <2> QED BY <2>1, <2>2, <1>1, ReturnTypes
<1> QED BY <1>1, <1>4, <1>5, <1>6, <1>7, <1>8

LEMMA CollectorSteps ==
    ASSUME TypeOK, NEW g \in Collectors,
           List(g) \/ Visit(g) \/ RemoveFile(g) \/ EndRun(g)
    PROVE  /\ gc' \in [Collectors -> Run]
           /\ asset' \in [Shas -> Asset \cup {Absent}]
           /\ file' \subseteq Shas /\ exposed' \subseteq Shas
<1>1. /\ gc \in [Collectors -> Run] /\ gc[g] \in Run
      /\ asset \in [Shas -> Asset \cup {Absent}]
      /\ file \subseteq Shas /\ exposed \subseteq Shas
    BY DEF TypeOK
<1>2. CASE List(g)
  <2>1. [at |-> "visit", todo |-> Orphans, claimed |-> Absent] \in Run
      BY DEF Run, Orphans, Present
  <2> QED BY <1>1, <1>2, <2>1 DEF List
<1>3. CASE Visit(g)
  <2>1. PICK a \in gc[g].todo :
          IF Guard(a)
          THEN /\ asset' = [asset EXCEPT ![a] = Absent]
               /\ gc' = [gc EXCEPT ![g] = [at |-> "remove", claimed |-> a,
                                           todo |-> gc[g].todo \ {a}]]
               /\ exposed' = IF Counting(a) # {} THEN exposed \cup {a}
                                                 ELSE exposed
          ELSE /\ gc' = [gc EXCEPT ![g].todo = @ \ {a}]
               /\ UNCHANGED <<asset, exposed>>
      BY <1>3 DEF Visit
  <2>2. /\ a \in Shas
        /\ [at |-> "remove", claimed |-> a, todo |-> gc[g].todo \ {a}] \in Run
        /\ [gc[g] EXCEPT !.todo = @ \ {a}] \in Run
      BY <1>1 DEF Run
  <2>3. file' = file
      BY <1>3 DEF Visit
  <2>4. CASE Guard(a)
      BY <2>1, <2>2, <2>3, <2>4, <1>1
  <2>5. CASE ~Guard(a)
      BY <2>1, <2>2, <2>3, <2>5, <1>1
  <2> QED BY <2>4, <2>5
<1>4. CASE RemoveFile(g)
  <2>1. [gc[g] EXCEPT !.at = "visit", !.claimed = Absent] \in Run
      BY <1>1 DEF Run
  <2>2. gc[g].claimed \in Present => gc[g].claimed \in Shas
      BY DEF Present
  <2>3. \A u \in Uploaders : up[u].at = "upsert" => up[u].sha \in Shas
      BY DEF TypeOK, Upload, NoUpload
  <2>4. exposed' \subseteq Shas
      BY <1>1, <1>4, <2>2, <2>3 DEF RemoveFile
  <2>5. gc' = [gc EXCEPT ![g] = [gc[g] EXCEPT !.at = "visit", !.claimed = Absent]]
      BY <1>1, <1>4 DEF RemoveFile
  <2> QED BY <1>1, <1>4, <2>1, <2>4, <2>5 DEF RemoveFile
<1>5. CASE EndRun(g)
  <2>1. NoRun \in Run
      BY DEF NoRun, Run
  <2> QED BY <1>1, <1>5, <2>1 DEF EndRun
<1> QED BY <1>2, <1>3, <1>4, <1>5

LEMMA ContentSteps ==
    ASSUME TypeOK, NEW a \in Shas, CheckPlaced(a) \/ Place(a) \/ Age(a)
    PROVE  /\ asset' \in [Shas -> Asset \cup {Absent}]
           /\ placing' \subseteq Shas /\ live' \subseteq Shas
<1>1. a \in Present => [asset[a] EXCEPT !.old = TRUE] \in Asset
    BY DEF TypeOK, Present, Asset
<1>2. Age(a) => asset' = [asset EXCEPT ![a] = [asset[a] EXCEPT !.old = TRUE]]
                /\ UNCHANGED <<placing, live>>
    BY DEF TypeOK, Age
<1> QED BY <1>1, <1>2 DEF TypeOK, Age, CheckPlaced, Place

\* Every action keeps the shape of the state.
LEMMA TypeStep == TypeOK /\ NumberOwned /\ [StoreNext]_storeVars => TypeOK'
<1> SUFFICES ASSUME TypeOK, NumberOwned, [StoreNext]_storeVars PROVE TypeOK'
    OBVIOUS
<1>1. ASSUME NEW u \in Uploaders,
             (\E a \in Shas : Verified(u, a)) \/ Exists(u) \/ Rename(u) \/ Upsert(u)
      PROVE  TypeOK'
  <2>1. UNCHANGED <<head, revs, live, placing, pc, req, gc, faults, abandoned,
                    exposed>>
      BY <1>1 DEF Verified, Exists, Rename, Upsert
  <2> QED BY <1>1, <2>1, UploadSteps DEF TypeOK
<1>2. ASSUME NEW h \in Committers,
             (\E base \in 0..head, shas \in SUBSET Shas : Check(h, base, shas))
                \/ Bump(h) \/ Insert(h) \/ Count(h) \/ Abort(h)
      PROVE  TypeOK'
  <2>1. UNCHANGED <<file, live, placing, up, gc>>
      BY <1>2 DEF Check, Bump, Insert, Count, Abort
  <2>2. /\ pc' \in [Committers -> {"idle"} \cup CommitPCs]
        /\ req' \in [Committers -> Request]
        /\ head' \in 0..MaxHead
        /\ revs' \in [Revisions -> (SUBSET Shas) \cup {Absent}]
        /\ asset' \in [Shas -> Asset \cup {Absent}]
        /\ faults' \in Nat /\ abandoned' \subseteq Revisions
        /\ exposed' \subseteq Shas
      BY <1>2, CommitSteps
  <2> QED BY <2>1, <2>2 DEF TypeOK
<1>3. ASSUME NEW a \in Shas, CheckPlaced(a) \/ Place(a) \/ Age(a)
      PROVE  TypeOK'
  <2>1. UNCHANGED <<file, head, revs, pc, req, up, gc, faults, abandoned, exposed>>
      BY <1>3 DEF CheckPlaced, Place, Age
  <2> QED BY <1>3, <2>1, ContentSteps DEF TypeOK
<1>4. ASSUME NEW g \in Collectors, List(g) \/ Visit(g) \/ RemoveFile(g) \/ EndRun(g)
      PROVE  TypeOK'
  <2>1. UNCHANGED <<head, revs, live, placing, pc, req, up, faults, abandoned>>
      BY <1>4 DEF List, Visit, RemoveFile, EndRun
  <2> QED BY <1>4, <2>1, CollectorSteps DEF TypeOK
<1>5. CASE UNCHANGED storeVars
    BY <1>5 DEF storeVars, TypeOK
<1> QED BY <1>1, <1>2, <1>3, <1>4, <1>5 DEF StoreNext

-----------------------------------------------------------------------------
(* The numbers of revisions                                                 *)

Numbers == HeadCommitted /\ OneCommitter /\ NumberOwned

LEMMA ReturnFacts ==
    ASSUME TypeOK, NEW h \in Committers, Return(h)
    PROVE  /\ pc'[h] = "idle" /\ req'[h].base = 0 /\ req'[h].shas = {}
           /\ \A i \in Committers \ {h} : pc'[i] = pc[i] /\ req'[i] = req[i]
    BY DEF TypeOK, Return, NoRequest

LEMMA NumbersStart ==
    ASSUME TypeOK, Numbers, NEW h \in Committers, NEW base \in 0..head,
           NEW shas \in SUBSET Shas, Check(h, base, shas)
    PROVE  Numbers'
<1>1. /\ pc[h] = "idle" /\ pc'[h] = "bump"
      /\ req'[h].base = base /\ base < MaxHead
      /\ UNCHANGED <<head, revs, abandoned>>
      /\ \A i \in Committers \ {h} : pc'[i] = pc[i] /\ req'[i] = req[i]
    BY DEF TypeOK, Check
<1> QED BY <1>1 DEF Numbers, HeadCommitted, OneCommitter, NumberOwned

LEMMA NumbersBump ==
    ASSUME TypeOK, Numbers, NEW h \in Committers, Bump(h)
    PROVE  Numbers'
<1>1. /\ pc[h] = "bump" /\ req[h].base \in Nat /\ head \in Nat
      /\ req[h].base < MaxHead /\ MaxHead \in Nat
      /\ \A i \in Committers : req[i].base \in Nat
      /\ UNCHANGED <<revs, abandoned>>
    BY StoreAssumption DEF TypeOK, Request, Bump, Numbers, NumberOwned
<1>2. CASE head = req[h].base
  <2>1. /\ head' = head + 1 /\ req' = req /\ pc'[h] = "insert"
        /\ \A i \in Committers \ {h} : pc'[i] = pc[i]
      BY <1>1, <1>2 DEF TypeOK, Bump, BaseIsHead
  <2>2. HeadCommitted'
      BY <1>1, <1>2, <2>1 DEF Numbers, HeadCommitted
  <2>3. OneCommitter' /\ NumberOwned'
      BY <1>1, <1>2, <2>1 DEF Numbers, HeadCommitted, OneCommitter, NumberOwned
  <2> QED BY <2>2, <2>3 DEF Numbers
<1>3. CASE head # req[h].base
  <2>1. head' = head /\ Return(h)
      BY <1>3 DEF Bump, BaseIsHead
  <2> QED BY <1>1, <2>1, ReturnFacts
          DEF Numbers, HeadCommitted, OneCommitter, NumberOwned
<1> QED BY <1>2, <1>3

LEMMA NumbersInsert ==
    ASSUME TypeOK, Numbers, NEW h \in Committers, Insert(h)
    PROVE  Numbers'
<1>1. /\ pc[h] = "insert" /\ revs[req[h].base + 1] = Absent
      /\ req[h].base + 1 \in Revisions /\ req[h].base + 1 <= head
      /\ head \in 0..MaxHead /\ MaxHead \in Nat
      /\ \A i \in Committers : req[i].base \in Nat
      /\ UNCHANGED <<head, abandoned>>
    BY StoreAssumption DEF TypeOK, Request, Insert, Numbers, NumberOwned
<1>2. /\ revs'[req[h].base + 1] # Absent
      /\ \A r \in Revisions \ {req[h].base + 1} : revs'[r] = revs[r]
      /\ \/ Return(h)
         \/ /\ pc'[h] = "count" /\ req' = req
            /\ \A i \in Committers \ {h} : pc'[i] = pc[i]
  <2>1. revs' = [revs EXCEPT ![req[h].base + 1] = req[h].shas]
        /\ (Return(h) \/ (pc' = [pc EXCEPT ![h] = "count"] /\ UNCHANGED req))
      BY <1>1 DEF Insert
  <2>2. req[h].shas # Absent
      BY StoreAssumption DEF TypeOK, Request
  <2> QED BY <1>1, <2>1, <2>2 DEF TypeOK
<1>3. HeadCommitted'
  <2>1. \A i \in Committers \ {h} : pc'[i] = pc[i] /\ req'[i] = req[i]
      BY <1>2, ReturnFacts
  <2> QED BY <1>1, <1>2, <2>1 DEF Numbers, HeadCommitted
<1>4. CASE Return(h)
    BY <1>1, <1>2, <1>3, <1>4, ReturnFacts DEF Numbers, OneCommitter, NumberOwned
<1>5. CASE /\ pc'[h] = "count" /\ req' = req
           /\ \A i \in Committers \ {h} : pc'[i] = pc[i]
    BY <1>1, <1>2, <1>3, <1>5 DEF Numbers, OneCommitter, NumberOwned
<1> QED BY <1>2, <1>4, <1>5

LEMMA NumbersCount ==
    ASSUME TypeOK, Numbers, NEW h \in Committers, Count(h)
    PROVE  Numbers'
<1>1. UNCHANGED <<head, revs, abandoned>> /\ pc[h] = "count"
    BY DEF Count
<1>2. CASE Return(h)
    BY <1>1, <1>2, ReturnFacts DEF Numbers, HeadCommitted, OneCommitter, NumberOwned
<1>3. CASE ~Return(h)
  <2>1. PICK a \in req[h].shas :
             req' = [req EXCEPT ![h].shas = @ \ {a}] /\ UNCHANGED pc
      BY <1>3 DEF Count
  <2>2. \A i \in Committers : req'[i].base = req[i].base
      BY <2>1 DEF TypeOK, Request
  <2> QED BY <1>1, <2>1, <2>2 DEF Numbers, HeadCommitted, OneCommitter, NumberOwned
<1> QED BY <1>2, <1>3

LEMMA NumbersAbort ==
    ASSUME TypeOK, Numbers, NEW h \in Committers, Abort(h)
    PROVE  Numbers'
<1>1. /\ UNCHANGED <<head, revs>>
      /\ abandoned' = IF pc[h] = "insert"
                      THEN abandoned \cup {req[h].base + 1} ELSE abandoned
      /\ Return(h)
    BY DEF Abort
<1>2. /\ pc'[h] = "idle"
      /\ \A i \in Committers \ {h} : pc'[i] = pc[i] /\ req'[i] = req[i]
    BY <1>1, ReturnFacts
<1> QED BY <1>1, <1>2 DEF Numbers, HeadCommitted, OneCommitter, NumberOwned

LEMMA NumbersFollow ==
    ASSUME Numbers, UNCHANGED <<head, revs, pc, req, abandoned>>
    PROVE  Numbers'
    BY DEF Numbers, HeadCommitted, OneCommitter, NumberOwned

\* The compare-and-set of the head gives each number to one request.
LEMMA NumberStep ==
    ASSUME TypeOK, Numbers, [StoreNext]_storeVars
    PROVE  Numbers'
<1>1. ASSUME NEW h \in Committers,
             (\E base \in 0..head, shas \in SUBSET Shas : Check(h, base, shas))
                \/ Bump(h) \/ Insert(h) \/ Count(h) \/ Abort(h)
      PROVE  Numbers'
    BY <1>1, NumbersStart, NumbersBump, NumbersInsert, NumbersCount, NumbersAbort
<1>2. CASE \A h \in Committers :
             ~( (\E base \in 0..head, shas \in SUBSET Shas : Check(h, base, shas))
                \/ Bump(h) \/ Insert(h) \/ Count(h) \/ Abort(h) )
  <2>1. UNCHANGED <<head, revs, pc, req, abandoned>>
      BY <1>2 DEF StoreNext, storeVars, Verified, Exists, Rename, Upsert, CheckPlaced,
                  Place, Age, List, Visit, RemoveFile, EndRun
  <2> QED BY <2>1, NumbersFollow
<1> QED BY <1>1, <1>2

-----------------------------------------------------------------------------
(* Contents nothing has overtaken                                           *)

LEMMA UntouchedUpload ==
    ASSUME TypeOK, NEW a \in Shas, Untouched(a), NEW u \in Uploaders,
           (\E s \in Shas : Verified(u, s)) \/ Exists(u) \/ Rename(u) \/ Upsert(u)
    PROVE  Untouched(a)'
<1>1. /\ UNCHANGED <<revs, pc, req>> /\ file \subseteq file'
      /\ up[u] \in Upload \cup {NoUpload}
    BY DEF TypeOK, Verified, Exists, Rename, Upsert
<1>2. /\ \A v \in Uploaders \ {u} : up'[v] = up[v]
      /\ up'[u].at = "upsert" /\ up'[u].sha = a => a \in file'
  <2>1. ASSUME NEW s \in Shas, Verified(u, s)
        PROVE  /\ \A v \in Uploaders \ {u} : up'[v] = up[v]
               /\ up'[u].at # "upsert"
      BY <2>1 DEF TypeOK, Verified
  <2>2. CASE Exists(u)
      BY <2>2 DEF TypeOK, Exists
  <2>3. CASE Rename(u)
    <3>1. up[u] \in Upload
        BY <2>3, <1>1 DEF Rename, NoUpload
    <3> QED BY <2>3, <3>1 DEF TypeOK, Rename, Upload
  <2>4. CASE Upsert(u)
      BY <2>4 DEF TypeOK, Upsert, NoUpload
  <2> QED BY <2>1, <2>2, <2>3, <2>4
<1>3. \/ asset' = asset
      \/ /\ a \notin Present /\ asset'[a] # Absent /\ a \in file
      \/ asset'[a] = asset[a]
  <2>1. CASE Upsert(u)
    <3>1. [refs |-> 0, old |-> FALSE] # Absent
      <4>1. [refs |-> 0, old |-> FALSE] \in [refs : Nat, old : BOOLEAN]
          OBVIOUS
      <4> QED BY <4>1, StoreAssumption
    <3>2. CASE up[u].sha = a /\ a \notin Present
        BY <2>1, <3>1, <3>2 DEF TypeOK, Upsert, Untouched
    <3>3. CASE ~(up[u].sha = a /\ a \notin Present)
        BY <2>1, <3>3 DEF TypeOK, Upsert
    <3> QED BY <3>2, <3>3
  <2> QED BY <2>1 DEF Verified, Exists, Rename
<1> QED BY <1>1, <1>2, <1>3 DEF Untouched, Present, Owed, Referring, Counting, CommitPCs

LEMMA UntouchedCommit ==
    ASSUME TypeOK, NEW a \in Shas \ exposed', Untouched(a), NEW h \in Committers,
           (\E base \in 0..head, shas \in SUBSET Shas : Check(h, base, shas))
              \/ Bump(h) \/ Insert(h) \/ Abort(h)
    PROVE  Untouched(a)'
<1>1. UNCHANGED <<asset, file, up>>
    BY DEF Check, Bump, Insert, Abort
<1>2. /\ \A i \in Committers \ {h} : pc'[i] = pc[i] /\ req'[i] = req[i]
      /\ pc[h] = "count" /\ a \in req[h].shas => pc'[h] = "count" /\ req'[h] = req[h]
      /\ pc'[h] # "idle" /\ a \in req'[h].shas => a \in Present
      /\ Referring(a)' # Referring(a) => pc'[h] = "count" /\ a \in req'[h].shas
  <2>1. ASSUME NEW base \in 0..head, NEW shas \in SUBSET Shas, Check(h, base, shas)
        PROVE  /\ \A i \in Committers \ {h} : pc'[i] = pc[i] /\ req'[i] = req[i]
               /\ pc[h] # "count" /\ req'[h].shas \subseteq Present /\ UNCHANGED revs
      BY <2>1 DEF TypeOK, Check
  <2>2. CASE Bump(h)
    <3>1. /\ pc[h] = "bump" /\ revs' = revs
          /\ Return(h) \/ (pc' = [pc EXCEPT ![h] = "insert"] /\ UNCHANGED req)
        BY <2>2 DEF Bump
    <3> QED BY <3>1, ReturnFacts DEF TypeOK, Untouched, Counting, CommitPCs, Referring
  <2>3. CASE Insert(h)
    <3>1. /\ pc[h] = "insert"
          /\ Return(h) \/ (pc' = [pc EXCEPT ![h] = "count"] /\ UNCHANGED req)
          /\ revs' # revs =>
                /\ revs' = [revs EXCEPT ![req[h].base + 1] = req[h].shas]
                /\ req[h].shas = {} \/ (pc' = [pc EXCEPT ![h] = "count"] /\ UNCHANGED req)
        BY <2>3 DEF Insert
    <3>2. /\ \A i \in Committers \ {h} : pc'[i] = pc[i] /\ req'[i] = req[i]
          /\ pc'[h] # "idle" /\ a \in req'[h].shas => a \in Present
        BY <3>1, ReturnFacts DEF TypeOK, Untouched, Counting, CommitPCs
    <3>3. CASE Referring(a)' # Referring(a)
      <4>1. PICK r \in Revisions : ~((revs[r] # Absent /\ a \in revs[r])
                                       <=> (revs'[r] # Absent /\ a \in revs'[r]))
          BY <3>3 DEF Referring
      <4>2. revs' = [revs EXCEPT ![req[h].base + 1] = req[h].shas] /\ revs[req[h].base + 1] = Absent
          BY <4>1, <2>3 DEF Insert
      <4>3. a \in req[h].shas
          BY <4>1, <4>2 DEF TypeOK
      <4> QED BY <4>1, <4>3, <3>1, <3>2 DEF TypeOK
    <3> QED BY <3>1, <3>2, <3>3
  <2>4. CASE Abort(h)
    <3>1. /\ Return(h) /\ revs' = revs
          /\ pc[h] = "count" => a \notin req[h].shas
        BY <2>4 DEF Abort
    <3> QED BY <3>1, ReturnFacts DEF Referring
  <2> QED BY <2>1, <2>2, <2>3, <2>4 DEF Referring
<1>3. Counting(a)' # {} => a \in Present
    BY <1>2 DEF Counting, CommitPCs, Untouched
<1>4. Owed(a) => Owed(a)'
    BY <1>1, <1>2 DEF Owed
<1>5. Referring(a)' # {} => a \in Present /\ Owed(a)'
  <2>1. CASE Referring(a)' = Referring(a)
      BY <1>4, <2>1 DEF Untouched
  <2>2. CASE Referring(a)' # Referring(a)
      BY <1>2, <2>2 DEF Owed
  <2> QED BY <2>1, <2>2
<1> QED BY <1>1, <1>3, <1>5 DEF Untouched, Present

LEMMA UntouchedCount ==
    ASSUME TypeOK, NEW a \in Shas, Untouched(a), NEW h \in Committers, Count(h)
    PROVE  Untouched(a)'
<1>1. UNCHANGED <<file, revs, up>> /\ pc[h] = "count"
    BY DEF Count
<1>2. PICK b \in req[h].shas :
          /\ asset' = IF b \in Present
                      THEN [asset EXCEPT ![b].refs = Counted(@)] ELSE asset
          /\ IF req[h].shas = {b} THEN Return(h)
             ELSE req' = [req EXCEPT ![h].shas = @ \ {b}] /\ UNCHANGED pc
    BY DEF Count
<1>3. /\ \A i \in Committers \ {h} : pc'[i] = pc[i] /\ req'[i] = req[i]
      /\ \/ pc'[h] = "idle" /\ req[h].shas = {b}
         \/ pc'[h] = "count" /\ req'[h].shas = req[h].shas \ {b}
  <2>1. CASE req[h].shas = {b}
      BY <1>2, <2>1, ReturnFacts
  <2>2. CASE req[h].shas # {b}
      BY <1>1, <1>2, <2>2 DEF TypeOK, Request
  <2> QED BY <2>1, <2>2
<1>4. b \in Shas
    BY DEF TypeOK, Request
<1>5. CASE a = b
  <2>1. a \in Present
      BY <1>1, <1>5 DEF Untouched, Counting, CommitPCs
  <2>2. asset[a] \in Asset
      BY <2>1 DEF TypeOK, Present
  <2>3. asset'[a] = [asset[a] EXCEPT !.refs = asset[a].refs + 1]
      BY <1>2, <1>5, <2>1, <2>2 DEF TypeOK, Counted
  <2>4. asset'[a].refs > 0 /\ asset'[a] # Absent
      BY <2>2, <2>3, StoreAssumption DEF Asset
  <2> QED BY <1>1, <2>1, <2>4 DEF Untouched, Present, Owed
<1>6. CASE a # b
  <2>1. asset'[a] = asset[a]
      BY <1>2, <1>4, <1>6 DEF TypeOK
  <2>2. \A i \in Committers : a \in req'[i].shas /\ pc'[i] \in CommitPCs
                               => a \in req[i].shas /\ pc[i] \in CommitPCs
      BY <1>1, <1>3 DEF CommitPCs
  <2>3. Owed(a) => Owed(a)'
      BY <1>3, <1>6, <2>1 DEF Owed
  <2> QED BY <1>1, <2>1, <2>2, <2>3 DEF Untouched, Present, Referring, Counting
<1> QED BY <1>5, <1>6

LEMMA UntouchedContent ==
    ASSUME TypeOK, NEW a \in Shas, Untouched(a),
           NEW b \in Shas, CheckPlaced(b) \/ Place(b) \/ Age(b)
    PROVE  Untouched(a)'
<1>1. UNCHANGED <<file, revs, pc, req, up>>
    BY DEF CheckPlaced, Place, Age
<1>2. /\ asset'[a] = Absent <=> asset[a] = Absent
      /\ asset[a] # Absent => asset'[a].refs = asset[a].refs
  <2>1. CASE Age(b) /\ a = b
    <3>1. asset[a] \in Asset /\ asset[a] # Absent
        BY <2>1 DEF TypeOK, Age, Present
    <3>2. asset'[a] = [asset[a] EXCEPT !.old = TRUE]
        BY <2>1 DEF TypeOK, Age
    <3> QED BY <3>1, <3>2, StoreAssumption DEF Asset
  <2>2. CASE ~(Age(b) /\ a = b)
      BY <2>2 DEF TypeOK, Age, CheckPlaced, Place
  <2> QED BY <2>1, <2>2
<1> QED BY <1>1, <1>2 DEF Untouched, Present, Owed, Referring, Counting

LEMMA UntouchedCollect ==
    ASSUME TypeOK, NEW a \in Shas \ exposed', Untouched(a), NEW g \in Collectors,
           List(g) \/ Visit(g) \/ RemoveFile(g) \/ EndRun(g)
    PROVE  Untouched(a)'
<1>1. UNCHANGED <<revs, pc, req, up>>
    BY DEF List, Visit, RemoveFile, EndRun
<1>2. CASE asset'[a] = asset[a] /\ (a \in file => a \in file')
    BY <1>1, <1>2 DEF Untouched, Present, Owed, Referring, Counting
<1>3. CASE Visit(g) /\ asset'[a] # asset[a]
  <2>1. a \in Orphans /\ file' = file /\ Counting(a) = {} /\ asset'[a] = Absent
      BY <1>3 DEF Visit, Guard, TypeOK
  <2>2. ~Owed(a)
      BY <2>1 DEF Owed, Orphans, Counting, CommitPCs
  <2> QED BY <1>1, <2>1, <2>2 DEF Untouched, Present, Referring, Counting
<1>4. CASE RemoveFile(g) /\ a \in file /\ a \notin file'
  <2>1. /\ a = gc[g].claimed /\ asset' = asset
        /\ a \notin Present
        /\ \A u \in Uploaders : ~(up[u].at = "upsert" /\ up[u].sha = a)
      BY <1>4 DEF RemoveFile
  <2> QED BY <1>1, <2>1 DEF Untouched, Present, Referring, Counting
<1>5. \/ Visit(g) /\ file' = file
      \/ RemoveFile(g) /\ asset' = asset
      \/ UNCHANGED <<asset, file>>
    BY DEF List, Visit, RemoveFile, EndRun
<1> QED BY <1>2, <1>3, <1>4, <1>5

\* A content stays complete until a collection or a failure overtakes it.
LEMMA UntouchedStep ==
    ASSUME TypeOK, [StoreNext]_storeVars, \A a \in Shas \ exposed : Untouched(a)
    PROVE  (\A a \in Shas \ exposed : Untouched(a))'
<1>1. exposed \subseteq exposed'
    BY DEF StoreNext, storeVars, Verified, Exists, Rename, Upsert, Check, Bump, Insert,
           Count, Abort, CheckPlaced, Place, Age, List, Visit, RemoveFile, EndRun
<1> SUFFICES ASSUME NEW a \in Shas \ exposed' PROVE Untouched(a)'
    OBVIOUS
<1>2. Untouched(a)
    BY <1>1
<1>3. CASE UNCHANGED storeVars
    BY <1>2, <1>3 DEF storeVars, Untouched, Present, Owed, Referring, Counting
<1> QED BY <1>2, <1>3, UntouchedUpload, UntouchedCommit, UntouchedCount,
           UntouchedContent, UntouchedCollect DEF StoreNext

-----------------------------------------------------------------------------
(* The theorems                                                             *)

LEMMA InitInv == StoreInit => IInv
<1> SUFFICES ASSUME StoreInit PROVE IInv
    OBVIOUS
<1>1. TypeOK
    BY StoreAssumption DEF StoreInit, TypeOK, NoRequest, Request, NoUpload, NoRun, Run
<1>2. HeadCommitted /\ OneCommitter /\ NumberOwned
    BY StoreAssumption DEF StoreInit, HeadCommitted, OneCommitter, NumberOwned
<1>3. \A a \in Shas : Untouched(a)
    BY DEF StoreInit, Untouched, Present, Referring, Counting, CommitPCs, NoUpload
<1> QED BY <1>1, <1>2, <1>3 DEF IInv

\* The inductive invariant holds in every reachable state of packs.ts,
\* uploads.ts and gc.ts.
THEOREM Invariance == StoreSpec => []IInv
<1>1. IInv /\ [StoreNext]_storeVars => IInv'
    BY TypeStep, NumberStep, UntouchedStep DEF IInv, Numbers
<1> QED BY <1>1, InitInv, PTL DEF StoreSpec

\* Type correctness of the documents and of the handlers' locals.
THEOREM TypeCorrect == StoreSpec => []TypeOK
<1>1. IInv => TypeOK
    BY DEF IInv
<1> QED BY <1>1, Invariance, PTL

\* The history of a pack has no holes and each number one author, whatever the
\* number of concurrent commits (the conditional head bump of packs.ts).
THEOREM LinearHistory == StoreSpec => [](HeadCommitted /\ OneCommitter)
<1>1. IInv => HeadCommitted /\ OneCommitter
    BY DEF IInv
<1> QED BY <1>1, Invariance, PTL

\* A committed revision loses an asset only in the windows the history
\* variable exposed names (gc.ts against packs.ts and uploads.ts).
THEOREM RevisionsKept == StoreSpec => []CompleteUnlessExposed
<1>1. IInv => CompleteUnlessExposed
    BY DEF IInv, Untouched, CompleteUnlessExposed, FullyStored
<1> QED BY <1>1, Invariance, PTL

\* The guard of deleteOne: a referenced document survives every collector.
THEOREM ReferencedSurvive == StoreSpec => CountsOnlyGrow
<1>1. ASSUME IInv, [StoreNext]_storeVars, NEW a \in Present, asset[a].refs > 0
      PROVE  asset'[a] # Absent /\ asset'[a].refs >= asset[a].refs
  <2>1. TypeOK /\ a \in Shas /\ asset[a] \in Asset
      BY <1>1 DEF IInv, TypeOK, Present
  <2>2. asset[a].refs \in Nat
      BY <2>1 DEF Asset
  <2>3. CASE asset'[a] = asset[a]
      BY <2>2, <2>3, <1>1 DEF Present
  <2>4. ASSUME NEW u \in Uploaders, Upsert(u) PROVE asset'[a] = asset[a]
      BY <2>4, <2>1, <1>1 DEF TypeOK, Upsert
  <2>5. ASSUME NEW h \in Committers, Count(h), asset'[a] # asset[a]
        PROVE  asset'[a] # Absent /\ asset'[a].refs >= asset[a].refs
    <3>1. asset' = [asset EXCEPT ![a].refs = Counted(@)]
        BY <2>5, <2>1 DEF Count, TypeOK
    <3>2. asset'[a] = [asset[a] EXCEPT !.refs = asset[a].refs + 1]
        BY <3>1, <2>1 DEF TypeOK, Counted
    <3> QED BY <3>2, <2>1, <2>2, StoreAssumption DEF Asset
  <2>6. ASSUME Age(a)
        PROVE  asset'[a] # Absent /\ asset'[a].refs >= asset[a].refs
    <3>1. asset'[a] = [asset[a] EXCEPT !.old = TRUE]
        BY <2>6, <2>1 DEF TypeOK, Age
    <3>2. asset'[a] \in Asset /\ asset'[a].refs = asset[a].refs
        BY <3>1, <2>1 DEF Asset
    <3>3. Absent \notin Asset
        BY StoreAssumption DEF Asset
    <3> QED BY <3>2, <3>3, <2>2
  <2>7. ASSUME NEW b \in Shas, b # a, Age(b) PROVE asset'[a] = asset[a]
      BY <2>7, <2>1 DEF TypeOK, Age
  <2>8. ASSUME NEW g \in Collectors, Visit(g) PROVE asset'[a] = asset[a]
      BY <2>8, <2>1, <1>1 DEF TypeOK, Visit, Guard, Orphans
  <2>9. \/ asset' = asset
        \/ \E u \in Uploaders : Upsert(u)
        \/ \E h \in Committers : Count(h)
        \/ \E b \in Shas : Age(b)
        \/ \E g \in Collectors : Visit(g)
      BY <1>1 DEF StoreNext, storeVars, Verified, Exists, Rename, Check, Bump, Insert,
                  Abort, CheckPlaced, Place, List, RemoveFile, EndRun
  <2>10. asset' = asset => asset'[a] = asset[a]
      OBVIOUS
  <2>11. \/ asset'[a] = asset[a]
         \/ \E h \in Committers : Count(h)
         \/ Age(a)
      BY <2>4, <2>7, <2>8, <2>9, <2>10
  <2> QED BY <2>3, <2>5, <2>6, <2>11
<1>2. IInv /\ [StoreNext]_storeVars
        => [\A a \in Present : asset[a].refs > 0 =>
              asset'[a] # Absent /\ asset'[a].refs >= asset[a].refs]_storeVars
    BY <1>1
<1> QED BY <1>2, Invariance, PTL DEF StoreSpec, CountsOnlyGrow

-----------------------------------------------------------------------------
(* Export: numbers in order.                                               *)

(* In a finite set of numbers every rank is somebody's.                    *)
LEMMA RankSurjective ==
  ASSUME NEW n \in Nat, NEW F \in SUBSET (1 .. n), NEW k \in 1 .. Cardinality(F)
  PROVE  \E w \in F : Cardinality({v \in F : v <= w}) = k
<1> DEFINE Upto(w) == {v \in F : v <= w}
           rank == [w \in F |-> Cardinality(Upto(w))]
<1>1. IsFiniteSet(F) /\ Cardinality(F) \in Nat
  BY FS_BoundedSetOfNaturals, FS_CardinalityType
<1>2. \A w \in F : IsFiniteSet(Upto(w)) /\ Cardinality(Upto(w)) \in Nat /\ Cardinality(Upto(w)) <= Cardinality(F)
  BY <1>1, FS_Subset, FS_CardinalityType
<1>3. \A w \in F : Cardinality(Upto(w)) # 0
  BY <1>2, FS_EmptySet
<1>4. rank \in [F -> 1 .. Cardinality(F)]
  BY <1>1, <1>2, <1>3
<1>5. ASSUME NEW v \in F, NEW w \in F, v < w PROVE Cardinality(Upto(v)) # Cardinality(Upto(w))
  <2>1. Upto(v) \subseteq Upto(w) /\ w \notin Upto(v) /\ w \in Upto(w)
    <3>1. v \in Nat /\ w \in Nat /\ ~(w <= v) /\ w <= w
      BY <1>5
    <3>2. \A x \in F : x <= v => x <= w
      BY <1>5
    <3> QED BY <3>1, <3>2
  <2> HIDE DEF Upto
  <2> QED BY <2>1, <1>2, FS_Subset
<1>6. rank \in Injection(F, 1 .. Cardinality(F))
  <2>1. ASSUME NEW v \in F, NEW w \in F, v # w PROVE rank[v] # rank[w]
    BY <1>5, <2>1
  <2> HIDE DEF rank
  <2> QED BY <1>4, <2>1 DEF Injection, IsInjective
<1>7. rank \in Surjection(F, 1 .. Cardinality(F))
  <2>1. IsFiniteSet(1 .. Cardinality(F)) /\ Cardinality(1 .. Cardinality(F)) = Cardinality(F)
    BY <1>1, FS_Interval
  <2> HIDE DEF rank
  <2> QED BY <1>6, <2>1, FS_Injection
<1>8. PICK w \in F : rank[w] = k
  BY <1>7 DEF Surjection
<1> QED BY <1>8

-----------------------------------------------------------------------------
(* Numbers in order.                                                       *)

(* A set of numbers has a least one.                                       *)
LEMMA LeastNumber ==
  ASSUME NEW S \in SUBSET Nat, S # {}
  PROVE  \E n \in S : \A m \in S : n <= m
<1>1. PICK n \in S : \A m \in S : ~(<<m, n>> \in OpToRel(<, Nat))
  BY NatLessThanWellFounded, WFMin
<1>2. \A m \in S : ~(m < n)
  BY <1>1 DEF OpToRel
<1> QED
  BY <1>2

LEMMA MinFacts ==
  ASSUME NEW S \in SUBSET Nat, S # {}
  PROVE  Min(S) \in S /\ \A m \in S : Min(S) <= m
<1>1. \E n \in S : \A m \in S : n <= m
  BY LeastNumber
<1> QED
  BY <1>1 DEF Min

LEMMA MaxFacts ==
  ASSUME NEW n \in Nat, NEW S \in SUBSET (0 .. n), S # {}
  PROVE  Max(S) \in S /\ \A m \in S : m <= Max(S)
<1> DEFINE upward == {u \in Nat : \A m \in S : m <= u}
<1>1. upward \in SUBSET Nat /\ n \in upward
  OBVIOUS
<1>2. PICK u \in upward : \A v \in upward : u <= v
  <2> HIDE DEF upward
  <2> QED BY <1>1, LeastNumber
<1>3. u \in S
  <2> SUFFICES ASSUME u \notin S PROVE FALSE
    OBVIOUS
  <2>1. \A m \in S : m <= u /\ m # u /\ m \in Nat
    BY <1>2
  <2>2. PICK m \in S : TRUE
    OBVIOUS
  <2>3. u \in Nat /\ u > 0
    BY <1>2, <2>1, <2>2
  <2>4. u - 1 \in upward
    BY <2>1, <2>3
  <2> QED BY <2>3, <2>4, <1>2
<1>4. \A m \in S : m <= u
  BY <1>2
<1>5. \E x \in S : \A y \in S : x >= y
  BY <1>3, <1>4
<1>6. Max(S) \in S /\ \A y \in S : Max(S) >= y
  BY <1>5 DEF Max
<1> QED
  BY <1>6

(* Induction over the numbers, as a set.                                   *)
LEMMA UpFromZero ==
  ASSUME NEW S \in SUBSET Nat, 0 \in S, \A n \in S : n + 1 \in S
  PROVE  S = Nat
<1> SUFFICES ASSUME Nat \ S # {} PROVE FALSE
  OBVIOUS
<1>1. Nat \ S \in SUBSET Nat
  OBVIOUS
<1>2. PICK n \in Nat \ S : \A m \in Nat \ S : n <= m
  BY <1>1, LeastNumber
<1>3. n # 0 /\ n - 1 \in Nat /\ n - 1 \in S
  BY <1>2
<1>4. (n - 1) + 1 = n
  BY <1>2
<1> QED
  BY <1>2, <1>3, <1>4

(* Nth enumerates a set in ascending order.                                *)
LEMMA NthFacts ==
  ASSUME NEW n \in Nat, NEW S \in SUBSET (1 .. n)
  PROVE  /\ IsFiniteSet(S) /\ Cardinality(S) \in Nat /\ Cardinality(S) <= n
         /\ \A k \in 1 .. Cardinality(S) :
               Nth(S, k) \in S /\ Cardinality({m \in S : m <= Nth(S, k)}) = k
         /\ \A i \in S : \E k \in 1 .. Cardinality(S) : Nth(S, k) = i
         /\ \A j, k \in 1 .. Cardinality(S) : j < k => Nth(S, j) < Nth(S, k)
<1> DEFINE upto(i) == {m \in S : m <= i}
<1>1. IsFiniteSet(S) /\ Cardinality(S) \in Nat /\ Cardinality(S) <= n
  <2>1. IsFiniteSet(1 .. n) /\ Cardinality(1 .. n) = n
    BY FS_Interval
  <2> QED BY <2>1, FS_Subset, FS_CardinalityType
<1>2. ASSUME NEW k \in 1 .. Cardinality(S) PROVE Nth(S, k) \in S /\ Cardinality(upto(Nth(S, k))) = k
  <2>1. \E i \in S : Cardinality({m \in S : m <= i}) = k
    BY RankSurjective
  <2> QED BY <2>1 DEF Nth
<1>3. \A i \in S : upto(i) \in SUBSET S /\ i \in upto(i)
  OBVIOUS
<1>4. ASSUME NEW i \in S, NEW j \in S, i < j PROVE Cardinality(upto(i)) < Cardinality(upto(j))
  <2>0. i \in Nat /\ j \in Nat /\ \A m \in S : m \in Nat
    OBVIOUS
  <2>a. \A m \in S : m <= i => m <= j
    BY <1>4, <2>0
  <2>b. j <= j /\ ~(j <= i)
    BY <1>4, <2>0
  <2>1. upto(i) \subseteq upto(j) /\ j \in upto(j) /\ j \notin upto(i) /\ upto(j) \subseteq S
    BY <2>a, <2>b
  <2> HIDE DEF upto
  <2>2. IsFiniteSet(upto(j)) /\ IsFiniteSet(upto(i))
    BY <2>1, <1>1, FS_Subset
  <2>3. Cardinality(upto(i)) <= Cardinality(upto(j)) /\ Cardinality(upto(i)) # Cardinality(upto(j))
    BY <2>1, <2>2, FS_Subset
  <2>4. Cardinality(upto(i)) \in Nat /\ Cardinality(upto(j)) \in Nat
    BY <2>2, FS_CardinalityType
  <2> QED BY <2>3, <2>4
<1>5. ASSUME NEW i \in S PROVE \E k \in 1 .. Cardinality(S) : Nth(S, k) = i
  <2>1. IsFiniteSet(upto(i)) /\ Cardinality(upto(i)) \in Nat /\ Cardinality(upto(i)) <= Cardinality(S)
    BY <1>1, <1>3, FS_Subset, FS_CardinalityType
  <2>2. Cardinality(upto(i)) # 0
    BY <1>3, <2>1, FS_EmptySet
  <2>3. PICK k \in 1 .. Cardinality(S) : k = Cardinality(upto(i))
    BY <1>1, <2>1, <2>2
  <2>4. Nth(S, k) \in S /\ Cardinality(upto(Nth(S, k))) = k
    BY <1>2
  <2>5. ~(Nth(S, k) < i) /\ ~(i < Nth(S, k))
    <3> HIDE DEF upto
    <3>1. Nth(S, k) < i => k < k
      BY <2>3, <2>4, <1>4
    <3>2. i < Nth(S, k) => k < k
      BY <2>3, <2>4, <1>4
    <3>3. k \in Nat
      BY <1>1
    <3> QED BY <3>1, <3>2, <3>3
  <2>6. Nth(S, k) = i
    <3>1. PICK x : x = Nth(S, k)
      OBVIOUS
    <3>a. x \in S /\ i \in S /\ \A m \in S : m \in Nat
      BY <3>1, <2>4
    <3>2. x \in Nat /\ i \in Nat /\ ~(x < i) /\ ~(i < x)
      BY <3>a, <3>1, <2>5
    <3>3. x = i
      BY <3>2
    <3> QED BY <3>1, <3>3
  <2> QED BY <2>6
<1>6. ASSUME NEW j \in 1 .. Cardinality(S), NEW k \in 1 .. Cardinality(S), j < k PROVE Nth(S, j) < Nth(S, k)
  <2>1. PICK x \in S : x = Nth(S, j) /\ Cardinality(upto(x)) = j
    BY <1>2
  <2>2. PICK y \in S : y = Nth(S, k) /\ Cardinality(upto(y)) = k
    BY <1>2
  <2>3. x # y /\ ~(y < x)
    <3> HIDE DEF upto
    <3>1. j \in Nat /\ k \in Nat
      BY <1>1
    <3>2. x # y
      BY <2>1, <2>2, <1>6, <3>1
    <3>3. y < x => k < j
      BY <2>1, <2>2, <1>4
    <3> QED BY <3>1, <3>2, <3>3, <1>6
  <2>4. x < y
    BY <2>3
  <2> QED BY <2>1, <2>2, <2>4
<1> QED
  BY <1>1, <1>2, <1>5, <1>6

(* ... so that all of an interval's numbers are at their own place.        *)
LEMMA NthOfInterval ==
  ASSUME NEW n \in Nat, NEW k \in 1 .. n
  PROVE  Nth(1 .. n, k) = k /\ Cardinality(1 .. n) = n
<1>1. Cardinality(1 .. n) = n
  BY FS_Interval
<1>2. PICK i \in 1 .. n : i = Nth(1 .. n, k) /\ Cardinality({m \in 1 .. n : m <= i}) = k
  BY <1>1, NthFacts
<1>3. {m \in 1 .. n : m <= i} = 1 .. i
  OBVIOUS
<1>4. Cardinality(1 .. i) = i
  BY FS_Interval
<1> QED
  BY <1>1, <1>2, <1>3, <1>4

-----------------------------------------------------------------------------
(* A list of operations is applied one after the other.                    *)

\* f holds what op's first n operations make of p, one after the other.
Steps(f, n, p, op) ==
    /\ f = [k \in 0 .. n |-> f[k]]
    /\ \A k \in 0 .. n : f[k] = IF k = 0 THEN p ELSE ApplyLeaf(f[k - 1], Leaves(op)[k])

LEMMA StepsExist ==
  ASSUME NEW p, NEW op, NEW n \in Nat
  PROVE  \E f : Steps(f, n, p, op)
<1> DEFINE S == {m \in Nat : \E f : Steps(f, m, p, op)}
<1>1. 0 \in S
  <2>1. PICK f : f = [k \in 0 .. 0 |-> p]
    OBVIOUS
  <2>2. f = [k \in 0 .. 0 |-> f[k]] /\ \A k \in 0 .. 0 : k = 0 /\ f[k] = p
    BY <2>1
  <2>3. Steps(f, 0, p, op)
    BY <2>2 DEF Steps
  <2> QED BY <2>3
<1>2. ASSUME NEW m \in S PROVE m + 1 \in S
  <2>1. m \in Nat
    OBVIOUS
  <2>2. PICK f : Steps(f, m, p, op)
    OBVIOUS
  <2>3. PICK h : h = [k \in 0 .. m + 1 |-> IF k = m + 1 THEN ApplyLeaf(f[m], Leaves(op)[k]) ELSE f[k]]
    OBVIOUS
  <2>4. \A k \in 0 .. m : h[k] = f[k]
    BY <2>1, <2>3
  <2>5. ASSUME NEW k \in 0 .. m + 1 PROVE h[k] = IF k = 0 THEN p ELSE ApplyLeaf(h[k - 1], Leaves(op)[k])
    <3>1. CASE k = m + 1
      <4>1. k # 0 /\ k - 1 = m /\ m \in 0 .. m
        BY <3>1, <2>1
      <4>2. h[k] = ApplyLeaf(f[m], Leaves(op)[k])
        BY <2>3, <3>1
      <4> QED BY <4>1, <4>2, <2>4
    <3>2. CASE k # m + 1
      <4>1. k \in 0 .. m
        BY <3>2, <2>1
      <4>2. h[k] = IF k = 0 THEN p ELSE ApplyLeaf(f[k - 1], Leaves(op)[k])
        BY <4>1, <2>2, <2>4 DEF Steps
      <4>3. k # 0 => k - 1 \in 0 .. m
        BY <4>1, <2>1
      <4> QED BY <4>2, <4>3, <2>4
    <3> QED BY <3>1, <3>2
  <2>6. h = [k \in 0 .. m + 1 |-> h[k]]
    BY <2>3
  <2>7. Steps(h, m + 1, p, op)
    BY <2>5, <2>6 DEF Steps
  <2> QED BY <2>1, <2>7
<1>3. S = Nat
  <2>1. S \in SUBSET Nat
    OBVIOUS
  <2> HIDE DEF S
  <2> QED BY <1>1, <1>2, <2>1, UpFromZero
<1> QED
  BY <1>3

LEMMA ReducedSteps ==
  ASSUME NEW p, NEW op, Leaves(op) \in Seq(LeafOps)
  PROVE  \E after : /\ after[0] = p /\ Reduced(p, op) = after[Len(Leaves(op))]
                    /\ \A k \in 1 .. Len(Leaves(op)) : after[k] = ApplyLeaf(after[k - 1], Leaves(op)[k])
<1> DEFINE len == Len(Leaves(op))
           after == CHOOSE f : f = [k \in 0 .. len |-> IF k = 0 THEN p ELSE ApplyLeaf(f[k - 1], Leaves(op)[k])]
<1>1. len \in Nat
  BY LenProperties
<1>2. Reduced(p, op) = after[len]
  BY DEF Reduced
<1>3. \E f : f = [k \in 0 .. len |-> IF k = 0 THEN p ELSE ApplyLeaf(f[k - 1], Leaves(op)[k])]
  <2> HIDE DEF len
  <2>1. PICK f : Steps(f, len, p, op)
    BY <1>1, StepsExist
  <2>2. f = [k \in 0 .. len |-> IF k = 0 THEN p ELSE ApplyLeaf(f[k - 1], Leaves(op)[k])]
    BY <2>1 DEF Steps
  <2> QED BY <2>2
<1>4. PICK g : g = after /\ g = [k \in 0 .. len |-> IF k = 0 THEN p ELSE ApplyLeaf(g[k - 1], Leaves(op)[k])]
  <2> HIDE DEF len
  <2> QED BY <1>3
<1>5. g[0] = p /\ \A k \in 1 .. len : g[k] = ApplyLeaf(g[k - 1], Leaves(op)[k])
  <2> HIDE DEF len, after
  <2> QED BY <1>1, <1>4
<1> QED
  <2> HIDE DEF after
  <2> QED BY <1>2, <1>4, <1>5

-----------------------------------------------------------------------------
(* Lists.                                                                  *)

LEMMA KeptFacts ==
  ASSUME NEW E, NEW list \in Seq(E), NEW S \in SUBSET DOMAIN list
  PROVE  /\ IsFiniteSet(S) /\ Cardinality(S) \in Nat
         /\ Kept(list, S) \in Seq(E) /\ DOMAIN Kept(list, S) = 1 .. Cardinality(S)
         /\ Len(Kept(list, S)) = Cardinality(S)
         /\ \A k \in 1 .. Cardinality(S) : Nth(S, k) \in S /\ Kept(list, S)[k] = list[Nth(S, k)]
         /\ \A i \in S : \E k \in 1 .. Cardinality(S) : Nth(S, k) = i
         /\ \A j, k \in 1 .. Cardinality(S) : j < k => Nth(S, j) < Nth(S, k)
<1>1. PICK n \in Nat : n = Len(list) /\ DOMAIN list = 1 .. n
  OBVIOUS
<1>2. S \in SUBSET (1 .. n)
  BY <1>1
<1>3. /\ IsFiniteSet(S) /\ Cardinality(S) \in Nat
      /\ \A k \in 1 .. Cardinality(S) : Nth(S, k) \in S
      /\ \A i \in S : \E k \in 1 .. Cardinality(S) : Nth(S, k) = i
      /\ \A j, k \in 1 .. Cardinality(S) : j < k => Nth(S, j) < Nth(S, k)
  BY <1>2, NthFacts
<1>4. PICK c \in Nat : c = Cardinality(S)
  BY <1>3
<1>5. \A k \in 1 .. c : list[Nth(S, k)] \in E
  BY <1>1, <1>2, <1>3, <1>4
<1>6. Kept(list, S) = [k \in 1 .. c |-> list[Nth(S, k)]]
  BY <1>4 DEF Kept
<1>7. Kept(list, S) \in Seq(E) /\ Len(Kept(list, S)) = c /\ DOMAIN Kept(list, S) = 1 .. c
  BY <1>5, <1>6, IsASeq
<1>8. \A k \in 1 .. c : Kept(list, S)[k] = list[Nth(S, k)]
  BY <1>6
<1> QED
  BY <1>3, <1>4, <1>7, <1>8

LEMMA KeptAll ==
  ASSUME NEW E, NEW list \in Seq(E)
  PROVE  Kept(list, DOMAIN list) = list
<1>1. PICK n \in Nat : n = Len(list) /\ DOMAIN list = 1 .. n
  OBVIOUS
<1>2. Cardinality(DOMAIN list) = n /\ \A k \in 1 .. n : Nth(DOMAIN list, k) = k
  <2>1. Cardinality(1 .. n) = n
    BY FS_Interval
  <2>2. \A k \in 1 .. n : Nth(1 .. n, k) = k
    BY NthOfInterval
  <2> QED BY <1>1, <2>1, <2>2
<1>3. Kept(list, DOMAIN list) = [k \in 1 .. n |-> list[k]]
  BY <1>2 DEF Kept
<1>4. list = [k \in 1 .. n |-> list[k]]
  BY <1>1
<1> QED
  BY <1>3, <1>4

\* The first entity of an id.
LEMMA IndexFacts ==
  ASSUME NEW E, NEW list \in Seq(E), NEW id
  PROVE  /\ IndexOf(list, id) = 0 <=> PlacesOf(list, id) = {}
         /\ IndexOf(list, id) \in Nat
         /\ PlacesOf(list, id) # {} =>
               /\ IndexOf(list, id) \in DOMAIN list /\ list[IndexOf(list, id)].id = id
               /\ \A i \in DOMAIN list : list[i].id = id => IndexOf(list, id) <= i
<1>1. PlacesOf(list, id) \in SUBSET Nat /\ 0 \notin DOMAIN list
  BY DEF PlacesOf
<1>2. CASE PlacesOf(list, id) = {}
  BY <1>2 DEF IndexOf
<1>3. CASE PlacesOf(list, id) # {}
  <2>1. PICK i : i = IndexOf(list, id) /\ i \in PlacesOf(list, id) /\ \A m \in PlacesOf(list, id) : i <= m
    BY <1>1, <1>3, MinFacts DEF IndexOf
  <2>2. i \in DOMAIN list /\ list[i].id = id /\ \A m \in DOMAIN list : list[m].id = id => i <= m
    BY <2>1 DEF PlacesOf
  <2> QED BY <2>1, <2>2, <1>1, <1>3
<1> QED
  BY <1>2, <1>3

\* The last one.
LEMMA LastFacts ==
  ASSUME NEW E, NEW list \in Seq(E), NEW id, PlacesOf(list, id) # {}
  PROVE  \E i \in DOMAIN list : /\ LastOf(list, id) = list[i] /\ list[i].id = id
                                /\ \A m \in DOMAIN list : list[m].id = id => m <= i
<1>1. Len(list) \in Nat /\ PlacesOf(list, id) \in SUBSET (0 .. Len(list))
  BY DEF PlacesOf
<1>2. PICK i : i = Max(PlacesOf(list, id)) /\ i \in PlacesOf(list, id) /\ \A m \in PlacesOf(list, id) : m <= i
  BY <1>1, MaxFacts
<1>3. i \in DOMAIN list /\ list[i].id = id /\ \A m \in DOMAIN list : list[m].id = id => m <= i
  BY <1>2 DEF PlacesOf
<1> QED
  BY <1>2, <1>3 DEF LastOf

-----------------------------------------------------------------------------
(* What an operation does to the lists of a project.                       *)

LEMMA UpsertedType ==
  ASSUME NEW E, NEW list \in Seq(E), NEW e \in E
  PROVE  Upserted(list, e) \in Seq(E)
<1>1. PICK i : i = IndexOf(list, e.id)
  OBVIOUS
<1>2. CASE i = 0
  BY <1>1, <1>2 DEF Upserted
<1>3. CASE i # 0
  <2>1. Upserted(list, e) = [list EXCEPT ![i] = e]
    BY <1>1, <1>3 DEF Upserted
  <2>2. i \in DOMAIN list
    BY <1>1, <1>3, IndexFacts
  <2> QED BY <2>1, <2>2, ExceptSeq
<1> QED
  BY <1>2, <1>3

\* A field that is merged, once, twice, and with two objects of different
\* fields.
LEMMA OverObjects ==
  ASSUME NEW a \in Objects, NEW b \in Objects
  PROVE  /\ Over(b, a) \in Objects /\ DOMAIN Over(b, a) = DOMAIN a \cup DOMAIN b
         /\ \A k \in DOMAIN a \cup DOMAIN b : Over(b, a)[k] = IF k \in DOMAIN b THEN b[k] ELSE a[k]
<1>1. PICK P \in SUBSET Parts, Q \in SUBSET Parts : a \in [P -> Atoms] /\ b \in [Q -> Atoms]
  BY DEF Objects
<1>2. PICK c : c = [k \in P \cup Q |-> IF k \in Q THEN b[k] ELSE a[k]]
  OBVIOUS
<1>3. c = Over(b, a)
  BY <1>1, <1>2 DEF Over
<1>4. c \in [P \cup Q -> Atoms] /\ P \cup Q \in SUBSET Parts
  BY <1>1, <1>2
<1>5. c \in Objects
  BY <1>4 DEF Objects
<1> QED
  BY <1>1, <1>2, <1>3, <1>5

LEMMA SameObject ==
  ASSUME NEW a \in Objects, NEW b \in Objects, DOMAIN a = DOMAIN b, \A k \in DOMAIN a : a[k] = b[k]
  PROVE  a = b
<1>1. PICK P : a \in [P -> Atoms]
  BY DEF Objects
<1>2. PICK Q : b \in [Q -> Atoms]
  BY DEF Objects
<1>3. P = Q
  BY <1>1, <1>2
<1>4. b \in [P -> Atoms] /\ \A k \in P : a[k] = b[k]
  BY <1>1, <1>2, <1>3
<1> QED
  BY <1>1, <1>4

LEMMA MergedFacts ==
  ASSUME NEW v \in Atoms \cup Objects, NEW w \in Atoms \cup Objects
  PROVE  Merged(v, w) \in Atoms \cup Objects /\ Merged(Merged(v, w), w) = Merged(v, w)
<1>1. CASE w \notin Objects
  BY <1>1 DEF Merged
<1>2. CASE w \in Objects /\ v \notin Objects
  <2>1. PICK m : m = Over(w, w)
    OBVIOUS
  <2>2. m = w
    BY <1>2, <2>1, OverObjects, SameObject
  <2> QED BY <1>2, <2>1, <2>2 DEF Merged
<1>3. CASE w \in Objects /\ v \in Objects
  <2>1. PICK m \in Objects : m = Over(w, v)
    BY <1>3, OverObjects
  <2>2. DOMAIN m = DOMAIN v \cup DOMAIN w
        /\ \A k \in DOMAIN v \cup DOMAIN w : m[k] = IF k \in DOMAIN w THEN w[k] ELSE v[k]
    BY <1>3, <2>1, OverObjects
  <2>3. PICK n \in Objects : n = Over(w, m)
    BY <1>3, OverObjects
  <2>4. DOMAIN n = DOMAIN m \cup DOMAIN w
        /\ \A k \in DOMAIN m \cup DOMAIN w : n[k] = IF k \in DOMAIN w THEN w[k] ELSE m[k]
    BY <1>3, <2>3, OverObjects
  <2>5. n = m
    BY <2>2, <2>4, SameObject
  <2> QED BY <1>3, <2>1, <2>3, <2>5 DEF Merged
<1> QED
  BY <1>1, <1>2, <1>3

LEMMA MergedApart ==
  ASSUME NEW v \in Atoms \cup Objects, NEW a \in Objects, NEW b \in Objects, DOMAIN a \cap DOMAIN b = {}
  PROVE  Merged(Merged(v, a), b) = Merged(Merged(v, b), a)
<1>1. CASE v \notin Objects
  <2>1. PICK m \in Objects : m = Over(b, a)
    BY OverObjects
  <2>2. DOMAIN m = DOMAIN a \cup DOMAIN b
        /\ \A k \in DOMAIN a \cup DOMAIN b : m[k] = IF k \in DOMAIN b THEN b[k] ELSE a[k]
    BY <2>1, OverObjects
  <2>3. PICK n \in Objects : n = Over(a, b)
    BY OverObjects
  <2>4. DOMAIN n = DOMAIN b \cup DOMAIN a
        /\ \A k \in DOMAIN b \cup DOMAIN a : n[k] = IF k \in DOMAIN a THEN a[k] ELSE b[k]
    BY <2>3, OverObjects
  <2>5. DOMAIN m = DOMAIN n
    BY <2>2, <2>4
  <2>6. ASSUME NEW k \in DOMAIN m PROVE m[k] = n[k]
    BY <2>2, <2>4
  <2>7. m = n
    BY <2>5, <2>6, SameObject
  <2> QED BY <1>1, <2>1, <2>3, <2>7 DEF Merged
<1>2. CASE v \in Objects
  <2>1. PICK m \in Objects : m = Over(a, v)
    BY <1>2, OverObjects
  <2>2. DOMAIN m = DOMAIN v \cup DOMAIN a
        /\ \A k \in DOMAIN v \cup DOMAIN a : m[k] = IF k \in DOMAIN a THEN a[k] ELSE v[k]
    BY <1>2, <2>1, OverObjects
  <2>3. PICK n \in Objects : n = Over(b, v)
    BY <1>2, OverObjects
  <2>4. DOMAIN n = DOMAIN v \cup DOMAIN b
        /\ \A k \in DOMAIN v \cup DOMAIN b : n[k] = IF k \in DOMAIN b THEN b[k] ELSE v[k]
    BY <1>2, <2>3, OverObjects
  <2>5. PICK mb \in Objects : mb = Over(b, m)
    BY OverObjects
  <2>6. DOMAIN mb = DOMAIN m \cup DOMAIN b
        /\ \A k \in DOMAIN m \cup DOMAIN b : mb[k] = IF k \in DOMAIN b THEN b[k] ELSE m[k]
    BY <2>5, OverObjects
  <2>7. PICK na \in Objects : na = Over(a, n)
    BY OverObjects
  <2>8. DOMAIN na = DOMAIN n \cup DOMAIN a
        /\ \A k \in DOMAIN n \cup DOMAIN a : na[k] = IF k \in DOMAIN a THEN a[k] ELSE n[k]
    BY <2>7, OverObjects
  <2>9. DOMAIN mb = DOMAIN na
    BY <2>2, <2>4, <2>6, <2>8
  <2>10. ASSUME NEW k \in DOMAIN mb PROVE mb[k] = na[k]
    BY <2>2, <2>4, <2>6, <2>8
  <2>11. mb = na
    BY <2>9, <2>10, SameObject
  <2> QED BY <1>2, <2>1, <2>3, <2>5, <2>7, <2>11 DEF Merged
<1> QED
  BY <1>1, <1>2

\* What a patch makes of an entity: the shape depends on the shape only.
GroupAfter(g, patch) == IF "group" \in DOMAIN patch THEN patch["group"] ELSE g
ShapeAfter(t, s, patch) ==
    [f \in Fields[t] |-> IF f \in DOMAIN patch THEN Merged(s[f], patch[f]) ELSE s[f]]

LEMMA PatchFields ==
  ASSUME NEW t \in Types, NEW patch \in Patches[t]
  PROVE  /\ "group" \notin Fields[t]
         /\ \A f \in Fields[t] \cap DOMAIN patch : patch[f] \in Atoms \cup Objects
         /\ "group" \in DOMAIN patch => t # "group" /\ patch["group"] \in Groups \cup {None}
BY PatchAssumption, GroupAssumption

LEMMA ShapeAfterType ==
  ASSUME NEW t \in Types, NEW s \in AnyShape(t), NEW patch \in Patches[t]
  PROVE  ShapeAfter(t, s, patch) \in AnyShape(t)
<1>1. \A f \in Fields[t] : s[f] \in Atoms \cup Objects
  BY DEF AnyShape
<1>2. \A f \in Fields[t] : (IF f \in DOMAIN patch THEN Merged(s[f], patch[f]) ELSE s[f]) \in Atoms \cup Objects
  BY <1>1, PatchFields, MergedFacts
<1> QED
  BY <1>2 DEF ShapeAfter, AnyShape

LEMMA MergedType ==
  ASSUME NEW t \in Types, NEW e \in Entities(t), NEW patch \in Patches[t]
  PROVE  /\ MergePatch(e, patch) \in Entities(t) /\ MergePatch(e, patch).id = e.id
         /\ MergePatch(e, patch).group = GroupAfter(e.group, patch)
         /\ MergePatch(e, patch).shape = ShapeAfter(t, e.shape, patch)
<1>1. e.shape \in AnyShape(t) /\ DOMAIN e.shape = Fields[t] /\ e.group \in Groups \cup {None}
  BY DEF Entities, AnyShape
<1>2. PICK g, s : g = GroupAfter(e.group, patch) /\ s = ShapeAfter(t, e.shape, patch)
  OBVIOUS
<1>3. g \in Groups \cup {None} /\ s \in AnyShape(t)
  BY <1>1, <1>2, PatchFields, ShapeAfterType DEF GroupAfter
<1>4. MergePatch(e, patch) = [e EXCEPT !.group = g, !.shape = s]
  BY <1>1, <1>2 DEF MergePatch, GroupAfter, ShapeAfter
<1>5. PICK m : m = [e EXCEPT !.group = g, !.shape = s]
  OBVIOUS
<1>6. m \in Entities(t) /\ m.id = e.id /\ m.group = g /\ m.shape = s
  BY <1>3, <1>5 DEF Entities
<1> QED
  BY <1>2, <1>4, <1>5, <1>6

LEMMA SameEntity ==
  ASSUME NEW t, NEW d \in Entities(t), NEW e \in Entities(t), d.id = e.id, d.group = e.group, d.shape = e.shape
  PROVE  d = e
BY DEF Entities

LEMMA MergedAgain ==
  ASSUME NEW t \in Types, NEW e \in Entities(t), NEW patch \in Patches[t]
  PROVE  MergePatch(MergePatch(e, patch), patch) = MergePatch(e, patch)
<1>1. PICK f \in Entities(t) : f = MergePatch(e, patch) /\ f.id = e.id /\ f.group = GroupAfter(e.group, patch)
                               /\ f.shape = ShapeAfter(t, e.shape, patch)
  BY MergedType
<1>2. PICK h \in Entities(t) : h = MergePatch(f, patch) /\ h.id = f.id /\ h.group = GroupAfter(f.group, patch)
                               /\ h.shape = ShapeAfter(t, f.shape, patch)
  BY MergedType
<1>3. h.group = f.group
  BY <1>1, <1>2 DEF GroupAfter
<1>4. h.shape = f.shape
  <2>1. PICK v \in AnyShape(t), w \in AnyShape(t), x \in AnyShape(t) : v = e.shape /\ w = f.shape /\ x = h.shape
    BY DEF Entities
  <2>2. w = ShapeAfter(t, v, patch) /\ x = ShapeAfter(t, w, patch)
    BY <1>1, <1>2, <2>1
  <2>3. ASSUME NEW k \in Fields[t] PROVE x[k] = w[k]
    <3>1. w[k] = IF k \in DOMAIN patch THEN Merged(v[k], patch[k]) ELSE v[k]
      BY <2>2 DEF ShapeAfter
    <3>2. x[k] = IF k \in DOMAIN patch THEN Merged(w[k], patch[k]) ELSE w[k]
      BY <2>2 DEF ShapeAfter
    <3>3. v[k] \in Atoms \cup Objects
      BY DEF AnyShape
    <3>4. k \in DOMAIN patch => patch[k] \in Atoms \cup Objects
      BY PatchFields
    <3> QED BY <3>1, <3>2, <3>3, <3>4, MergedFacts
  <2> QED BY <2>1, <2>3 DEF AnyShape
<1> QED
  BY <1>1, <1>2, <1>3, <1>4, SameEntity

LEMMA MergesCommute ==
  ASSUME NEW t \in Types, NEW e \in Entities(t), NEW a \in Patches[t], NEW b \in Patches[t], Disjoint(a, b)
  PROVE  MergePatch(MergePatch(e, a), b) = MergePatch(MergePatch(e, b), a)
<1>1. PICK fa \in Entities(t) : fa = MergePatch(e, a) /\ fa.id = e.id /\ fa.group = GroupAfter(e.group, a)
                                /\ fa.shape = ShapeAfter(t, e.shape, a)
  BY MergedType
<1>2. PICK fb \in Entities(t) : fb = MergePatch(e, b) /\ fb.id = e.id /\ fb.group = GroupAfter(e.group, b)
                                /\ fb.shape = ShapeAfter(t, e.shape, b)
  BY MergedType
<1>3. PICK ab \in Entities(t) : ab = MergePatch(fa, b) /\ ab.id = fa.id /\ ab.group = GroupAfter(fa.group, b)
                                /\ ab.shape = ShapeAfter(t, fa.shape, b)
  BY MergedType
<1>4. PICK ba \in Entities(t) : ba = MergePatch(fb, a) /\ ba.id = fb.id /\ ba.group = GroupAfter(fb.group, a)
                                /\ ba.shape = ShapeAfter(t, fb.shape, a)
  BY MergedType
<1>5. ab.group = ba.group
  <2>1. ~("group" \in DOMAIN a /\ "group" \in DOMAIN b)
    BY DEF Disjoint
  <2> QED BY <1>1, <1>2, <1>3, <1>4, <2>1 DEF GroupAfter
<1>6. ab.shape = ba.shape
  <2>1. PICK v \in AnyShape(t), va \in AnyShape(t), vb \in AnyShape(t), w \in AnyShape(t), x \in AnyShape(t) :
           v = e.shape /\ va = fa.shape /\ vb = fb.shape /\ w = ab.shape /\ x = ba.shape
    BY DEF Entities
  <2>2. ASSUME NEW k \in Fields[t] PROVE w[k] = x[k]
    <3>1. va[k] = (IF k \in DOMAIN a THEN Merged(v[k], a[k]) ELSE v[k])
          /\ w[k] = (IF k \in DOMAIN b THEN Merged(va[k], b[k]) ELSE va[k])
      BY <1>1, <1>3, <2>1 DEF ShapeAfter
    <3>2. vb[k] = (IF k \in DOMAIN b THEN Merged(v[k], b[k]) ELSE v[k])
          /\ x[k] = (IF k \in DOMAIN a THEN Merged(vb[k], a[k]) ELSE vb[k])
      BY <1>2, <1>4, <2>1 DEF ShapeAfter
    <3>3. v[k] \in Atoms \cup Objects
      BY DEF AnyShape
    <3>4. CASE k \in DOMAIN a /\ k \in DOMAIN b
      <4>1. a[k] \in Objects /\ b[k] \in Objects /\ DOMAIN a[k] \cap DOMAIN b[k] = {}
        BY <3>4 DEF Disjoint
      <4> QED BY <3>1, <3>2, <3>3, <3>4, <4>1, MergedApart
    <3>5. CASE ~(k \in DOMAIN a /\ k \in DOMAIN b)
      BY <3>1, <3>2, <3>5
    <3> QED BY <3>4, <3>5
  <2> QED BY <2>1, <2>2 DEF AnyShape
<1> QED
  BY <1>1, <1>2, <1>3, <1>4, <1>5, <1>6, SameEntity

LEMMA PatchedType ==
  ASSUME NEW t \in Types, NEW list \in Seq(Entities(t)), NEW id, NEW patch \in Patches[t]
  PROVE  Patched(list, id, patch) \in Seq(Entities(t))
<1>1. PICK i : i = IndexOf(list, id)
  OBVIOUS
<1>2. CASE i = 0
  BY <1>1, <1>2 DEF Patched
<1>3. CASE i # 0
  <2>1. Patched(list, id, patch) = [list EXCEPT ![i] = MergePatch(list[i], patch)]
    BY <1>1, <1>3 DEF Patched
  <2>2. i \in DOMAIN list
    BY <1>1, <1>3, IndexFacts
  <2>3. MergePatch(list[i], patch) \in Entities(t)
    BY <2>2, MergedType
  <2> QED BY <2>1, <2>2, <2>3, ExceptSeq
<1> QED
  BY <1>2, <1>3

LEMMA DroppedType ==
  ASSUME NEW E, NEW list \in Seq(E), NEW id
  PROVE  Dropped(list, id) \in Seq(E)
BY KeptFacts DEF Dropped

LEMMA DroppedLength ==
  ASSUME NEW E, NEW list \in Seq(E), NEW id
  PROVE  Len(Dropped(list, id)) \in Nat /\ Len(Dropped(list, id)) <= Len(list)
<1>1. PICK n \in Nat : n = Len(list) /\ DOMAIN list = 1 .. n
  OBVIOUS
<1>2. PICK S \in SUBSET (1 .. n) : S = DOMAIN list \ PlacesOf(list, id)
  BY <1>1
<1>3. Len(Dropped(list, id)) = Cardinality(S) /\ Cardinality(S) \in Nat
  BY <1>1, <1>2, KeptFacts DEF Dropped
<1>4. IsFiniteSet(1 .. n) /\ Cardinality(1 .. n) = n
  BY FS_Interval
<1>5. Cardinality(S) <= Cardinality(1 .. n)
  BY <1>4, FS_Subset
<1> QED
  BY <1>1, <1>3, <1>4, <1>5

LEMMA UpsertedLength ==
  ASSUME NEW E, NEW list \in Seq(E), NEW e \in E
  PROVE  Len(Upserted(list, e)) = IF IndexOf(list, e.id) = 0 THEN Len(list) + 1 ELSE Len(list)
<1>1. PICK i : i = IndexOf(list, e.id)
  OBVIOUS
<1>2. CASE i = 0
  BY <1>1, <1>2 DEF Upserted
<1>3. CASE i # 0
  <2>1. Upserted(list, e) = [list EXCEPT ![i] = e] /\ i \in DOMAIN list
    BY <1>1, <1>3, IndexFacts DEF Upserted
  <2> QED BY <1>1, <1>3, <2>1
<1> QED
  BY <1>2, <1>3

LEMMA UngroupedFacts ==
  ASSUME NEW t \in Types, NEW list \in Seq(Entities(t)), NEW g
  PROVE  /\ Ungrouped(list, g) \in Seq(Entities(t)) /\ DOMAIN Ungrouped(list, g) = DOMAIN list
         /\ Len(Ungrouped(list, g)) = Len(list)
         /\ \A i \in DOMAIN list :
               Ungrouped(list, g)[i] = IF list[i].group = g THEN [list[i] EXCEPT !.group = None] ELSE list[i]
<1>1. PICK n \in Nat : n = Len(list) /\ DOMAIN list = 1 .. n
  OBVIOUS
<1>2. Ungrouped(list, g) = [i \in 1 .. n |-> IF list[i].group = g THEN [list[i] EXCEPT !.group = None] ELSE list[i]]
  BY <1>1 DEF Ungrouped
<1>3. \A e \in Entities(t) : [e EXCEPT !.group = None] \in Entities(t)
  BY DEF Entities
<1>4. \A i \in 1 .. n : (IF list[i].group = g THEN [list[i] EXCEPT !.group = None] ELSE list[i]) \in Entities(t)
  BY <1>1, <1>3
<1>5. Ungrouped(list, g) \in Seq(Entities(t)) /\ Len(Ungrouped(list, g)) = n /\ DOMAIN Ungrouped(list, g) = 1 .. n
  <2>1. PICK l : l = Ungrouped(list, g)
    OBVIOUS
  <2>2. l \in [1 .. n -> Entities(t)]
    BY <1>2, <1>4, <2>1
  <2>3. l \in Seq(Entities(t)) /\ Len(l) = n /\ DOMAIN l = 1 .. n
    BY <2>2
  <2> QED BY <2>1, <2>3
<1> QED
  BY <1>1, <1>2, <1>5

\* An order's known ids, each once, and what follows them.
LEMMA ForemostFacts ==
  ASSUME NEW E, NEW list \in Seq(E), NEW I, NEW ids \in Seq(I)
  PROVE  /\ Known(list, ids) \in Seq(I) /\ DOMAIN Known(list, ids) = 1 .. Len(Known(list, ids))
         /\ \A k \in DOMAIN Known(list, ids) :
               /\ \E j \in DOMAIN ids : Known(list, ids)[k] = ids[j]
               /\ PlacesOf(list, Known(list, ids)[k]) # {}
         /\ \A j \in DOMAIN ids : PlacesOf(list, ids[j]) # {} => \E k \in DOMAIN Known(list, ids) : Known(list, ids)[k] = ids[j]
         /\ Foremost(list, ids) \in Seq(E) /\ Len(Foremost(list, ids)) = Len(Known(list, ids))
         /\ DOMAIN Foremost(list, ids) = DOMAIN Known(list, ids)
         /\ \A k \in DOMAIN Known(list, ids) : Foremost(list, ids)[k] = LastOf(list, Known(list, ids)[k])
<1> DEFINE S == {k \in DOMAIN ids : ids[k] \in IdsOf(list)}
<1>1. PICK named \in Seq(I) : named = Known(list, ids)
  BY KeptFacts DEF Known
<1>2. /\ DOMAIN named = 1 .. Cardinality(S) /\ Cardinality(S) \in Nat
      /\ \A k \in 1 .. Cardinality(S) : Nth(S, k) \in S /\ named[k] = ids[Nth(S, k)]
      /\ \A i \in S : \E k \in 1 .. Cardinality(S) : Nth(S, k) = i
  <2>1. S \in SUBSET DOMAIN ids /\ named = Kept(ids, S)
    BY <1>1 DEF Known
  <2> HIDE DEF S
  <2> QED BY <2>1, KeptFacts
<1>3. \A id : id \in IdsOf(list) <=> PlacesOf(list, id) # {}
  BY DEF IdsOf, PlacesOf
<1>4. \A k \in DOMAIN named : (\E j \in DOMAIN ids : named[k] = ids[j]) /\ PlacesOf(list, named[k]) # {}
  BY <1>2, <1>3
<1>5. \A j \in DOMAIN ids : PlacesOf(list, ids[j]) # {} => \E k \in DOMAIN named : named[k] = ids[j]
  BY <1>2, <1>3
<1>6. \A k \in DOMAIN named : LastOf(list, named[k]) \in E
  BY <1>4, LastFacts
<1>7. PICK m \in Nat : m = Len(named) /\ DOMAIN named = 1 .. m
  OBVIOUS
<1>8. Foremost(list, ids) = [k \in 1 .. m |-> LastOf(list, named[k])]
  BY <1>1, <1>7 DEF Foremost
<1>9. Foremost(list, ids) \in Seq(E) /\ Len(Foremost(list, ids)) = m /\ DOMAIN Foremost(list, ids) = 1 .. m
  BY <1>6, <1>7, <1>8, IsASeq
<1> QED
  BY <1>1, <1>4, <1>5, <1>7, <1>8, <1>9

LEMMA OrderedType ==
  ASSUME NEW E, NEW list \in Seq(E), NEW I, NEW ids \in Seq(I)
  PROVE  Ordered(list, ids) \in Seq(E)
<1>1. Foremost(list, ids) \in Seq(E)
  BY ForemostFacts
<1>2. Kept(list, {i \in DOMAIN list : list[i].id \notin ToSet(ids)}) \in Seq(E)
  BY KeptFacts
<1> QED
  BY <1>1, <1>2, ConcatProperties DEF Ordered

LEMMA OrderForm ==
  ASSUME NEW op \in OrderOps
  PROVE  \E t \in {"drawable", "tattoo"} : \E ids \in Seq(Uuids(t)) :
            /\ op = [kind |-> "order.set", type |-> t, ids |-> ids]
            /\ \A j, k \in DOMAIN ids : ids[j] = ids[k] => j = k
<1>1. PICK t \in {"drawable", "tattoo"} : \E ids \in UNION {SetToSeqs(S) : S \in SUBSET Uuids(t)} :
                                             op = [kind |-> "order.set", type |-> t, ids |-> ids]
  BY DEF OrderOps
<1>2. PICK S \in SUBSET Uuids(t) : \E ids \in SetToSeqs(S) : op = [kind |-> "order.set", type |-> t, ids |-> ids]
  BY <1>1
<1>3. PICK ids \in SetToSeqs(S) : op = [kind |-> "order.set", type |-> t, ids |-> ids]
  BY <1>2
<1>4. IsFiniteSet(S) /\ Cardinality(S) \in Nat
  <2>1. IsFiniteSet(Uuids(t))
    BY ProjectAssumption DEF Uuids
  <2> QED BY <2>1, FS_Subset, FS_CardinalityType
<1>5. ids \in [1 .. Cardinality(S) -> S] /\ \A i, j \in 1 .. Cardinality(S) : i # j => ids[i] # ids[j]
  BY <1>3 DEF SetToSeqs
<1>6. ids \in Seq(Uuids(t)) /\ DOMAIN ids = 1 .. Cardinality(S)
  BY <1>4, <1>5
<1> QED
  BY <1>3, <1>5, <1>6

\* The operations that clients can send, and the lists they make.
LEMMA LeafForms ==
  ASSUME NEW op \in LeafOps
  PROVE  \/ \E n \in Names \cup BadNames : op = [kind |-> "project.patch", name |-> n]
         \/ \E t \in Types : \E id \in Uuids(t) : op = [kind |-> "entity.delete", type |-> t, id |-> id]
         \/ \E t \in Types : \E e \in Entities(t) :
               /\ op = [kind |-> "entity.upsert", type |-> t, entity |-> e]
         \/ \E t \in Types : \E id \in Uuids(t) : \E patch \in Patches[t] :
               op = [kind |-> "entity.patch", type |-> t, id |-> id, patch |-> patch]
         \/ \E t \in {"drawable", "tattoo"} : \E ids \in Seq(Uuids(t)) :
               /\ op = [kind |-> "order.set", type |-> t, ids |-> ids]
               /\ \A j, k \in DOMAIN ids : ids[j] = ids[k] => j = k
<1>1. CASE op \in OrderOps
  BY <1>1, OrderForm
<1>2. CASE op \in {[kind |-> "project.patch", name |-> n] : n \in Names \cup BadNames}
  BY <1>2
<1>3. CASE op \in EntityEdits
  <2>1. PICK t \in Types : op \in EntityOps(t)
    BY <1>3 DEF EntityEdits
  <2>2. CASE op \in {[kind |-> "entity.delete", type |-> t, id |-> id] : id \in Uuids(t)}
    BY <2>2
  <2>3. CASE op \in {[kind |-> "entity.patch", type |-> t, id |-> id, patch |-> patch] :
                        id \in Uuids(t), patch \in Patches[t]}
    BY <2>3
  <2>4. CASE \E id \in UpsertIds(t) : \E s \in Sent[t] : \E g \in Groups \cup {None} :
                op = [kind |-> "entity.upsert", type |-> t, entity |-> Entity(id, g, s)]
    <3>1. PICK id \in UpsertIds(t), s \in Sent[t], g \in Groups \cup {None} :
             op = [kind |-> "entity.upsert", type |-> t, entity |-> Entity(id, g, s)]
      BY <2>4
    <3>2. Entity(id, g, s) \in Entities(t)
      BY ProjectAssumption DEF Entity, Entities
    <3> QED BY <3>1, <3>2
  <2> QED
    BY <2>1, <2>2, <2>3, <2>4 DEF EntityOps
<1> QED
  BY <1>1, <1>2, <1>3 DEF LeafOps

\* p and q are projects; q's lists are made of p's by op.
Made(p, q, op) ==
    \/ \E n \in Names \cup BadNames :
          op = [kind |-> "project.patch", name |-> n] /\ q.name = n /\ \A u \in Types : q[u] = p[u]
    \/ /\ q.name = p.name
       /\ \E t \in Types :
          \/ \E id \in Uuids(t) :
                /\ op = [kind |-> "entity.delete", type |-> t, id |-> id]
                /\ q[t] = Dropped(p[t], id)
                /\ \A u \in Types \ {t} : q[u] = IF t = "group" THEN Ungrouped(p[u], id) ELSE p[u]
          \/ \E e \in Entities(t) :
                /\ op = [kind |-> "entity.upsert", type |-> t, entity |-> e]
                /\ q[t] = Upserted(p[t], e)
                /\ \A u \in Types \ {t} : q[u] = p[u]
          \/ \E id \in Uuids(t) : \E patch \in Patches[t] :
                /\ op = [kind |-> "entity.patch", type |-> t, id |-> id, patch |-> patch]
                /\ q[t] = Patched(p[t], id, patch)
                /\ \A u \in Types \ {t} : q[u] = p[u]
          \/ \E ids \in Seq(Uuids(t)) :
                /\ op = [kind |-> "order.set", type |-> t, ids |-> ids] /\ t # "group"
                /\ \A j, k \in DOMAIN ids : ids[j] = ids[k] => j = k
                /\ q[t] = Ordered(p[t], ids)
                /\ \A u \in Types \ {t} : q[u] = p[u]

LEMMA ListOfProject ==
  ASSUME NEW p \in Projects, NEW t \in Types
  PROVE  p[t] \in Seq(Entities(t))
BY DEF Projects, Types

LEMMA LeafMakes ==
  ASSUME NEW p \in Projects, NEW op \in LeafOps
  PROVE  ApplyLeaf(p, op) \in Projects /\ Made(p, ApplyLeaf(p, op), op)
<1>1. CASE \E n \in Names \cup BadNames : op = [kind |-> "project.patch", name |-> n]
  <2>1. PICK n \in Names \cup BadNames : op = [kind |-> "project.patch", name |-> n]
    BY <1>1
  <2>2. ApplyLeaf(p, op) = [p EXCEPT !.name = n]
    BY <2>1 DEF ApplyLeaf
  <2>3. [p EXCEPT !.name = n] \in Projects /\ [p EXCEPT !.name = n].name = n
        /\ \A u \in Types : [p EXCEPT !.name = n][u] = p[u]
    BY DEF Projects, Types
  <2> QED BY <2>1, <2>2, <2>3 DEF Made
<1>2. CASE \E t \in Types : \E id \in Uuids(t) : op = [kind |-> "entity.delete", type |-> t, id |-> id]
  <2>0. PICK t \in Types : \E id \in Uuids(t) : op = [kind |-> "entity.delete", type |-> t, id |-> id]
    BY <1>2
  <2>1. PICK id \in Uuids(t) : op = [kind |-> "entity.delete", type |-> t, id |-> id]
    BY <2>0
  <2>2. ApplyLeaf(p, op) = Deleted(p, t, id)
    BY <2>1 DEF ApplyLeaf
  <2>3. PICK l : l = Dropped(p[t], id) /\ l \in Seq(Entities(t))
    BY ListOfProject, DroppedType
  <2>4. CASE t = "group"
    <3>1. PICK ds, ts : ds = Ungrouped(p.drawable, id) /\ ts = Ungrouped(p.tattoo, id)
      OBVIOUS
    <3>2. ds \in Seq(Entities("drawable")) /\ ts \in Seq(Entities("tattoo"))
      BY <3>1, ListOfProject, UngroupedFacts DEF Types
    <3>3. Deleted(p, t, id) = [p EXCEPT !.group = l, !.drawable = ds, !.tattoo = ts]
      BY <2>3, <2>4, <3>1 DEF Deleted
    <3>4. PICK q : q = [p EXCEPT !.group = l, !.drawable = ds, !.tattoo = ts]
      OBVIOUS
    <3>5. q \in Projects /\ q.name = p.name /\ q.group = l /\ q.drawable = ds /\ q.tattoo = ts
      BY <2>3, <2>4, <3>2, <3>4 DEF Projects
    <3>6. \A u \in Types \ {t} : q[u] = Ungrouped(p[u], id)
      BY <2>4, <3>1, <3>5 DEF Types
    <3>7. ApplyLeaf(p, op) = q
      BY <2>2, <3>3, <3>4
    <3>8. q[t] = Dropped(p[t], id)
      BY <2>3, <2>4, <3>5
    <3>9. Made(p, q, op)
      BY <2>1, <2>4, <3>5, <3>6, <3>8 DEF Made
    <3> QED BY <3>5, <3>7, <3>9
  <2>5. CASE t # "group"
    <3>1. PICK q : q = [p EXCEPT ![t] = l]
      OBVIOUS
    <3>2. ApplyLeaf(p, op) = q
      BY <2>2, <2>3, <2>5, <3>1 DEF Deleted
    <3>3. q \in Projects /\ q.name = p.name /\ q[t] = l /\ \A u \in Types \ {t} : q[u] = p[u]
      BY <2>3, <3>1 DEF Projects, Types
    <3>4. Made(p, q, op)
      BY <2>1, <2>3, <2>5, <3>3 DEF Made
    <3> QED BY <3>2, <3>3, <3>4
  <2> QED BY <2>4, <2>5
<1>3. CASE \E t \in Types : \E e \in Entities(t) : op = [kind |-> "entity.upsert", type |-> t, entity |-> e]
  <2>0. PICK t \in Types : \E e \in Entities(t) : op = [kind |-> "entity.upsert", type |-> t, entity |-> e]
    BY <1>3
  <2>1. PICK e \in Entities(t) : op = [kind |-> "entity.upsert", type |-> t, entity |-> e]
    BY <2>0
  <2>2. PICK l : l = Upserted(p[t], e) /\ l \in Seq(Entities(t))
    BY ListOfProject, UpsertedType
  <2>3. PICK q : q = [p EXCEPT ![t] = l]
    OBVIOUS
  <2>4. ApplyLeaf(p, op) = q
    BY <2>1, <2>2, <2>3 DEF ApplyLeaf
  <2>5. q \in Projects /\ q.name = p.name /\ q[t] = l /\ \A u \in Types \ {t} : q[u] = p[u]
    BY <2>2, <2>3 DEF Projects, Types
  <2>6. Made(p, q, op)
    BY <2>1, <2>2, <2>5 DEF Made
  <2> QED BY <2>4, <2>5, <2>6
<1>4. CASE \E t \in Types : \E id \in Uuids(t) : \E patch \in Patches[t] :
              op = [kind |-> "entity.patch", type |-> t, id |-> id, patch |-> patch]
  <2>a. PICK t \in Types : \E id \in Uuids(t) : \E patch \in Patches[t] :
              op = [kind |-> "entity.patch", type |-> t, id |-> id, patch |-> patch]
    BY <1>4
  <2>b. PICK id \in Uuids(t) : \E patch \in Patches[t] :
              op = [kind |-> "entity.patch", type |-> t, id |-> id, patch |-> patch]
    BY <2>a
  <2>0. PICK patch \in Patches[t] : op = [kind |-> "entity.patch", type |-> t, id |-> id, patch |-> patch]
    BY <2>b
  <2>2. PICK l : l = Patched(p[t], id, patch) /\ l \in Seq(Entities(t))
    BY ListOfProject, PatchedType
  <2>3. PICK q : q = [p EXCEPT ![t] = l]
    OBVIOUS
  <2>4. ApplyLeaf(p, op) = q
    BY <2>0, <2>2, <2>3 DEF ApplyLeaf
  <2>5. q \in Projects /\ q.name = p.name /\ q[t] = l /\ \A u \in Types \ {t} : q[u] = p[u]
    BY <2>2, <2>3 DEF Projects, Types
  <2>6. Made(p, q, op)
    BY <2>0, <2>2, <2>5 DEF Made
  <2> QED BY <2>4, <2>5, <2>6
<1>5. CASE \E t \in {"drawable", "tattoo"} : \E ids \in Seq(Uuids(t)) :
              /\ op = [kind |-> "order.set", type |-> t, ids |-> ids]
              /\ \A j, k \in DOMAIN ids : ids[j] = ids[k] => j = k
  <2>1. PICK t \in {"drawable", "tattoo"} : \E ids \in Seq(Uuids(t)) :
              /\ op = [kind |-> "order.set", type |-> t, ids |-> ids]
              /\ \A j, k \in DOMAIN ids : ids[j] = ids[k] => j = k
    BY <1>5
  <2>0. PICK ids \in Seq(Uuids(t)) :
              /\ op = [kind |-> "order.set", type |-> t, ids |-> ids]
              /\ \A j, k \in DOMAIN ids : ids[j] = ids[k] => j = k
    BY <2>1
  <2>a. t \in Types /\ t # "group"
    BY DEF Types
  <2>2. PICK l : l = Ordered(p[t], ids) /\ l \in Seq(Entities(t))
    BY <2>a, ListOfProject, OrderedType
  <2>3. PICK q : q = [p EXCEPT ![t] = l]
    OBVIOUS
  <2>4. ApplyLeaf(p, op) = q
    BY <2>0, <2>2, <2>3 DEF ApplyLeaf
  <2>5. q \in Projects /\ q.name = p.name /\ q[t] = l /\ \A u \in Types \ {t} : q[u] = p[u]
    BY <2>2, <2>3, <2>a DEF Projects, Types
  <2>6. Made(p, q, op)
    BY <2>0, <2>a, <2>2, <2>5 DEF Made
  <2> QED BY <2>4, <2>5, <2>6
<1> QED
  BY <1>1, <1>2, <1>3, <1>4, <1>5, LeafForms

(* Every operation, batches included, makes a project of a project.        *)
LEMMA ReducedType ==
  ASSUME NEW p \in Projects, NEW op \in Operations
  PROVE  Leaves(op) \in Seq(LeafOps) /\ Reduced(p, op) \in Projects
<1>1. Leaves(op) \in Seq(LeafOps)
  <2>1. CASE op \in LeafOps
    <3>1. op.kind # "batch"
      BY <2>1, LeafForms
    <3>2. Leaves(op) = <<op>>
      BY <3>1 DEF Leaves
    <3> QED BY <2>1, <3>2
  <2>2. CASE \E ops \in Batches : op = [kind |-> "batch", operations |-> ops]
    BY <2>2, BatchAssumption DEF Leaves
  <2> QED BY <2>1, <2>2 DEF Operations
<1>2. PICK after : /\ after[0] = p /\ Reduced(p, op) = after[Len(Leaves(op))]
                   /\ \A k \in 1 .. Len(Leaves(op)) : after[k] = ApplyLeaf(after[k - 1], Leaves(op)[k])
  BY <1>1, ReducedSteps
<1>3. PICK n \in Nat : n = Len(Leaves(op)) /\ \A k \in 1 .. n : Leaves(op)[k] \in LeafOps
  BY <1>1
<1> DEFINE S == {m \in Nat : m <= n => after[m] \in Projects}
<1>4. 0 \in S
  BY <1>2
<1>5. ASSUME NEW m \in S PROVE m + 1 \in S
  <2> SUFFICES ASSUME m + 1 <= n PROVE after[m + 1] \in Projects
    OBVIOUS
  <2>1. m \in Nat /\ m <= n /\ m + 1 \in 1 .. n /\ (m + 1) - 1 = m
    OBVIOUS
  <2>2. after[m] \in Projects /\ Leaves(op)[m + 1] \in LeafOps
    BY <1>3, <2>1
  <2>3. after[m + 1] = ApplyLeaf(after[m], Leaves(op)[m + 1])
    BY <1>2, <1>3, <2>1
  <2> QED BY <2>2, <2>3, LeafMakes
<1>6. S = Nat
  <2>1. S \in SUBSET Nat
    OBVIOUS
  <2> HIDE DEF S
  <2> QED BY <1>4, <1>5, <2>1, UpFromZero
<1> QED
  BY <1>1, <1>2, <1>3, <1>6

-----------------------------------------------------------------------------
(* What the parser makes of a project.                                     *)

LEMMA TrimFacts ==
  /\ \A id \in Drawables \cup Loose : Trim(id) = id
  /\ \A id \in Drawables : Trim(Padded(id)) = id
  /\ \A id \in UpsertIds("drawable") : Trim(id) \in Drawables \cup Loose /\ Trim(Trim(id)) = Trim(id)
  /\ \A id \in UpsertIds("drawable") : id \in Drawables \cup Loose \/ \E d \in Drawables : id = Padded(d)
<1>1. \A id \in Drawables \cup Loose : Trim(id) = id
  BY DEF Trim
<1>2. \A id \in Drawables : Trim(Padded(id)) = id
  BY PaddedAssumption DEF Trim, Padded
<1>3. \A id \in UpsertIds("drawable") : id \in Drawables \cup Loose \/ \E d \in Drawables : id = Padded(d)
  BY DEF UpsertIds
<1> QED
  BY <1>1, <1>2, <1>3

\* The id of an entity once it is parsed.
ParsedEntity(t, e) == IF t = "drawable" THEN [e EXCEPT !.id = Trim(@)] ELSE e

LEMMA ParsedEntityType ==
  ASSUME NEW t \in Types, NEW e \in Entities(t)
  PROVE  /\ ParsedEntity(t, e) \in Entities(t)
         /\ ParsedEntity(t, e).group = e.group /\ ParsedEntity(t, e).shape = e.shape
         /\ ParsedEntity(t, e).id = IF t = "drawable" THEN Trim(e.id) ELSE e.id
         /\ ParsedEntity(t, ParsedEntity(t, e)) = ParsedEntity(t, e)
<1>1. CASE t # "drawable"
  BY <1>1 DEF ParsedEntity
<1>2. CASE t = "drawable"
  <2>1. e.id \in UpsertIds("drawable") /\ Trim(e.id) \in UpsertIds("drawable") /\ Trim(Trim(e.id)) = Trim(e.id)
    <3>1. e.id \in UpsertIds("drawable")
      BY <1>2 DEF Entities
    <3>2. Trim(e.id) \in Drawables \cup Loose
      BY <3>1, TrimFacts
    <3>3. Drawables \cup Loose \subseteq UpsertIds("drawable")
      BY DEF UpsertIds
    <3> QED BY <3>1, <3>2, <3>3, TrimFacts
  <2>2. PICK f : f = [e EXCEPT !.id = Trim(e.id)] /\ f = ParsedEntity(t, e)
    BY <1>2 DEF ParsedEntity
  <2>3. f \in Entities(t) /\ f.id = Trim(e.id) /\ f.group = e.group /\ f.shape = e.shape
    BY <1>2, <2>1, <2>2 DEF Entities
  <2>4. ParsedEntity(t, f) = [f EXCEPT !.id = Trim(f.id)]
    BY <1>2 DEF ParsedEntity
  <2>5. [f EXCEPT !.id = Trim(f.id)] = f
    BY <2>1, <2>3 DEF Entities
  <2> QED BY <1>2, <2>2, <2>3, <2>4, <2>5
<1> QED
  BY <1>1, <1>2

LEMMA ParsedFacts ==
  ASSUME NEW p \in Projects
  PROVE  /\ Parsed(p) \in Projects /\ Parsed(p).name = p.name
         /\ \A t \in Types : /\ DOMAIN Parsed(p)[t] = DOMAIN p[t] /\ Len(Parsed(p)[t]) = Len(p[t])
                             /\ \A i \in DOMAIN p[t] : Parsed(p)[t][i] = ParsedEntity(t, p[t][i])
                             /\ t # "drawable" => Parsed(p)[t] = p[t]
<1>1. PICK ds \in Seq(Entities("drawable")) : ds = p.drawable
  BY DEF Projects
<1>2. PICK n \in Nat : n = Len(ds) /\ DOMAIN ds = 1 .. n
  OBVIOUS
<1>3. PICK l : l = [i \in 1 .. n |-> [ds[i] EXCEPT !.id = Trim(ds[i].id)]]
  OBVIOUS
<1>4. \A i \in 1 .. n : l[i] = ParsedEntity("drawable", ds[i]) /\ l[i] \in Entities("drawable")
  <2>1. \A i \in 1 .. n : l[i] = ParsedEntity("drawable", ds[i])
    BY <1>3 DEF ParsedEntity
  <2>2. "drawable" \in Types /\ \A i \in 1 .. n : ds[i] \in Entities("drawable")
    BY <1>2 DEF Types
  <2> QED BY <2>1, <2>2, ParsedEntityType
<1>5. l \in Seq(Entities("drawable")) /\ Len(l) = n /\ DOMAIN l = 1 .. n
  <2>1. l \in [1 .. n -> Entities("drawable")]
    BY <1>3, <1>4
  <2> QED BY <2>1
<1>6. Parsed(p) = [p EXCEPT !.drawable = l]
  <2>1. Parsed(p) = [p EXCEPT !.drawable = Trimmed(ds)]
    BY <1>1 DEF Parsed
  <2>2. l = Trimmed(ds)
    BY <1>2, <1>3 DEF Trimmed
  <2> QED BY <2>1, <2>2
<1>7. PICK q : q = Parsed(p)
  OBVIOUS
<1>8. q \in Projects /\ q.name = p.name /\ q.drawable = l /\ q.group = p.group /\ q.tattoo = p.tattoo
  BY <1>5, <1>6, <1>7 DEF Projects
<1>9. ASSUME NEW t \in Types
      PROVE  /\ DOMAIN q[t] = DOMAIN p[t] /\ Len(q[t]) = Len(p[t])
             /\ \A i \in DOMAIN p[t] : q[t][i] = ParsedEntity(t, p[t][i])
             /\ t # "drawable" => q[t] = p[t]
  <2>1. CASE t = "drawable"
    BY <2>1, <1>1, <1>2, <1>4, <1>5, <1>8
  <2>2. CASE t # "drawable"
    <3>1. q[t] = p[t]
      BY <1>8, <2>2 DEF Types
    <3>2. \A e : ParsedEntity(t, e) = e
      BY <2>2 DEF ParsedEntity
    <3> QED BY <3>1, <3>2, <2>2
  <2> QED BY <2>1, <2>2
<1> QED
  BY <1>7, <1>8, <1>9

LEMMA SameProject ==
  ASSUME NEW p \in Projects, NEW q \in Projects, p.name = q.name, \A t \in Types : p[t] = q[t]
  PROVE  p = q
BY DEF Projects, Types

\* A parsed project parses again, to itself.
LEMMA ParsedStored ==
  ASSUME NEW p \in Projects, Parses(p)
  PROVE  Stored(Parsed(p))
<1>1. PICK q \in Projects : q = Parsed(p)
  BY ParsedFacts
<1>2. /\ q.name = p.name
      /\ \A t \in Types : /\ DOMAIN q[t] = DOMAIN p[t]
                          /\ \A i \in DOMAIN p[t] : q[t][i] = ParsedEntity(t, p[t][i])
                          /\ t # "drawable" => q[t] = p[t]
  BY <1>1, ParsedFacts
<1>3. \A t \in Types : \A i \in DOMAIN p[t] : p[t][i] \in Entities(t)
  BY ListOfProject
<1>4. \A t \in Types : \A i \in DOMAIN p[t] : q[t][i].shape = p[t][i].shape /\ q[t][i].group = p[t][i].group
  BY <1>2, <1>3, ParsedEntityType
<1>5. q.group = p.group /\ q.tattoo = p.tattoo /\ "drawable" \in Types /\ "tattoo" \in Types /\ "group" \in Types
  BY <1>2 DEF Types
<1>6. Parses(q)
  <2>1. q.name \in Names
    BY <1>2 DEF Parses
  <2>2. \A t \in Types : Len(q[t]) <= Limit[t] /\ \A i \in DOMAIN q[t] : q[t][i].shape \in Shapes[t]
    <3>1. \A t \in Types : Len(q[t]) = Len(p[t])
      BY <1>1, ParsedFacts
    <3> QED BY <1>2, <1>4, <3>1 DEF Parses
  <2>3. \A t \in {"group", "tattoo"} : DistinctIds(q[t]) /\ IdsOf(q[t]) \subseteq Uuids(t)
    BY <1>5 DEF Parses
  <2>4. \A t \in {"drawable", "tattoo"} : \A i \in DOMAIN q[t] : q[t][i].group \in IdsOf(q.group) \cup {None}
    BY <1>2, <1>4, <1>5 DEF Parses
  <2> QED BY <2>1, <2>2, <2>3, <2>4 DEF Parses
<1>7. Parsed(q) = q
  <2>1. PICK r \in Projects : r = Parsed(q)
    BY ParsedFacts
  <2>2. /\ r.name = q.name
        /\ \A t \in Types : /\ DOMAIN r[t] = DOMAIN q[t] /\ Len(r[t]) = Len(q[t])
                            /\ \A i \in DOMAIN q[t] : r[t][i] = ParsedEntity(t, q[t][i])
    BY <2>1, ParsedFacts
  <2>3. \A t \in Types : \A i \in DOMAIN q[t] : r[t][i] = q[t][i]
    BY <2>2, <1>2, <1>3, ParsedEntityType
  <2>4. \A t \in Types : r[t] \in Seq(Entities(t)) /\ q[t] \in Seq(Entities(t))
    BY ListOfProject
  <2>5. \A t \in Types : r[t] = q[t]
    BY <2>2, <2>3, <2>4, SeqEqual
  <2>6. r = q
    BY <2>2, <2>5, SameProject
  <2> QED BY <2>1, <2>6
<1> QED
  BY <1>1, <1>6, <1>7 DEF Stored

\* The ids of stored drawables have no blanks.
LEMMA StoredIds ==
  ASSUME NEW p, Stored(p)
  PROVE  /\ p \in Projects
         /\ \A t \in Types : \A i \in DOMAIN p[t] : p[t][i] \in Entities(t) /\ ParsedEntity(t, p[t][i]) = p[t][i]
         /\ \A i \in DOMAIN p.drawable : p.drawable[i].id \in Drawables \cup Loose
<1>1. p \in Projects /\ Parsed(p) = p
  BY DEF Stored
<1>2. \A t \in Types : \A i \in DOMAIN p[t] : p[t][i] \in Entities(t)
  BY <1>1, ListOfProject
<1>3. \A t \in Types : \A i \in DOMAIN p[t] : ParsedEntity(t, p[t][i]) = p[t][i]
  BY <1>1, ParsedFacts
<1>4. ASSUME NEW i \in DOMAIN p.drawable PROVE p.drawable[i].id \in Drawables \cup Loose
  <2>1. "drawable" \in Types /\ p["drawable"] = p.drawable
    BY DEF Types
  <2>2. p.drawable[i] \in Entities("drawable") /\ ParsedEntity("drawable", p.drawable[i]) = p.drawable[i]
    BY <1>2, <1>3, <2>1
  <2>3. Trim(p.drawable[i].id) = p.drawable[i].id
    BY <2>1, <2>2, ParsedEntityType
  <2>4. p.drawable[i].id \in UpsertIds("drawable")
    BY <2>2 DEF Entities
  <2> QED BY <2>3, <2>4, TrimFacts
<1> QED
  BY <1>1, <1>2, <1>3, <1>4

-----------------------------------------------------------------------------
(* What is in a list after an operation.                                   *)

Has(list, x) == \E i \in DOMAIN list : list[i] = x

LEMMA DistinctFacts ==
  ASSUME NEW list, DistinctIds(list), NEW x, NEW y, Has(list, x), Has(list, y), x.id = y.id
  PROVE  x = y
BY DEF Has, DistinctIds

LEMMA IdsFacts ==
  ASSUME NEW list, NEW id
  PROVE  /\ id \in IdsOf(list) <=> \E x : Has(list, x) /\ x.id = id
         /\ id \in IdsOf(list) <=> PlacesOf(list, id) # {}
BY DEF Has, IdsOf, PlacesOf

LEMMA FirstFacts ==
  ASSUME NEW E, NEW list \in Seq(E), NEW id
  PROVE  PlacesOf(list, id) # {} => Has(list, list[IndexOf(list, id)]) /\ list[IndexOf(list, id)].id = id
BY IndexFacts DEF Has

LEMMA KeptEntries ==
  ASSUME NEW E, NEW list \in Seq(E), NEW S \in SUBSET DOMAIN list
  PROVE  /\ \A x : Has(Kept(list, S), x) <=> \E i \in S : list[i] = x
         /\ DistinctIds(list) => DistinctIds(Kept(list, S))
<1>1. PICK c \in Nat : c = Cardinality(S)
  BY KeptFacts
<1>2. PICK l : l = Kept(list, S)
  OBVIOUS
<1>3. /\ DOMAIN l = 1 .. c
      /\ \A k \in 1 .. c : Nth(S, k) \in S /\ l[k] = list[Nth(S, k)]
      /\ \A i \in S : \E k \in 1 .. c : Nth(S, k) = i
      /\ \A j, k \in 1 .. c : j < k => Nth(S, j) < Nth(S, k)
  BY <1>1, <1>2, KeptFacts
<1>4. \A x : Has(l, x) <=> \E i \in S : list[i] = x
  BY <1>3 DEF Has
<1>5. ASSUME DistinctIds(list), NEW j \in 1 .. c, NEW k \in 1 .. c, l[j].id = l[k].id PROVE j = k
  <2>1. PICK x \in S : x = Nth(S, j)
    BY <1>3
  <2>2. PICK y \in S : y = Nth(S, k)
    BY <1>3
  <2>3. x = y
    BY <1>3, <1>5, <2>1, <2>2 DEF DistinctIds
  <2>4. x \in Nat /\ ~(x < x)
    OBVIOUS
  <2>5. ~(j < k) /\ ~(k < j)
    BY <1>3, <2>1, <2>2, <2>3, <2>4
  <2> QED BY <2>5
<1> QED
  BY <1>2, <1>3, <1>4, <1>5 DEF DistinctIds

LEMMA DroppedEntries ==
  ASSUME NEW E, NEW list \in Seq(E), NEW id
  PROVE  /\ \A x : Has(Dropped(list, id), x) <=> Has(list, x) /\ x.id # id
         /\ DistinctIds(list) => DistinctIds(Dropped(list, id))
<1>1. \A x : Has(Dropped(list, id), x) <=> \E i \in DOMAIN list \ PlacesOf(list, id) : list[i] = x
  BY KeptEntries DEF Dropped
<1>2. DistinctIds(list) => DistinctIds(Dropped(list, id))
  BY KeptEntries DEF Dropped
<1> QED
  BY <1>1, <1>2 DEF Has, PlacesOf

LEMMA UpsertedEntries ==
  ASSUME NEW E, NEW list \in Seq(E), NEW e
  PROVE  /\ Has(Upserted(list, e), e)
         /\ \A x : Has(Upserted(list, e), x) => x = e \/ Has(list, x)
         /\ \A x : Has(list, x) /\ x.id # e.id => Has(Upserted(list, e), x)
         /\ DistinctIds(list) => DistinctIds(Upserted(list, e))
<1>1. PICK l : l = Upserted(list, e)
  OBVIOUS
<1>2. PICK i : i = IndexOf(list, e.id)
  OBVIOUS
<1>3. PICK n \in Nat : n = Len(list) /\ DOMAIN list = 1 .. n
  OBVIOUS
<1>4. CASE i = 0
  <2>1. l = Append(list, e) /\ PlacesOf(list, e.id) = {}
    BY <1>1, <1>2, <1>4, IndexFacts DEF Upserted
  <2>2. DOMAIN l = 1 .. n + 1 /\ l[n + 1] = e /\ \A k \in 1 .. n : l[k] = list[k]
    BY <1>3, <2>1, AppendProperties
  <2>3. \A k \in 1 .. n : list[k].id # e.id
    BY <1>3, <2>1 DEF PlacesOf
  <2>4. Has(l, e) /\ \A x : Has(list, x) => Has(l, x)
    BY <1>3, <2>2 DEF Has
  <2>5. \A k \in 1 .. n + 1 : k \in 1 .. n \/ k = n + 1
    OBVIOUS
  <2>6. \A x : Has(l, x) => x = e \/ Has(list, x)
    BY <1>3, <2>2, <2>5 DEF Has
  <2>7. DistinctIds(list) => DistinctIds(l)
    BY <1>3, <2>2, <2>3, <2>5 DEF DistinctIds
  <2> QED BY <1>1, <2>4, <2>6, <2>7
<1>5. CASE i # 0
  <2>1. l = [list EXCEPT ![i] = e] /\ i \in 1 .. n /\ list[i].id = e.id
    BY <1>1, <1>2, <1>3, <1>5, IndexFacts DEF Upserted
  <2>2. DOMAIN l = 1 .. n /\ l[i] = e /\ \A k \in 1 .. n \ {i} : l[k] = list[k]
    BY <1>3, <2>1
  <2>3. Has(l, e) /\ \A x : Has(list, x) /\ x.id # e.id => Has(l, x)
    BY <1>3, <2>1, <2>2 DEF Has
  <2>4. \A x : Has(l, x) => x = e \/ Has(list, x)
    BY <1>3, <2>2 DEF Has
  <2>5. \A k \in 1 .. n : l[k].id = list[k].id
    BY <2>1, <2>2
  <2>6. DistinctIds(list) => DistinctIds(l)
    BY <1>3, <2>2, <2>5 DEF DistinctIds
  <2> QED BY <1>1, <2>3, <2>4, <2>6
<1> QED
  BY <1>4, <1>5

LEMMA PatchedEntries ==
  ASSUME NEW t \in Types, NEW list \in Seq(Entities(t)), NEW id, NEW patch \in Patches[t]
  PROVE  /\ \A x : Has(Patched(list, id, patch), x) =>
                      \/ Has(list, x)
                      \/ PlacesOf(list, id) # {} /\ x = MergePatch(list[IndexOf(list, id)], patch)
         /\ PlacesOf(list, id) # {} => Has(Patched(list, id, patch), MergePatch(list[IndexOf(list, id)], patch))
         /\ \A x : Has(list, x) /\ x.id # id => Has(Patched(list, id, patch), x)
         /\ DOMAIN Patched(list, id, patch) = DOMAIN list
         /\ \A k \in DOMAIN list : Patched(list, id, patch)[k].id = list[k].id
         /\ DistinctIds(list) => DistinctIds(Patched(list, id, patch))
<1>1. PICK l : l = Patched(list, id, patch)
  OBVIOUS
<1>2. PICK i : i = IndexOf(list, id)
  OBVIOUS
<1>3. PICK n \in Nat : n = Len(list) /\ DOMAIN list = 1 .. n
  OBVIOUS
<1>4. CASE i = 0
  <2>1. l = list /\ PlacesOf(list, id) = {}
    BY <1>1, <1>2, <1>4, IndexFacts DEF Patched
  <2> QED BY <1>1, <2>1
<1>5. CASE i # 0
  <2>1. PICK e : e = MergePatch(list[i], patch)
    OBVIOUS
  <2>2. l = [list EXCEPT ![i] = e]
    BY <1>1, <1>2, <1>5, <2>1 DEF Patched
  <2>3. i \in 1 .. n /\ list[i].id = id /\ PlacesOf(list, id) # {}
    BY <1>2, <1>3, <1>5, IndexFacts
  <2>4. e.id = id
    BY <1>3, <2>1, <2>3, MergedType
  <2>5. DOMAIN l = 1 .. n /\ l[i] = e /\ \A k \in 1 .. n \ {i} : l[k] = list[k]
    BY <1>3, <2>2, <2>3
  <2>6. Has(l, e) /\ \A x : Has(list, x) /\ x.id # id => Has(l, x)
    BY <1>3, <2>3, <2>5 DEF Has
  <2>7. \A x : Has(l, x) => x = e \/ Has(list, x)
    BY <1>3, <2>5 DEF Has
  <2>8. \A k \in 1 .. n : l[k].id = list[k].id
    BY <2>3, <2>4, <2>5
  <2>9. DistinctIds(list) => DistinctIds(l)
    BY <1>3, <2>5, <2>8 DEF DistinctIds
  <2> QED BY <1>1, <1>2, <1>3, <2>1, <2>3, <2>5, <2>6, <2>7, <2>8, <2>9
<1> QED
  BY <1>4, <1>5

LEMMA UngroupedEntries ==
  ASSUME NEW t \in Types, NEW list \in Seq(Entities(t)), NEW g
  PROVE  /\ \A x : Has(Ungrouped(list, g), x) => x.group # g \/ g = None
         /\ \A x : Has(Ungrouped(list, g), x) =>
               \E y \in Entities(t) : Has(list, y) /\ x.id = y.id /\ x.shape = y.shape /\ (x.group = None \/ x = y)
         /\ \A k \in DOMAIN list : Ungrouped(list, g)[k].id = list[k].id
         /\ DistinctIds(list) => DistinctIds(Ungrouped(list, g))
<1>1. PICK l : l = Ungrouped(list, g)
  OBVIOUS
<1>2. \A k \in DOMAIN list : list[k] \in Entities(t)
  OBVIOUS
<1>3. DOMAIN l = DOMAIN list
      /\ \A k \in DOMAIN list : l[k] = IF list[k].group = g THEN [list[k] EXCEPT !.group = None] ELSE list[k]
  BY <1>1, UngroupedFacts
<1>4. \A y \in Entities(t) : /\ [y EXCEPT !.group = None].id = y.id /\ [y EXCEPT !.group = None].shape = y.shape
                             /\ [y EXCEPT !.group = None].group = None
  BY DEF Entities
<1>5. \A k \in DOMAIN list : l[k].id = list[k].id /\ l[k].shape = list[k].shape
                             /\ (l[k].group = None \/ l[k] = list[k]) /\ (l[k].group # g \/ g = None)
  <2> SUFFICES ASSUME NEW k \in DOMAIN list
               PROVE  l[k].id = list[k].id /\ l[k].shape = list[k].shape
                      /\ (l[k].group = None \/ l[k] = list[k]) /\ (l[k].group # g \/ g = None)
    OBVIOUS
  <2>1. PICK y \in Entities(t) : y = list[k]
    BY <1>2
  <2>2. CASE y.group = g
    BY <2>1, <2>2, <1>3, <1>4
  <2>3. CASE y.group # g
    BY <2>1, <2>3, <1>3
  <2> QED BY <2>2, <2>3
<1>6. \A x : Has(l, x) => x.group # g \/ g = None
  BY <1>3, <1>5 DEF Has
<1>7. \A x : Has(l, x) => \E y \in Entities(t) : Has(list, y) /\ x.id = y.id /\ x.shape = y.shape /\ (x.group = None \/ x = y)
  BY <1>2, <1>3, <1>5 DEF Has
<1>8. DistinctIds(list) => DistinctIds(l)
  BY <1>3, <1>5 DEF DistinctIds
<1> QED
  BY <1>1, <1>5, <1>6, <1>7, <1>8

LEMMA UngroupedOrigin ==
  ASSUME NEW t \in Types, NEW list \in Seq(Entities(t)), NEW g, NEW x, Has(Ungrouped(list, g), x)
  PROVE  \E y : Has(list, y) /\ x.id = y.id /\ x.shape = y.shape /\ (x.group = None \/ x = y)
<1>1. \A z : Has(Ungrouped(list, g), z) =>
            \E y \in Entities(t) : Has(list, y) /\ z.id = y.id /\ z.shape = y.shape /\ (z.group = None \/ z = y)
  BY UngroupedEntries
<1> QED
  BY <1>1

LEMMA ConcatEntries ==
  ASSUME NEW E, NEW a \in Seq(E), NEW b \in Seq(E)
  PROVE  /\ \A x : Has(a \o b, x) <=> Has(a, x) \/ Has(b, x)
         /\ DistinctIds(a) /\ DistinctIds(b) /\ (\A x, y : Has(a, x) /\ Has(b, y) => x.id # y.id) => DistinctIds(a \o b)
<1>1. PICK m \in Nat : m = Len(a) /\ DOMAIN a = 1 .. m
  OBVIOUS
<1>2. PICK n \in Nat : n = Len(b) /\ DOMAIN b = 1 .. n
  OBVIOUS
<1>3. PICK l : l = a \o b
  OBVIOUS
<1>4. DOMAIN l = 1 .. m + n /\ (\A k \in 1 .. m : l[k] = a[k]) /\ \A k \in m + 1 .. m + n : l[k] = b[k - m]
  <2>1. l \in Seq(E) /\ Len(l) = m + n /\ \A k \in 1 .. m + n : l[k] = IF k <= m THEN a[k] ELSE b[k - m]
    BY <1>1, <1>2, <1>3, ConcatProperties
  <2> QED BY <2>1
<1>5. \A k \in 1 .. m + n : k \in 1 .. m \/ (k - m \in 1 .. n /\ k \in m + 1 .. m + n)
  OBVIOUS
<1>6. \A k \in 1 .. n : k + m \in m + 1 .. m + n /\ (k + m) - m = k
  OBVIOUS
<1>7. \A x : Has(l, x) <=> Has(a, x) \/ Has(b, x)
  <2>1. ASSUME NEW x, Has(l, x) PROVE Has(a, x) \/ Has(b, x)
    <3>1. PICK k \in 1 .. m + n : l[k] = x
      BY <2>1, <1>4 DEF Has
    <3>2. CASE k \in 1 .. m
      BY <3>1, <3>2, <1>1, <1>4 DEF Has
    <3>3. CASE k \notin 1 .. m
      BY <3>1, <3>3, <1>2, <1>4, <1>5 DEF Has
    <3> QED BY <3>2, <3>3
  <2>2. ASSUME NEW x, Has(a, x) PROVE Has(l, x)
    <3>1. PICK k \in 1 .. m : a[k] = x
      BY <2>2, <1>1 DEF Has
    <3>2. k \in 1 .. m + n /\ l[k] = x
      BY <3>1, <1>4
    <3> QED BY <3>2, <1>4 DEF Has
  <2>3. ASSUME NEW x, Has(b, x) PROVE Has(l, x)
    <3>1. PICK k \in 1 .. n : b[k] = x
      BY <2>3, <1>2 DEF Has
    <3>2. k + m \in 1 .. m + n /\ l[k + m] = x
      BY <3>1, <1>4, <1>6
    <3> QED BY <3>2, <1>4 DEF Has
  <2> QED BY <2>1, <2>2, <2>3
<1>8. ASSUME DistinctIds(a), DistinctIds(b), \A x, y : Has(a, x) /\ Has(b, y) => x.id # y.id,
             NEW j \in 1 .. m + n, NEW k \in 1 .. m + n, l[j].id = l[k].id
      PROVE  j = k
  <2>1. CASE j \in 1 .. m /\ k \in 1 .. m
    BY <2>1, <1>8, <1>1, <1>4 DEF DistinctIds
  <2>2. CASE j \in 1 .. m /\ k \notin 1 .. m
    <3>1. l[j] = a[j] /\ l[k] = b[k - m] /\ k - m \in 1 .. n
      BY <2>2, <1>4, <1>5
    <3> QED BY <3>1, <2>2, <1>8, <1>1, <1>2 DEF Has
  <2>3. CASE j \notin 1 .. m /\ k \in 1 .. m
    <3>1. l[k] = a[k] /\ l[j] = b[j - m] /\ j - m \in 1 .. n
      BY <2>3, <1>4, <1>5
    <3> QED BY <3>1, <2>3, <1>8, <1>1, <1>2 DEF Has
  <2>4. CASE j \notin 1 .. m /\ k \notin 1 .. m
    <3>1. l[k] = b[k - m] /\ l[j] = b[j - m] /\ j - m \in 1 .. n /\ k - m \in 1 .. n
      BY <2>4, <1>4, <1>5
    <3>2. j - m = k - m
      BY <3>1, <1>8, <1>2 DEF DistinctIds
    <3> QED BY <3>2
  <2> QED BY <2>1, <2>2, <2>3, <2>4
<1>9. DistinctIds(a) /\ DistinctIds(b) /\ (\A x, y : Has(a, x) /\ Has(b, y) => x.id # y.id) => DistinctIds(l)
  BY <1>4, <1>8 DEF DistinctIds
<1> QED
  BY <1>3, <1>7, <1>9

\* An order names each id once.
Once(ids) == \A j, k \in DOMAIN ids : ids[j] = ids[k] => j = k

LEMMA KnownOnce ==
  ASSUME NEW E, NEW list \in Seq(E), NEW I, NEW ids \in Seq(I), Once(ids)
  PROVE  Once(Known(list, ids))
<1>1. PICK S \in SUBSET DOMAIN ids : S = {k \in DOMAIN ids : ids[k] \in IdsOf(list)}
  OBVIOUS
<1>2. PICK c \in Nat : c = Cardinality(S)
  BY KeptFacts
<1>3. PICK l : l = Known(list, ids) /\ l = Kept(ids, S)
  BY <1>1 DEF Known
<1>4. /\ DOMAIN l = 1 .. c
      /\ \A k \in 1 .. c : Nth(S, k) \in S /\ l[k] = ids[Nth(S, k)]
      /\ \A j, k \in 1 .. c : j < k => Nth(S, j) < Nth(S, k)
  BY <1>2, <1>3, KeptFacts
<1>5. ASSUME NEW j \in 1 .. c, NEW k \in 1 .. c, l[j] = l[k] PROVE j = k
  <2>1. PICK x \in S : x = Nth(S, j)
    BY <1>4
  <2>2. PICK y \in S : y = Nth(S, k)
    BY <1>4
  <2>3. x = y
    BY <1>4, <1>5, <2>1, <2>2 DEF Once
  <2>4. x \in Nat /\ ~(x < x)
    OBVIOUS
  <2>5. ~(j < k) /\ ~(k < j)
    BY <1>4, <2>1, <2>2, <2>3, <2>4
  <2> QED BY <2>5
<1> QED
  BY <1>3, <1>4, <1>5 DEF Once

LEMMA KnownComplete ==
  ASSUME NEW E, NEW list \in Seq(E), NEW I, NEW ids \in Seq(I)
  PROVE  \A j \in DOMAIN ids : PlacesOf(list, ids[j]) # {} => \E k \in DOMAIN Known(list, ids) : Known(list, ids)[k] = ids[j]
BY ForemostFacts

LEMMA OrderedEntries ==
  ASSUME NEW E, NEW list \in Seq(E), NEW I, NEW ids \in Seq(I), Once(ids)
  PROVE  /\ \A x : Has(Ordered(list, ids), x) => Has(list, x)
         /\ \A x : Has(list, x) => \E y : Has(Ordered(list, ids), y) /\ y.id = x.id
         /\ DistinctIds(list) => DistinctIds(Ordered(list, ids)) /\ \A x : Has(list, x) => Has(Ordered(list, ids), x)
<1>1. PICK named : named = Known(list, ids)
  OBVIOUS
<1>2. PICK front \in Seq(E) : front = Foremost(list, ids)
  BY ForemostFacts
<1>3. PICK S \in SUBSET DOMAIN list : S = {i \in DOMAIN list : list[i].id \notin ToSet(ids)}
  OBVIOUS
<1>4. PICK rest \in Seq(E) : rest = Kept(list, S)
  BY KeptFacts
<1>5. Ordered(list, ids) = front \o rest
  BY <1>2, <1>3, <1>4 DEF Ordered
<1>6. \A x : Has(rest, x) <=> Has(list, x) /\ x.id \notin ToSet(ids)
  <2>1. \A x : Has(rest, x) <=> \E i \in S : list[i] = x
    BY <1>4, KeptEntries
  <2> QED BY <1>3, <2>1 DEF Has
<1>7. /\ DOMAIN front = DOMAIN named
      /\ \A k \in DOMAIN named : /\ \E j \in DOMAIN ids : named[k] = ids[j]
                                 /\ front[k].id = named[k] /\ Has(list, front[k])
      /\ \A j \in DOMAIN ids : PlacesOf(list, ids[j]) # {} => \E k \in DOMAIN named : named[k] = ids[j]
  <2>1. /\ DOMAIN front = DOMAIN named
        /\ \A k \in DOMAIN named : /\ \E j \in DOMAIN ids : named[k] = ids[j]
                                   /\ PlacesOf(list, named[k]) # {} /\ front[k] = LastOf(list, named[k])
        /\ \A j \in DOMAIN ids : PlacesOf(list, ids[j]) # {} => \E k \in DOMAIN named : named[k] = ids[j]
    <3>1. DOMAIN Foremost(list, ids) = DOMAIN Known(list, ids)
      BY ForemostFacts
    <3>2. \A k \in DOMAIN Known(list, ids) : \E j \in DOMAIN ids : Known(list, ids)[k] = ids[j]
      BY ForemostFacts
    <3>3. \A k \in DOMAIN Known(list, ids) : PlacesOf(list, Known(list, ids)[k]) # {}
      BY ForemostFacts
    <3>4. \A k \in DOMAIN Known(list, ids) : Foremost(list, ids)[k] = LastOf(list, Known(list, ids)[k])
      BY ForemostFacts
    <3>5. \A j \in DOMAIN ids : PlacesOf(list, ids[j]) # {} => \E k \in DOMAIN Known(list, ids) : Known(list, ids)[k] = ids[j]
      BY KnownComplete
    <3> QED BY <3>1, <3>2, <3>3, <3>4, <3>5, <1>1, <1>2
  <2>2. ASSUME NEW k \in DOMAIN named PROVE front[k].id = named[k] /\ Has(list, front[k])
    <3>0. PICK id : id = named[k] /\ PlacesOf(list, id) # {}
      BY <2>1, <2>2
    <3>1. PICK i \in DOMAIN list : LastOf(list, id) = list[i] /\ list[i].id = id
      BY <3>0, LastFacts
    <3> QED BY <3>0, <3>1, <2>1, <2>2 DEF Has
  <2> QED BY <2>1, <2>2
<1>8. \A x : Has(front, x) => Has(list, x) /\ x.id \in ToSet(ids)
  BY <1>7 DEF Has, ToSet
<1>9. \A x : Has(list, x) /\ x.id \in ToSet(ids) => \E y : Has(front, y) /\ y.id = x.id
  <2> SUFFICES ASSUME NEW x, Has(list, x), x.id \in ToSet(ids) PROVE \E y : Has(front, y) /\ y.id = x.id
    OBVIOUS
  <2>1. PICK j \in DOMAIN ids : ids[j] = x.id
    BY DEF ToSet
  <2>2. PlacesOf(list, ids[j]) # {}
    BY <2>1 DEF Has, PlacesOf
  <2>3. PICK k \in DOMAIN named : named[k] = x.id
    BY <2>1, <2>2, <1>7
  <2>4. Has(front, front[k]) /\ front[k].id = x.id
    BY <2>3, <1>7 DEF Has
  <2> QED BY <2>4
<1>10. DistinctIds(front)
  <2>1. Once(named)
    BY <1>1, KnownOnce
  <2> QED BY <2>1, <1>7 DEF Once, DistinctIds
<1>11. \A x : Has(front \o rest, x) <=> Has(front, x) \/ Has(rest, x)
  BY ConcatEntries
<1>12. ASSUME DistinctIds(list) PROVE DistinctIds(front \o rest) /\ \A x : Has(list, x) => Has(front \o rest, x)
  <2>1. DistinctIds(rest)
    BY <1>4, <1>12, KeptEntries
  <2>2. \A x, y : Has(front, x) /\ Has(rest, y) => x.id # y.id
    BY <1>6, <1>8
  <2>3. DistinctIds(front \o rest)
    BY <1>10, <2>1, <2>2, ConcatEntries
  <2>4. ASSUME NEW x, Has(list, x), x.id \in ToSet(ids) PROVE Has(front, x)
    <3>1. PICK y : Has(front, y) /\ y.id = x.id
      BY <1>9, <2>4
    <3>2. x = y
      BY <3>1, <2>4, <1>8, <1>12, DistinctFacts
    <3> QED BY <3>1, <3>2
  <2> QED BY <2>3, <2>4, <1>6, <1>11
<1>13. \A x : Has(front \o rest, x) => Has(list, x)
  BY <1>6, <1>8, <1>11
<1>14. \A x : Has(list, x) => \E y : Has(front \o rest, y) /\ y.id = x.id
  BY <1>6, <1>9, <1>11
<1> QED
  BY <1>5, <1>12, <1>13, <1>14

-----------------------------------------------------------------------------
(* What the parser accepts, by what is in the lists.                       *)

GroupKnown(q, g) == g = None \/ \E x : Has(q.group, x) /\ x.id = g

LEMMA ParsesEntries ==
  ASSUME NEW q \in Projects
  PROVE  Parses(q) <=> /\ q.name \in Names
                       /\ \A t \in Types : Len(q[t]) <= Limit[t]
                       /\ \A t \in Types : \A x : Has(q[t], x) => x.shape \in Shapes[t]
                       /\ DistinctIds(q.group) /\ DistinctIds(q.tattoo)
                       /\ \A t \in Types \ {"group"} : \A x : Has(q[t], x) => GroupKnown(q, x.group)
<1>1. \A t \in {"group", "tattoo"} : IdsOf(q[t]) \subseteq Uuids(t)
  <2> SUFFICES ASSUME NEW t \in {"group", "tattoo"}, NEW i \in DOMAIN q[t] PROVE q[t][i].id \in Uuids(t)
    BY DEF IdsOf
  <2>1. t \in Types /\ t # "drawable"
    BY DEF Types
  <2>2. q[t][i] \in Entities(t)
    BY <2>1, ListOfProject
  <2>3. q[t][i].id \in UpsertIds(t)
    BY <2>2 DEF Entities
  <2> QED BY <2>1, <2>3 DEF UpsertIds
<1>2. \A g : g \in IdsOf(q.group) \cup {None} <=> GroupKnown(q, g)
  BY DEF IdsOf, Has, GroupKnown
<1>3. \A t : (\A x : Has(q[t], x) => x.shape \in Shapes[t]) <=> \A i \in DOMAIN q[t] : q[t][i].shape \in Shapes[t]
  BY DEF Has
<1>4. \A t : (\A x : Has(q[t], x) => GroupKnown(q, x.group)) <=>
             \A i \in DOMAIN q[t] : q[t][i].group \in IdsOf(q.group) \cup {None}
  BY <1>2 DEF Has
<1>5. Types \ {"group"} = {"drawable", "tattoo"}
  BY DEF Types
<1>6. /\ (\A t \in Types : \A i \in DOMAIN q[t] : q[t][i].shape \in Shapes[t])
            <=> \A t \in Types : \A x : Has(q[t], x) => x.shape \in Shapes[t]
      /\ (\A t \in {"group", "tattoo"} : DistinctIds(q[t]) /\ IdsOf(q[t]) \subseteq Uuids(t))
            <=> DistinctIds(q.group) /\ DistinctIds(q.tattoo)
      /\ (\A t \in {"drawable", "tattoo"} : \A i \in DOMAIN q[t] : q[t][i].group \in IdsOf(q.group) \cup {None})
            <=> \A t \in Types \ {"group"} : \A x : Has(q[t], x) => GroupKnown(q, x.group)
  <2>1. (\A t \in Types : \A i \in DOMAIN q[t] : q[t][i].shape \in Shapes[t])
            <=> \A t \in Types : \A x : Has(q[t], x) => x.shape \in Shapes[t]
    BY <1>3
  <2>2. (\A t \in {"group", "tattoo"} : DistinctIds(q[t]) /\ IdsOf(q[t]) \subseteq Uuids(t))
            <=> DistinctIds(q.group) /\ DistinctIds(q.tattoo)
    BY <1>1
  <2>3. (\A t \in {"drawable", "tattoo"} : \A i \in DOMAIN q[t] : q[t][i].group \in IdsOf(q.group) \cup {None})
            <=> \A t \in Types \ {"group"} : \A x : Has(q[t], x) => GroupKnown(q, x.group)
    BY <1>4, <1>5
  <2> QED BY <2>1, <2>2, <2>3
<1> QED
  BY <1>6 DEF Parses

LEMMA ReducedLeaf ==
  ASSUME NEW p, NEW op \in LeafOps
  PROVE  Leaves(op) = <<op>> /\ Reduced(p, op) = ApplyLeaf(p, op)
<1>1. Leaves(op) = <<op>>
  BY LeafForms DEF Leaves
<1>2. Len(Leaves(op)) = 1 /\ Leaves(op)[1] = op /\ Leaves(op) \in Seq(LeafOps)
  BY <1>1
<1>3. PICK after : /\ after[0] = p /\ Reduced(p, op) = after[1]
                   /\ \A k \in 1 .. 1 : after[k] = ApplyLeaf(after[k - 1], Leaves(op)[k])
  BY <1>2, ReducedSteps
<1>4. after[1] = ApplyLeaf(after[1 - 1], Leaves(op)[1])
  BY <1>3
<1> QED
  BY <1>1, <1>2, <1>3, <1>4

\* What is accepted is stored.
LEMMA ApplyStored ==
  ASSUME NEW p, Stored(p), NEW op \in Operations
  PROVE  Stored(Apply(p, op))
<1>1. p \in Projects
  BY DEF Stored
<1>2. Reduced(p, op) \in Projects
  BY <1>1, ReducedType
<1>3. CASE Accepts(p, op)
  BY <1>2, <1>3, ParsedStored DEF Accepts, Apply
<1>4. CASE ~Accepts(p, op)
  BY <1>4 DEF Apply
<1> QED
  BY <1>3, <1>4

\* Nothing refers to what a deletion removes.
LEMMA DeletionParses ==
  ASSUME NEW p, Stored(p), NEW t \in Types, NEW id \in Uuids(t), NEW q \in Projects,
         q.name = p.name, q[t] = Dropped(p[t], id),
         \A u \in Types \ {t} : q[u] = IF t = "group" THEN Ungrouped(p[u], id) ELSE p[u]
  PROVE  Parses(q)
<1>1. /\ p \in Projects /\ p.name \in Names
      /\ \A u \in Types : Len(p[u]) <= Limit[u]
      /\ \A u \in Types : \A x : Has(p[u], x) => x.shape \in Shapes[u]
      /\ DistinctIds(p.group) /\ DistinctIds(p.tattoo)
      /\ \A u \in Types \ {"group"} : \A x : Has(p[u], x) => GroupKnown(p, x.group)
  <2>1. p \in Projects /\ Parses(p)
    BY DEF Stored
  <2> QED BY <2>1, ParsesEntries
<1>2. \A u \in Types : p[u] \in Seq(Entities(u))
  BY <1>1, ListOfProject
<1>3. (\A x : Has(q[t], x) <=> Has(p[t], x) /\ x.id # id) /\ (DistinctIds(p[t]) => DistinctIds(q[t]))
  BY <1>2, DroppedEntries
<1>4. "group" \in Types /\ "tattoo" \in Types /\ q["group"] = q.group /\ q["tattoo"] = q.tattoo
  BY DEF Types
<1>7. ASSUME NEW u \in Types PROVE Len(q[u]) <= Limit[u]
  <2>1. p[u] \in Seq(Entities(u)) /\ Len(p[u]) <= Limit[u] /\ Limit[u] \in Nat
    BY <1>1, <1>2, ProjectAssumption
  <2>2. PICK n \in Nat : n = Len(q[u]) /\ n <= Len(p[u])
    <3>1. CASE u = t
      BY <2>1, <3>1, DroppedLength
    <3>2. CASE u # t
      BY <2>1, <3>2, UngroupedFacts
    <3> QED BY <3>1, <3>2
  <2> QED BY <2>1, <2>2
<1>5. CASE t = "group"
  <2>1. ASSUME NEW u \in Types \ {"group"}
        PROVE  /\ \A x : Has(q[u], x) => x.group # id
               /\ \A x : Has(q[u], x) => \E y : Has(p[u], y) /\ x.shape = y.shape /\ (x.group = None \/ x = y)
               /\ DistinctIds(p[u]) => DistinctIds(q[u])
    <3>1. q[u] = Ungrouped(p[u], id) /\ p[u] \in Seq(Entities(u)) /\ u \in Types
      BY <1>2, <1>5
    <3>2. id # None
      BY <1>5, ProjectAssumption DEF Uuids
    <3>3. PICK l : l = Ungrouped(p[u], id) /\ l = q[u]
      BY <3>1
    <3>4. \A x : Has(l, x) => x.group # id
      BY <3>1, <3>2, <3>3, UngroupedEntries
    <3>5. \A x : Has(l, x) => \E y : Has(p[u], y) /\ x.shape = y.shape /\ (x.group = None \/ x = y)
      <4> SUFFICES ASSUME NEW x, Has(Ungrouped(p[u], id), x)
                   PROVE  \E y : Has(p[u], y) /\ x.shape = y.shape /\ (x.group = None \/ x = y)
        BY <3>3
      <4>1. \E y : Has(p[u], y) /\ x.id = y.id /\ x.shape = y.shape /\ (x.group = None \/ x = y)
        BY <3>1, UngroupedOrigin
      <4> QED BY <4>1
    <3>6. DistinctIds(p[u]) => DistinctIds(l)
      BY <3>1, <3>3, UngroupedEntries
    <3> QED BY <3>3, <3>4, <3>5, <3>6
  <2>2. \A u \in Types : \A x : Has(q[u], x) => x.shape \in Shapes[u]
    <3>1. \A x : Has(q["group"], x) => x.shape \in Shapes["group"]
      BY <1>1, <1>3, <1>4, <1>5
    <3>2. \A u \in Types \ {"group"} : \A x : Has(q[u], x) => x.shape \in Shapes[u]
      BY <1>1, <2>1
    <3> QED BY <3>1, <3>2
  <2>3. DistinctIds(q.group) /\ DistinctIds(q.tattoo)
    <3>1. DistinctIds(q.group)
      BY <1>1, <1>3, <1>5
    <3>2. "tattoo" \in Types \ {"group"}
      BY <1>4
    <3> QED BY <3>1, <3>2, <1>1, <2>1
  <2>4. ASSUME NEW u \in Types \ {"group"}, NEW x, Has(q[u], x) PROVE GroupKnown(q, x.group)
    <3>1. PICK y : Has(p[u], y) /\ (x.group = None \/ x = y)
      BY <2>1, <2>4
    <3>2. x.group # id
      BY <2>1, <2>4
    <3>3. CASE x.group = None
      BY <3>3 DEF GroupKnown
    <3>4. CASE x.group # None
      <4>1. PICK g : Has(p.group, g) /\ g.id = x.group
        BY <1>1, <3>1, <3>4 DEF GroupKnown
      <4>2. Has(q.group, g)
        BY <1>3, <1>5, <3>2, <4>1
      <4> QED BY <4>1, <4>2 DEF GroupKnown
    <3> QED BY <3>3, <3>4
  <2> QED BY <1>1, <1>7, <2>2, <2>3, <2>4, ParsesEntries
<1>6. CASE t # "group"
  <2>1. \A u \in Types : \A x : Has(q[u], x) => Has(p[u], x)
    BY <1>3, <1>6
  <2>2. q.group = p.group
    BY <1>4, <1>6
  <2>3. DistinctIds(q.tattoo)
    <3>1. CASE t = "tattoo"
      BY <1>1, <1>3, <3>1
    <3>2. CASE t # "tattoo"
      BY <1>1, <1>4, <1>6, <3>2
    <3> QED BY <3>1, <3>2
  <2>4. \A u \in Types \ {"group"} : \A x : Has(q[u], x) => GroupKnown(q, x.group)
    BY <1>1, <2>1, <2>2 DEF GroupKnown
  <2>5. \A u \in Types : \A x : Has(q[u], x) => x.shape \in Shapes[u]
    BY <1>1, <2>1
  <2> QED BY <1>1, <1>7, <2>2, <2>3, <2>4, <2>5, ParsesEntries
<1> QED
  BY <1>5, <1>6

LEMMA DeletesTakenFact ==
  ASSUME NEW p, Stored(p)
  PROVE  DeletesTaken(p)
<1> SUFFICES ASSUME NEW t \in Types, NEW id \in Uuids(t)
             PROVE  /\ Accepts(p, [kind |-> "entity.delete", type |-> t, id |-> id])
                    /\ id \notin IdsOf(Apply(p, [kind |-> "entity.delete", type |-> t, id |-> id])[t])
  BY DEF DeletesTaken
<1>1. PICK op : op = [kind |-> "entity.delete", type |-> t, id |-> id]
  OBVIOUS
<1>2. op \in LeafOps
  BY <1>1 DEF LeafOps, EntityEdits, EntityOps
<1>3. p \in Projects
  BY DEF Stored
<1>4. PICK q \in Projects : q = ApplyLeaf(p, op) /\ q = Reduced(p, op) /\ Made(p, q, op)
  BY <1>2, <1>3, LeafMakes, ReducedLeaf
<1>5. q.name = p.name /\ q[t] = Dropped(p[t], id)
      /\ \A u \in Types \ {t} : q[u] = IF t = "group" THEN Ungrouped(p[u], id) ELSE p[u]
  BY <1>1, <1>4 DEF Made
<1>6. Parses(q)
  BY <1>5, DeletionParses
<1>7. PICK r : r = Parsed(q) /\ \A u \in Types : /\ DOMAIN r[u] = DOMAIN q[u]
                                                 /\ \A i \in DOMAIN q[u] : r[u][i] = ParsedEntity(u, q[u][i])
  BY ParsedFacts
<1>8. Accepts(p, op) /\ Apply(p, op) = r
  BY <1>4, <1>6, <1>7 DEF Accepts, Apply
<1>9. ASSUME NEW i \in DOMAIN r[t] PROVE r[t][i].id # id
  <2>1. PICK x : x = q[t][i] /\ Has(q[t], x) /\ r[t][i] = ParsedEntity(t, x)
    BY <1>7, <1>9 DEF Has
  <2>2. Has(p[t], x) /\ x.id # id
    BY <1>3, <1>5, <2>1, ListOfProject, DroppedEntries
  <2>3. ParsedEntity(t, x) = x
    BY <2>2, StoredIds DEF Has
  <2> QED BY <2>1, <2>2, <2>3
<1> QED
  BY <1>1, <1>8, <1>9 DEF IdsOf

(* The project of the workspace is always one that was stored.             *)
LEMMA ProjectStored == Spec => []Stored(project)
<1>1. Init => Stored(project)
  BY ExportAssumption DEF Init
<1>2. ASSUME Stored(project), [Next]_vars PROVE Stored(project)'
  <2>1. CASE Edit
    <3>1. PICK op \in Operations : project' = Apply(project, op)
      BY <2>1 DEF Edit
    <3> QED BY <1>2, <3>1, ApplyStored
  <2>2. CASE project' = project
    BY <1>2, <2>2
  <2>3. CASE Build \/ WriteEntry \/ ClosePart \/ Deliver \/ UNCHANGED vars
    BY <2>2, <2>3 DEF Build, WriteEntry, ClosePart, Deliver, vars
  <2> QED BY <1>2, <2>1, <2>3 DEF Next
<1> QED
  BY <1>1, <1>2, PTL DEF Spec

(* No sequence of operations that applyWorkspaceOperation accepts leaves   *)
(* a project from which it would refuse a deletion.                        *)
THEOREM DeletesAcceptedTheorem == Spec => []DeletesAccepted
<1>1. Stored(project) => DeletesAccepted
  BY DeletesTakenFact DEF DeletesAccepted, Stored
<1> QED
  BY <1>1, ProjectStored, PTL

-----------------------------------------------------------------------------
(* An operation applied twice.                                             *)

\* Ids of drawables without blanks are left as they are by the parser.
Unpadded(q) == \A x : Has(q.drawable, x) => x.id \in Drawables \cup Loose
SendsUnpadded(op) == op.kind = "entity.upsert" => op.entity.id \notin {Padded(id) : id \in Drawables}

LEMMA StoredUnpadded ==
  ASSUME NEW p, Stored(p)
  PROVE  Unpadded(p)
BY StoredIds DEF Unpadded, Has

LEMMA UnpaddedParsed ==
  ASSUME NEW q \in Projects, Unpadded(q)
  PROVE  Parsed(q) = q
<1>1. PICK r \in Projects : r = Parsed(q)
  BY ParsedFacts
<1>2. /\ r.name = q.name
      /\ \A t \in Types : /\ DOMAIN r[t] = DOMAIN q[t] /\ Len(r[t]) = Len(q[t])
                          /\ \A i \in DOMAIN q[t] : r[t][i] = ParsedEntity(t, q[t][i])
                          /\ t # "drawable" => r[t] = q[t]
  BY <1>1, ParsedFacts
<1>3. ASSUME NEW t \in Types PROVE r[t] = q[t]
  <2>1. CASE t # "drawable"
    BY <1>2, <2>1
  <2>2. CASE t = "drawable"
    <3>1. ASSUME NEW i \in DOMAIN q[t] PROVE r[t][i] = q[t][i]
      <4>1. PICK x \in Entities(t) : x = q[t][i]
        BY ListOfProject
      <4>2. Trim(x.id) = x.id
        BY <2>2, <4>1, TrimFacts DEF Unpadded, Has
      <4>3. [x EXCEPT !.id = x.id] = x
        BY DEF Entities
      <4>4. ParsedEntity(t, x) = x
        BY <2>2, <4>2, <4>3 DEF ParsedEntity
      <4> QED BY <1>2, <4>1, <4>4
    <3>2. r[t] \in Seq(Entities(t)) /\ q[t] \in Seq(Entities(t))
      BY ListOfProject
    <3>3. DOMAIN r[t] = DOMAIN q[t] /\ Len(r[t]) = Len(q[t])
      BY <1>2
    <3> QED BY <3>1, <3>2, <3>3, SeqEqual
  <2> QED BY <2>1, <2>2
<1>4. r = q
  BY <1>2, <1>3, SameProject
<1> QED
  BY <1>1, <1>4

\* Where what is in a list comes from.
LEMMA MadeEntries ==
  ASSUME NEW p \in Projects, NEW q \in Projects, NEW op \in LeafOps, Made(p, q, op), NEW u \in Types, NEW x, Has(q[u], x)
  PROVE  \/ \E y : Has(p[u], y) /\ y.id = x.id
         \/ op.kind = "entity.upsert" /\ op.type = u /\ op.entity = x
<1>0. p[u] \in Seq(Entities(u))
  BY ListOfProject
<1>1. CASE q[u] = p[u]
  BY <1>1
<1>2. CASE \E id \in Uuids(u) : q[u] = Dropped(p[u], id)
  BY <1>0, <1>2, DroppedEntries
<1>3. CASE \E e \in Entities(u) : op = [kind |-> "entity.upsert", type |-> u, entity |-> e] /\ q[u] = Upserted(p[u], e)
  BY <1>0, <1>3, UpsertedEntries
<1>4. CASE \E id \in Uuids(u) : \E patch \in Patches[u] : q[u] = Patched(p[u], id, patch)
  <2>1. PICK id \in Uuids(u) : \E patch \in Patches[u] : q[u] = Patched(p[u], id, patch)
    BY <1>4
  <2>2. PICK patch \in Patches[u] : q[u] = Patched(p[u], id, patch)
    BY <2>1
  <2>3. DOMAIN q[u] = DOMAIN p[u] /\ \A k \in DOMAIN p[u] : q[u][k].id = p[u][k].id
    BY <1>0, <2>2, PatchedEntries
  <2> QED BY <2>3 DEF Has
<1>5. CASE \E ids \in Seq(Uuids(u)) : Once(ids) /\ q[u] = Ordered(p[u], ids)
  BY <1>0, <1>5, OrderedEntries
<1>6. CASE \E id : q[u] = Ungrouped(p[u], id)
  BY <1>0, <1>6, UngroupedOrigin
<1> QED
  BY <1>1, <1>2, <1>3, <1>4, <1>5, <1>6 DEF Made, Once

LEMMA LeafUnpadded ==
  ASSUME NEW p \in Projects, Unpadded(p), NEW op \in LeafOps, SendsUnpadded(op)
  PROVE  Unpadded(ApplyLeaf(p, op))
<1>1. PICK q \in Projects : q = ApplyLeaf(p, op) /\ Made(p, q, op)
  BY LeafMakes
<1>2. "drawable" \in Types
  BY DEF Types
<1>3. ASSUME NEW x, Has(q.drawable, x) PROVE x.id \in Drawables \cup Loose
  <2>1. CASE \E y : Has(p.drawable, y) /\ y.id = x.id
    BY <2>1 DEF Unpadded
  <2>2. CASE op.kind = "entity.upsert" /\ op.type = "drawable" /\ op.entity = x
    <3>1. x \in Entities("drawable")
      BY <1>2, <1>3, ListOfProject DEF Has
    <3>2. x.id \in UpsertIds("drawable")
      BY <3>1 DEF Entities
    <3> QED BY <2>2, <3>2 DEF SendsUnpadded, UpsertIds
  <2> QED BY <1>1, <1>2, <1>3, <2>1, <2>2, MadeEntries
<1> QED
  BY <1>1, <1>3 DEF Unpadded

LEMMA DroppedNone ==
  ASSUME NEW E, NEW list \in Seq(E), NEW id, \A x : Has(list, x) => x.id # id
  PROVE  Dropped(list, id) = list
<1>1. PlacesOf(list, id) = {}
  BY DEF Has, PlacesOf
<1>2. DOMAIN list \ PlacesOf(list, id) = DOMAIN list
  BY <1>1
<1> QED
  BY <1>2, KeptAll DEF Dropped

LEMMA UngroupedNone ==
  ASSUME NEW t \in Types, NEW list \in Seq(Entities(t)), NEW g, \A x : Has(list, x) => x.group # g
  PROVE  Ungrouped(list, g) = list
<1>1. PICK l \in Seq(Entities(t)) : l = Ungrouped(list, g)
  BY UngroupedFacts
<1>2. Len(l) = Len(list)
  BY <1>1, UngroupedFacts
<1>3. \A i \in DOMAIN list : l[i] = IF list[i].group = g THEN [list[i] EXCEPT !.group = None] ELSE list[i]
  BY <1>1, UngroupedFacts
<1>4. \A i \in DOMAIN list : list[i].group # g
  BY DEF Has
<1>5. \A i \in DOMAIN list : l[i] = list[i]
  BY <1>3, <1>4
<1> QED
  BY <1>1, <1>2, <1>5, SeqEqual

LEMMA SamePlaces ==
  ASSUME NEW l, NEW list, NEW id, DOMAIN l = DOMAIN list, \A k \in DOMAIN list : l[k].id = list[k].id
  PROVE  PlacesOf(l, id) = PlacesOf(list, id) /\ IndexOf(l, id) = IndexOf(list, id)
BY DEF PlacesOf, IndexOf

LEMMA UpsertedTwice ==
  ASSUME NEW E, NEW list \in Seq(E), NEW e \in E
  PROVE  Upserted(Upserted(list, e), e) = Upserted(list, e)
<1>1. PICK l \in Seq(E) : l = Upserted(list, e)
  BY UpsertedType
<1>2. PICK i : i = IndexOf(l, e.id)
  OBVIOUS
<1>3. i \in DOMAIN l /\ l[i] = e
  <2>1. CASE IndexOf(list, e.id) = 0
    <3>1. l = Append(list, e) /\ PlacesOf(list, e.id) = {}
      BY <1>1, <2>1, IndexFacts DEF Upserted
    <3>2. PICK n \in Nat : n = Len(list) /\ DOMAIN list = 1 .. n
      OBVIOUS
    <3>3. DOMAIN l = 1 .. n + 1 /\ l[n + 1] = e /\ \A k \in 1 .. n : l[k] = list[k]
      BY <3>1, <3>2, AppendProperties
    <3>4. PlacesOf(l, e.id) = {n + 1}
      BY <3>1, <3>2, <3>3 DEF PlacesOf
    <3>5. i \in DOMAIN l /\ l[i].id = e.id
      BY <1>2, <3>4, IndexFacts
    <3>6. i = n + 1
      BY <3>4, <3>5 DEF PlacesOf
    <3> QED BY <3>3, <3>6
  <2>2. CASE IndexOf(list, e.id) # 0
    <3>1. PICK j : j = IndexOf(list, e.id)
      OBVIOUS
    <3>2. l = [list EXCEPT ![j] = e] /\ j \in DOMAIN list /\ list[j].id = e.id
      BY <1>1, <2>2, <3>1, IndexFacts DEF Upserted
    <3>3. DOMAIN l = DOMAIN list /\ (\A k \in DOMAIN list : l[k].id = list[k].id) /\ l[j] = e
      BY <3>2
    <3>4. i = j
      BY <1>2, <3>1, <3>3, SamePlaces
    <3> QED BY <3>2, <3>3, <3>4
  <2> QED BY <2>1, <2>2
<1>4. i # 0
  BY <1>3
<1>5. Upserted(l, e) = [l EXCEPT ![i] = e]
  BY <1>2, <1>4 DEF Upserted
<1>6. [l EXCEPT ![i] = e] = l
  BY <1>3
<1> QED
  BY <1>1, <1>5, <1>6

LEMMA PatchedTwice ==
  ASSUME NEW t \in Types, NEW list \in Seq(Entities(t)), NEW id, NEW patch \in Patches[t]
  PROVE  Patched(Patched(list, id, patch), id, patch) = Patched(list, id, patch)
<1>1. PICK l \in Seq(Entities(t)) : l = Patched(list, id, patch)
  BY PatchedType
<1>2. DOMAIN l = DOMAIN list /\ \A k \in DOMAIN list : l[k].id = list[k].id
  BY <1>1, PatchedEntries
<1>3. PICK i : i = IndexOf(list, id) /\ i = IndexOf(l, id)
  BY <1>2, SamePlaces
<1>4. CASE i = 0
  BY <1>1, <1>3, <1>4 DEF Patched
<1>5. CASE i # 0
  <2>1. i \in DOMAIN list
    BY <1>3, <1>5, IndexFacts
  <2>2. l = [list EXCEPT ![i] = MergePatch(list[i], patch)]
    BY <1>1, <1>3, <1>5 DEF Patched
  <2>3. PICK e \in Entities(t) : e = list[i] /\ l[i] = MergePatch(e, patch)
    BY <2>1, <2>2
  <2>4. MergePatch(MergePatch(e, patch), patch) = MergePatch(e, patch)
    BY MergedAgain
  <2>5. Patched(l, id, patch) = [l EXCEPT ![i] = MergePatch(l[i], patch)]
    BY <1>3, <1>5 DEF Patched
  <2>6. i \in DOMAIN l
    BY <1>2, <2>1
  <2> QED BY <1>1, <2>3, <2>4, <2>5, <2>6
<1> QED
  BY <1>4, <1>5

LEMMA NthOfTail ==
  ASSUME NEW m \in Nat, NEW n \in Nat, NEW k \in 1 .. n
  PROVE  Cardinality(m + 1 .. m + n) = n /\ Nth(m + 1 .. m + n, k) = m + k
<1>1. Cardinality(m + 1 .. m + n) = n
  <2>1. m + 1 \in Int /\ m + n \in Int
    OBVIOUS
  <2>2. Cardinality(m + 1 .. m + n) = IF m + 1 > m + n THEN 0 ELSE (m + n) - (m + 1) + 1
    BY <2>1, FS_Interval
  <2> QED BY <2>2
<1>2. PICK S : S = m + 1 .. m + n
  OBVIOUS
<1>3. S \in SUBSET (1 .. m + n) /\ m + n \in Nat /\ Cardinality(S) = n
  BY <1>1, <1>2
<1>4. PICK i \in S : i = Nth(S, k) /\ Cardinality({x \in S : x <= i}) = k
  BY <1>3, NthFacts
<1>5. {x \in S : x <= i} = m + 1 .. i
  BY <1>2, <1>4
<1>6. i \in Nat /\ m + 1 <= i
  BY <1>2, <1>4
<1>7. Cardinality(m + 1 .. i) = i - m
  <2>1. m + 1 \in Int /\ i \in Int
    BY <1>6
  <2>2. Cardinality(m + 1 .. i) = IF m + 1 > i THEN 0 ELSE i - (m + 1) + 1
    BY <2>1, FS_Interval
  <2> QED BY <2>2, <1>6
<1>8. i = m + k
  <2>1. k = i - m
    BY <1>4, <1>5, <1>7
  <2> QED BY <2>1, <1>6
<1> QED
  BY <1>1, <1>2, <1>4, <1>8

LEMMA ConcatFacts ==
  ASSUME NEW E, NEW a \in Seq(E), NEW b \in Seq(E), NEW m \in Nat, m = Len(a), NEW n \in Nat, n = Len(b)
  PROVE  /\ a \o b \in Seq(E) /\ Len(a \o b) = m + n /\ DOMAIN (a \o b) = 1 .. m + n
         /\ \A k \in 1 .. m + n : (a \o b)[k] = IF k <= m THEN a[k] ELSE b[k - m]
<1>1. a \o b \in Seq(E) /\ Len(a \o b) = m + n /\ \A k \in 1 .. m + n : (a \o b)[k] = IF k <= m THEN a[k] ELSE b[k - m]
  BY ConcatProperties
<1>2. DOMAIN (a \o b) = 1 .. m + n
  BY <1>1
<1> QED
  BY <1>1, <1>2

LEMMA KeptTail ==
  ASSUME NEW E, NEW a \in Seq(E), NEW b \in Seq(E)
  PROVE  Kept(a \o b, Len(a) + 1 .. Len(a) + Len(b)) = b
<1>1. PICK m \in Nat : m = Len(a)
  OBVIOUS
<1>2. PICK n \in Nat : n = Len(b) /\ DOMAIN b = 1 .. n
  OBVIOUS
<1>a. PICK l : l = a \o b
  OBVIOUS
<1>3. /\ l \in Seq(E) /\ DOMAIN l = 1 .. m + n
      /\ \A k \in 1 .. m + n : l[k] = IF k <= m THEN a[k] ELSE b[k - m]
  BY <1>a, <1>1, <1>2, ConcatFacts
<1>4. PICK S : S = m + 1 .. m + n
  OBVIOUS
<1>5. S \in SUBSET DOMAIN l
  BY <1>3, <1>4
<1>6. Cardinality(S) = n
  <2>1. m + 1 \in Int /\ m + n \in Int
    OBVIOUS
  <2>2. Cardinality(m + 1 .. m + n) = IF m + 1 > m + n THEN 0 ELSE (m + n) - (m + 1) + 1
    BY <2>1, FS_Interval
  <2> QED BY <2>2, <1>4
<1>7. PICK r : r = Kept(l, S)
  OBVIOUS
<1>8. r \in Seq(E) /\ Len(r) = n
  BY <1>3, <1>5, <1>6, <1>7, KeptFacts
<1>9. ASSUME NEW k \in 1 .. n PROVE r[k] = b[k]
  <2>1. r[k] = l[Nth(S, k)]
    BY <1>3, <1>5, <1>6, <1>7, KeptFacts
  <2>2. Nth(S, k) = m + k
    BY <1>4, NthOfTail
  <2>3. m + k \in 1 .. m + n /\ ~(m + k <= m) /\ (m + k) - m = k
    OBVIOUS
  <2> QED BY <2>1, <2>2, <2>3, <1>3
<1>10. r = b
  BY <1>2, <1>8, <1>9, SeqEqual
<1> QED
  BY <1>a, <1>1, <1>2, <1>4, <1>7, <1>10

LEMMA OrderedTwice ==
  ASSUME NEW E, NEW list \in Seq(E), NEW I, NEW ids \in Seq(I), Once(ids)
  PROVE  Ordered(Ordered(list, ids), ids) = Ordered(list, ids)
<1>1. PICK named \in Seq(I) : named = Known(list, ids)
  BY ForemostFacts
<1>2. PICK front \in Seq(E) : front = Foremost(list, ids) /\ Len(front) = Len(named)
  BY <1>1, ForemostFacts
<1>3. PICK S \in SUBSET DOMAIN list : S = {i \in DOMAIN list : list[i].id \notin ToSet(ids)}
  OBVIOUS
<1>4. PICK rest \in Seq(E) : rest = Kept(list, S)
  BY KeptFacts
<1>5. PICK m \in Nat : m = Len(front) /\ DOMAIN front = 1 .. m /\ DOMAIN named = 1 .. m
  BY <1>2
<1>6. PICK n \in Nat : n = Len(rest) /\ DOMAIN rest = 1 .. n
  OBVIOUS
<1>a. PICK l : l = front \o rest
  OBVIOUS
<1>b. l = Ordered(list, ids)
  BY <1>a, <1>2, <1>3, <1>4 DEF Ordered
<1>7. /\ l \in Seq(E) /\ DOMAIN l = 1 .. m + n
      /\ \A k \in 1 .. m + n : l[k] = IF k <= m THEN front[k] ELSE rest[k - m]
  BY <1>a, <1>5, <1>6, ConcatFacts
<1>9. \A k \in 1 .. n : rest[k].id \notin ToSet(ids)
  <2>1. \A x : Has(rest, x) <=> \E i \in S : list[i] = x
    BY <1>4, KeptEntries
  <2> QED BY <2>1, <1>3, <1>6 DEF Has
<1>10. \A k \in 1 .. m : named[k] \in ToSet(ids) /\ front[k].id = named[k]
  <2>1. \A k \in 1 .. m : /\ \E j \in DOMAIN ids : named[k] = ids[j]
                          /\ PlacesOf(list, named[k]) # {} /\ front[k] = LastOf(list, named[k])
    <3>1. \A k \in DOMAIN Known(list, ids) : \E j \in DOMAIN ids : Known(list, ids)[k] = ids[j]
      BY ForemostFacts
    <3>2. \A k \in DOMAIN Known(list, ids) : PlacesOf(list, Known(list, ids)[k]) # {}
      BY ForemostFacts
    <3>3. \A k \in DOMAIN Known(list, ids) : Foremost(list, ids)[k] = LastOf(list, Known(list, ids)[k])
      BY ForemostFacts
    <3> QED BY <3>1, <3>2, <3>3, <1>1, <1>2, <1>5
  <2>2. ASSUME NEW k \in 1 .. m PROVE front[k].id = named[k]
    <3>0. PICK id : id = named[k] /\ PlacesOf(list, id) # {}
      BY <2>1
    <3>1. PICK i \in DOMAIN list : LastOf(list, id) = list[i] /\ list[i].id = id
      BY <3>0, LastFacts
    <3> QED BY <3>0, <3>1, <2>1
  <2> QED BY <2>1, <2>2 DEF ToSet
<1>11. \A k \in 1 .. m + n : /\ k <= m => l[k].id = named[k] /\ l[k].id \in ToSet(ids) /\ k \in 1 .. m
                             /\ ~(k <= m) => l[k].id \notin ToSet(ids)
  <2> SUFFICES ASSUME NEW k \in 1 .. m + n
               PROVE  /\ k <= m => l[k].id = named[k] /\ l[k].id \in ToSet(ids) /\ k \in 1 .. m
                      /\ ~(k <= m) => l[k].id \notin ToSet(ids)
    OBVIOUS
  <2>1. CASE k <= m
    BY <2>1, <1>7, <1>10
  <2>2. CASE ~(k <= m)
    <3>1. k - m \in 1 .. n
      BY <2>2
    <3> QED BY <3>1, <2>2, <1>7, <1>9
  <2> QED BY <2>1, <2>2
<1>12. Known(l, ids) = named
  <2>1. ASSUME NEW j \in DOMAIN ids PROVE ids[j] \in IdsOf(l) <=> ids[j] \in IdsOf(list)
    <3>1. ids[j] \in IdsOf(l) => ids[j] \in IdsOf(list)
      BY <1>b, IdsFacts, OrderedEntries
    <3>2. ids[j] \in IdsOf(list) => ids[j] \in IdsOf(l)
      BY <1>b, IdsFacts, OrderedEntries
    <3> QED BY <3>1, <3>2
  <2>2. {k \in DOMAIN ids : ids[k] \in IdsOf(l)} = {k \in DOMAIN ids : ids[k] \in IdsOf(list)}
    BY <2>1
  <2> QED BY <1>1, <2>2 DEF Known
<1>13. Foremost(l, ids) = front
  <2>1. PICK f \in Seq(E) : f = Foremost(l, ids)
    BY <1>7, ForemostFacts
  <2>2. Len(f) = m
    <3>1. Len(Foremost(l, ids)) = Len(Known(l, ids))
      BY <1>7, ForemostFacts
    <3> QED BY <2>1, <3>1, <1>2, <1>5, <1>12
  <2>3. \A k \in 1 .. m : f[k] = LastOf(l, named[k])
    <3>1. \A k \in DOMAIN Known(l, ids) : Foremost(l, ids)[k] = LastOf(l, Known(l, ids)[k])
      BY <1>7, ForemostFacts
    <3> QED BY <2>1, <3>1, <1>5, <1>12
  <2>4. Once(named)
    BY <1>1, KnownOnce
  <2>5. ASSUME NEW k \in 1 .. m PROVE LastOf(l, named[k]) = front[k]
    <3>1. PICK id : id = named[k] /\ id \in ToSet(ids)
      BY <1>10
    <3>2. k \in 1 .. m + n /\ k <= m
      OBVIOUS
    <3>3. l[k].id = id /\ l[k] = front[k]
      BY <3>1, <3>2, <1>7, <1>11
    <3>4. PlacesOf(l, id) # {} /\ l \in Seq(E)
      BY <3>2, <3>3, <1>7 DEF PlacesOf
    <3>5. PICK i \in DOMAIN l : LastOf(l, id) = l[i] /\ l[i].id = id
      BY <3>4, LastFacts
    <3>6. i <= m /\ i \in 1 .. m /\ named[i] = named[k]
      BY <3>1, <3>5, <1>7, <1>11
    <3>7. i = k
      BY <3>6, <2>4, <1>5 DEF Once
    <3> QED BY <3>1, <3>3, <3>5, <3>7
  <2> QED BY <2>1, <2>2, <2>3, <2>5, <1>5, SeqEqual
<1>14. Kept(l, {i \in DOMAIN l : l[i].id \notin ToSet(ids)}) = rest
  <2>1. {i \in DOMAIN l : l[i].id \notin ToSet(ids)} = m + 1 .. m + n
    <3>1. \A i \in 1 .. m + n : ~(i <= m) <=> i \in m + 1 .. m + n
      OBVIOUS
    <3>2. \A i \in m + 1 .. m + n : i \in 1 .. m + n
      OBVIOUS
    <3>3. \A i \in 1 .. m + n : l[i].id \notin ToSet(ids) <=> ~(i <= m)
      BY <1>11
    <3> QED BY <3>1, <3>2, <3>3, <1>7
  <2>2. Kept(l, m + 1 .. m + n) = rest
    BY <1>a, <1>5, <1>6, KeptTail
  <2> QED BY <2>1, <2>2
<1>15. Ordered(l, ids) = front \o rest
  BY <1>13, <1>14 DEF Ordered
<1> QED
  BY <1>a, <1>b, <1>15

LEMMA LeafTwice ==
  ASSUME NEW p \in Projects, NEW op \in LeafOps
  PROVE  ApplyLeaf(ApplyLeaf(p, op), op) = ApplyLeaf(p, op)
<1>1. PICK q \in Projects : q = ApplyLeaf(p, op) /\ Made(p, q, op)
  BY LeafMakes
<1>2. PICK r \in Projects : r = ApplyLeaf(q, op) /\ Made(q, r, op)
  BY LeafMakes
<1>3. CASE \E n \in Names \cup BadNames : op = [kind |-> "project.patch", name |-> n]
  <2>0. PICK n \in Names \cup BadNames : op = [kind |-> "project.patch", name |-> n]
    BY <1>3
  <2>a. q.name = n /\ \A u \in Types : q[u] = p[u]
    BY <1>1, <2>0 DEF Made
  <2>b. r.name = n /\ \A u \in Types : r[u] = q[u]
    BY <1>2, <2>0 DEF Made
  <2>1. q.name = r.name
    BY <2>a, <2>b
  <2>2. \A u \in Types : q[u] = r[u]
    BY <2>b
  <2> QED BY <1>1, <1>2, <2>1, <2>2, SameProject
<1>4. CASE \E t \in Types : \E id \in Uuids(t) : op = [kind |-> "entity.delete", type |-> t, id |-> id]
  <2>0. PICK t \in Types : \E id \in Uuids(t) : op = [kind |-> "entity.delete", type |-> t, id |-> id]
    BY <1>4
  <2>1. PICK id \in Uuids(t) : op = [kind |-> "entity.delete", type |-> t, id |-> id]
    BY <2>0
  <2>2. q.name = p.name /\ q[t] = Dropped(p[t], id)
        /\ \A u \in Types \ {t} : q[u] = IF t = "group" THEN Ungrouped(p[u], id) ELSE p[u]
    BY <1>1, <2>1 DEF Made
  <2>3. r.name = q.name /\ r[t] = Dropped(q[t], id)
        /\ \A u \in Types \ {t} : r[u] = IF t = "group" THEN Ungrouped(q[u], id) ELSE q[u]
    BY <1>2, <2>1 DEF Made
  <2>4. r[t] = q[t]
    <3>1. p[t] \in Seq(Entities(t)) /\ q[t] \in Seq(Entities(t))
      BY ListOfProject
    <3>2. \A x : Has(q[t], x) => x.id # id
      BY <2>2, <3>1, DroppedEntries
    <3> QED BY <2>3, <3>1, <3>2, DroppedNone
  <2>5. ASSUME NEW u \in Types \ {t} PROVE r[u] = q[u]
    <3>1. CASE t = "group"
      <4>1. p[u] \in Seq(Entities(u)) /\ q[u] \in Seq(Entities(u)) /\ q[u] = Ungrouped(p[u], id) /\ u \in Types
        BY <2>2, <3>1, ListOfProject
      <4>2. id # None
        BY <3>1, ProjectAssumption DEF Uuids
      <4>3. \A x : Has(Ungrouped(p[u], id), x) => x.group # id
        BY <4>1, <4>2, UngroupedEntries
      <4>4. Ungrouped(q[u], id) = q[u]
        BY <4>1, <4>3, UngroupedNone
      <4> QED BY <2>3, <3>1, <4>4
    <3>2. CASE t # "group"
      BY <2>3, <3>2
    <3> QED BY <3>1, <3>2
  <2>6. \A u \in Types : q[u] = r[u]
    BY <2>4, <2>5
  <2> QED BY <1>1, <1>2, <2>3, <2>6, SameProject
<1>5. CASE \E t \in Types : \E e \in Entities(t) : op = [kind |-> "entity.upsert", type |-> t, entity |-> e]
  <2>0. PICK t \in Types : \E e \in Entities(t) : op = [kind |-> "entity.upsert", type |-> t, entity |-> e]
    BY <1>5
  <2>1. PICK e \in Entities(t) : op = [kind |-> "entity.upsert", type |-> t, entity |-> e]
    BY <2>0
  <2>2. q[t] = Upserted(p[t], e)
    BY <1>1, <2>1 DEF Made
  <2>3. r.name = q.name /\ r[t] = Upserted(q[t], e) /\ \A u \in Types \ {t} : r[u] = q[u]
    BY <1>2, <2>1 DEF Made
  <2>4. r[t] = q[t]
    BY <2>2, <2>3, ListOfProject, UpsertedTwice
  <2>5. \A u \in Types : q[u] = r[u]
    BY <2>3, <2>4
  <2> QED BY <1>1, <1>2, <2>3, <2>5, SameProject
<1>6. CASE \E t \in Types : \E id \in Uuids(t) : \E patch \in Patches[t] :
              op = [kind |-> "entity.patch", type |-> t, id |-> id, patch |-> patch]
  <2>a. PICK t \in Types : \E id \in Uuids(t) : \E patch \in Patches[t] :
              op = [kind |-> "entity.patch", type |-> t, id |-> id, patch |-> patch]
    BY <1>6
  <2>b. PICK id \in Uuids(t) : \E patch \in Patches[t] :
              op = [kind |-> "entity.patch", type |-> t, id |-> id, patch |-> patch]
    BY <2>a
  <2>1. PICK patch \in Patches[t] : op = [kind |-> "entity.patch", type |-> t, id |-> id, patch |-> patch]
    BY <2>b
  <2>2. q[t] = Patched(p[t], id, patch)
    BY <1>1, <2>1 DEF Made
  <2>3. r.name = q.name /\ r[t] = Patched(q[t], id, patch) /\ \A u \in Types \ {t} : r[u] = q[u]
    BY <1>2, <2>1 DEF Made
  <2>4. r[t] = q[t]
    BY <2>2, <2>3, ListOfProject, PatchedTwice
  <2>5. \A u \in Types : q[u] = r[u]
    BY <2>3, <2>4
  <2> QED BY <1>1, <1>2, <2>3, <2>5, SameProject
<1>7. CASE \E t \in {"drawable", "tattoo"} : \E ids \in Seq(Uuids(t)) :
              /\ op = [kind |-> "order.set", type |-> t, ids |-> ids]
              /\ \A j, k \in DOMAIN ids : ids[j] = ids[k] => j = k
  <2>0. PICK t \in {"drawable", "tattoo"} : \E ids \in Seq(Uuids(t)) :
              /\ op = [kind |-> "order.set", type |-> t, ids |-> ids]
              /\ \A j, k \in DOMAIN ids : ids[j] = ids[k] => j = k
    BY <1>7
  <2>1. PICK ids \in Seq(Uuids(t)) : op = [kind |-> "order.set", type |-> t, ids |-> ids] /\ Once(ids)
    BY <2>0 DEF Once
  <2>a. t \in Types
    BY DEF Types
  <2>2. q[t] = Ordered(p[t], ids)
    BY <1>1, <2>1 DEF Made
  <2>3. r.name = q.name /\ r[t] = Ordered(q[t], ids) /\ \A u \in Types \ {t} : r[u] = q[u]
    BY <1>2, <2>1 DEF Made
  <2>4. r[t] = q[t]
    BY <2>a, <2>1, <2>2, <2>3, ListOfProject, OrderedTwice
  <2>5. \A u \in Types : q[u] = r[u]
    BY <2>3, <2>4
  <2> QED BY <1>1, <1>2, <2>3, <2>5, SameProject
<1> QED
  BY <1>3, <1>4, <1>5, <1>6, <1>7, LeafForms

LEMMA SendsPaddedLeaf ==
  ASSUME NEW op \in LeafOps
  PROVE  ~SendsPadded(op) <=> SendsUnpadded(op)
<1>1. Leaves(op) = <<op>>
  BY ReducedLeaf
<1>2. DOMAIN Leaves(op) = {1} /\ Leaves(op)[1] = op
  BY <1>1
<1>3. Edits(op) = {i \in {1} : op.kind \in {"entity.patch", "entity.delete", "entity.upsert"}}
  BY <1>2 DEF Edits
<1> QED
  BY <1>2, <1>3 DEF SendsPadded, SendsUnpadded

LEMMA AppliedTwiceFact ==
  ASSUME NEW p, Stored(p)
  PROVE  AppliedTwice(p)
<1> SUFFICES ASSUME NEW op \in LeafOps, Accepts(p, op), ~SendsPadded(op)
             PROVE  Accepts(Apply(p, op), op) /\ Apply(Apply(p, op), op) = Apply(p, op)
  BY DEF AppliedTwice
<1>1. p \in Projects /\ Unpadded(p)
  BY StoredUnpadded DEF Stored
<1>2. PICK q \in Projects : q = ApplyLeaf(p, op) /\ q = Reduced(p, op)
  BY <1>1, LeafMakes, ReducedLeaf
<1>3. Parses(q)
  BY <1>2 DEF Accepts
<1>4. Unpadded(q)
  BY <1>1, <1>2, LeafUnpadded, SendsPaddedLeaf
<1>5. Parsed(q) = q
  BY <1>4, UnpaddedParsed
<1>6. Apply(p, op) = q
  BY <1>2, <1>5 DEF Apply
<1>7. Reduced(q, op) = q
  BY <1>1, <1>2, LeafTwice, ReducedLeaf
<1>8. Accepts(q, op) /\ Apply(q, op) = q
  BY <1>3, <1>5, <1>7 DEF Accepts, Apply
<1> QED
  BY <1>6, <1>8

(* A single operation that applyWorkspaceOperation applies once more, on   *)
(* its own result, is accepted and changes nothing.                        *)
THEOREM RetriesHarmlessTheorem == Spec => []RetriesHarmless
<1>1. Stored(project) => RetriesHarmless
  BY AppliedTwiceFact DEF RetriesHarmless
<1> QED
  BY <1>1, ProjectStored, PTL

-----------------------------------------------------------------------------
(* What an operation does not touch.                                       *)

\* An entity once the groups G are deleted.
Plain(x, G) == IF x.group \in G THEN [x EXCEPT !.group = None] ELSE x

\* What l has of an id, up to those groups, l2 has.
Within(l, l2, id, G) ==
    \A x : Has(l, x) /\ x.id = id => \E y : Has(l2, y) /\ y.id = id /\ Plain(y, G) = Plain(x, G)

LEMMA PlainId ==
  ASSUME NEW t \in Types, NEW x \in Entities(t), NEW G
  PROVE  Plain(x, G).id = x.id
BY DEF Plain, Entities

LEMMA WithinSame ==
  ASSUME NEW l, NEW l2, NEW id, NEW G, \A x : Has(l, x) /\ x.id = id => Has(l2, x)
  PROVE  Within(l, l2, id, G)
BY DEF Within

LEMMA WithinTransitive ==
  ASSUME NEW l, NEW l2, NEW l3, NEW id, NEW G, Within(l, l2, id, G), Within(l2, l3, id, G)
  PROVE  Within(l, l3, id, G)
BY DEF Within

LEMMA UngroupedWithin ==
  ASSUME NEW t \in Types, NEW list \in Seq(Entities(t)), NEW G, NEW g \in G, NEW id
  PROVE  Within(list, Ungrouped(list, g), id, G) /\ Within(Ungrouped(list, g), list, id, G)
<1>1. PICK l : l = Ungrouped(list, g)
  OBVIOUS
<1>2. DOMAIN l = DOMAIN list
      /\ \A i \in DOMAIN list : l[i] = IF list[i].group = g THEN [list[i] EXCEPT !.group = None] ELSE list[i]
  BY <1>1, UngroupedFacts
<1>3. ASSUME NEW i \in DOMAIN list PROVE l[i].id = list[i].id /\ Plain(l[i], G) = Plain(list[i], G)
  <2>1. PICK x \in Entities(t) : x = list[i]
    OBVIOUS
  <2>2. CASE x.group = g
    <3>1. PICK y : y = [x EXCEPT !.group = None]
      OBVIOUS
    <3>2. y.group = None /\ y.id = x.id /\ [y EXCEPT !.group = None] = y
      BY <3>1 DEF Entities
    <3>3. Plain(x, G) = y
      BY <2>2, <3>1 DEF Plain
    <3>4. Plain(y, G) = y
      BY <3>2 DEF Plain
    <3>5. l[i] = y
      BY <1>2, <2>1, <2>2, <3>1
    <3> QED BY <2>1, <3>2, <3>3, <3>4, <3>5
  <2>3. CASE x.group # g
    BY <1>2, <2>1, <2>3
  <2> QED BY <2>2, <2>3
<1>4. Within(list, l, id, G)
  BY <1>2, <1>3 DEF Within, Has
<1>5. Within(l, list, id, G)
  BY <1>2, <1>3 DEF Within, Has
<1> QED
  BY <1>1, <1>4, <1>5

IsEdit(op) == op.kind \in {"entity.patch", "entity.delete", "entity.upsert"}

LEMMA LeafOthers ==
  ASSUME NEW p \in Projects, NEW q \in Projects, NEW op \in LeafOps, Made(p, q, op), NEW t \in Types, DistinctIds(p[t]),
         NEW G, op.kind = "entity.delete" /\ op.type = "group" => op.id \in G,
         NEW id, IsEdit(op) => IdOf(op) # id
  PROVE  DistinctIds(q[t]) /\ Within(p[t], q[t], id, G) /\ Within(q[t], p[t], id, G)
<1>0. p[t] \in Seq(Entities(t))
  BY ListOfProject
<1>1. CASE q[t] = p[t]
  BY <1>1, WithinSame
<1>2. CASE \E i \in Uuids(t) : op = [kind |-> "entity.delete", type |-> t, id |-> i] /\ q[t] = Dropped(p[t], i)
  <2>1. PICK i \in Uuids(t) : op = [kind |-> "entity.delete", type |-> t, id |-> i] /\ q[t] = Dropped(p[t], i)
    BY <1>2
  <2>2. i # id
    BY <2>1 DEF IsEdit, IdOf
  <2>3. (\A x : Has(q[t], x) <=> Has(p[t], x) /\ x.id # i) /\ DistinctIds(q[t])
    BY <1>0, <2>1, DroppedEntries
  <2> QED BY <2>2, <2>3, WithinSame
<1>3. CASE \E e \in Entities(t) : op = [kind |-> "entity.upsert", type |-> t, entity |-> e] /\ q[t] = Upserted(p[t], e)
  <2>1. PICK e \in Entities(t) : op = [kind |-> "entity.upsert", type |-> t, entity |-> e] /\ q[t] = Upserted(p[t], e)
    BY <1>3
  <2>2. e.id # id
    BY <2>1 DEF IsEdit, IdOf
  <2>3. /\ \A x : Has(q[t], x) => x = e \/ Has(p[t], x)
        /\ \A x : Has(p[t], x) /\ x.id # e.id => Has(q[t], x)
        /\ DistinctIds(q[t])
    BY <1>0, <2>1, UpsertedEntries
  <2> QED BY <2>2, <2>3, WithinSame
<1>4. CASE \E i \in Uuids(t) : \E patch \in Patches[t] :
              op = [kind |-> "entity.patch", type |-> t, id |-> i, patch |-> patch] /\ q[t] = Patched(p[t], i, patch)
  <2>0. PICK i \in Uuids(t) : \E patch \in Patches[t] :
              op = [kind |-> "entity.patch", type |-> t, id |-> i, patch |-> patch] /\ q[t] = Patched(p[t], i, patch)
    BY <1>4
  <2>1. PICK patch \in Patches[t] :
              op = [kind |-> "entity.patch", type |-> t, id |-> i, patch |-> patch] /\ q[t] = Patched(p[t], i, patch)
    BY <2>0
  <2>2. i # id
    BY <2>1 DEF IsEdit, IdOf
  <2>3. \A x : Has(p[t], x) /\ x.id # i => Has(q[t], x)
    BY <1>0, <2>1, PatchedEntries
  <2>4. DistinctIds(q[t])
    BY <1>0, <2>1, PatchedEntries
  <2>5. ASSUME NEW x, Has(q[t], x), x.id = id PROVE Has(p[t], x)
    <3>1. \/ Has(p[t], x)
          \/ PlacesOf(p[t], i) # {} /\ x = MergePatch(p[t][IndexOf(p[t], i)], patch)
      BY <1>0, <2>1, <2>5, PatchedEntries
    <3>2. CASE PlacesOf(p[t], i) # {} /\ x = MergePatch(p[t][IndexOf(p[t], i)], patch)
      <4>1. PICK y : y = p[t][IndexOf(p[t], i)] /\ y \in Entities(t) /\ y.id = i
        BY <1>0, <3>2, IndexFacts
      <4>2. x.id = i
        BY <3>2, <4>1, MergedType
      <4> QED BY <2>2, <2>5, <4>2
    <3> QED BY <3>1, <3>2
  <2> QED BY <2>2, <2>3, <2>4, <2>5, WithinSame
<1>5. CASE \E ids \in Seq(Uuids(t)) : Once(ids) /\ q[t] = Ordered(p[t], ids)
  <2>1. PICK ids \in Seq(Uuids(t)) : Once(ids) /\ q[t] = Ordered(p[t], ids)
    BY <1>5
  <2>2. \A x : Has(q[t], x) => Has(p[t], x)
    BY <1>0, <2>1, OrderedEntries
  <2>3. DistinctIds(q[t]) /\ \A x : Has(p[t], x) => Has(q[t], x)
    BY <1>0, <2>1, OrderedEntries
  <2> QED BY <2>2, <2>3, WithinSame
<1>6. CASE \E g \in G : q[t] = Ungrouped(p[t], g)
  <2>1. PICK g \in G : q[t] = Ungrouped(p[t], g)
    BY <1>6
  <2>2. DistinctIds(q[t])
    BY <1>0, <2>1, UngroupedEntries
  <2> QED BY <1>0, <2>1, <2>2, UngroupedWithin
<1>7. CASE op.kind = "project.patch" \/ op.type # t
  <2>1. CASE op.kind = "entity.delete" /\ op.type = "group"
    <3>1. \E g : op.id = g /\ q[t] = Ungrouped(p[t], g)
      BY <1>7, <2>1 DEF Made
    <3> QED BY <2>1, <3>1, <1>6
  <2>2. CASE ~(op.kind = "entity.delete" /\ op.type = "group")
    <3>1. q[t] = p[t]
      BY <1>7, <2>2 DEF Made
    <3> QED BY <3>1, <1>1
  <2> QED BY <2>1, <2>2
<1>8. CASE op.kind # "project.patch" /\ op.type = t
  BY <1>2, <1>3, <1>4, <1>5, <1>8 DEF Made, Once
<1> QED
  BY <1>7, <1>8

LEMMA SendsPaddedLeaves ==
  ASSUME NEW op, Leaves(op) \in Seq(LeafOps), ~SendsPadded(op), NEW k \in DOMAIN Leaves(op)
  PROVE  /\ SendsUnpadded(Leaves(op)[k])
         /\ IsEdit(Leaves(op)[k]) => IdOf(Leaves(op)[k]) \in Touched(op)
         /\ Leaves(op)[k].kind = "entity.delete" /\ Leaves(op)[k].type = "group" => Leaves(op)[k].id \in GroupsDeleted(op)
<1>1. k \in Edits(op) <=> IsEdit(Leaves(op)[k])
  BY DEF Edits, IsEdit
<1>2. SendsUnpadded(Leaves(op)[k])
  <2>1. CASE Leaves(op)[k].kind = "entity.upsert"
    <3>1. k \in Edits(op)
      BY <1>1, <2>1 DEF IsEdit
    <3> QED BY <2>1, <3>1 DEF SendsPadded, SendsUnpadded
  <2>2. CASE Leaves(op)[k].kind # "entity.upsert"
    BY <2>2 DEF SendsUnpadded
  <2> QED BY <2>1, <2>2
<1>3. IsEdit(Leaves(op)[k]) => IdOf(Leaves(op)[k]) \in Touched(op)
  BY <1>1 DEF Touched
<1>4. ASSUME Leaves(op)[k].kind = "entity.delete", Leaves(op)[k].type = "group"
      PROVE  Leaves(op)[k].id \in GroupsDeleted(op)
  <2>1. k \in Edits(op)
    BY <1>1, <1>4 DEF IsEdit
  <2>2. IdOf(Leaves(op)[k]) = Leaves(op)[k].id
    BY <1>4 DEF IdOf
  <2>3. IdOf(Leaves(op)[k]) \in GroupsDeleted(op)
    BY <1>4, <2>1 DEF GroupsDeleted
  <2> QED BY <2>2, <2>3
<1> QED
  BY <1>2, <1>3, <1>4

LEMMA ReducedOthers ==
  ASSUME NEW p \in Projects, Unpadded(p), NEW op \in Operations, ~SendsPadded(op), NEW t \in Types, DistinctIds(p[t]),
         NEW id, id \notin Touched(op)
  PROVE  LET G == GroupsDeleted(op)
         IN /\ Unpadded(Reduced(p, op)) /\ DistinctIds(Reduced(p, op)[t])
            /\ Within(p[t], Reduced(p, op)[t], id, G) /\ Within(Reduced(p, op)[t], p[t], id, G)
<1>0. PICK G : G = GroupsDeleted(op)
  OBVIOUS
<1>1. Leaves(op) \in Seq(LeafOps)
  BY ReducedType
<1>2. PICK after : /\ after[0] = p /\ Reduced(p, op) = after[Len(Leaves(op))]
                   /\ \A k \in 1 .. Len(Leaves(op)) : after[k] = ApplyLeaf(after[k - 1], Leaves(op)[k])
  BY <1>1, ReducedSteps
<1>3. PICK n \in Nat : n = Len(Leaves(op)) /\ DOMAIN Leaves(op) = 1 .. n /\ \A k \in 1 .. n : Leaves(op)[k] \in LeafOps
  BY <1>1
<1> DEFINE Good(r) == /\ r \in Projects /\ Unpadded(r) /\ DistinctIds(r[t])
                      /\ Within(p[t], r[t], id, G) /\ Within(r[t], p[t], id, G)
           S == {m \in Nat : m <= n => Good(after[m])}
<1>4. Good(p)
  BY WithinSame
<1>5. ASSUME NEW r, Good(r), NEW k \in 1 .. n PROVE Good(ApplyLeaf(r, Leaves(op)[k]))
  <2>1. PICK leaf \in LeafOps : leaf = Leaves(op)[k]
    BY <1>3
  <2>2. /\ SendsUnpadded(leaf)
        /\ IsEdit(leaf) => IdOf(leaf) # id
        /\ leaf.kind = "entity.delete" /\ leaf.type = "group" => leaf.id \in G
    BY <1>0, <1>1, <1>3, <2>1, SendsPaddedLeaves
  <2>3. r \in Projects /\ Unpadded(r) /\ DistinctIds(r[t]) /\ Within(p[t], r[t], id, G) /\ Within(r[t], p[t], id, G)
    BY <1>5
  <2>4. PICK q \in Projects : q = ApplyLeaf(r, leaf) /\ Made(r, q, leaf)
    BY <2>3, LeafMakes
  <2>5. Unpadded(q)
    BY <2>2, <2>3, <2>4, LeafUnpadded
  <2>6. DistinctIds(q[t]) /\ Within(r[t], q[t], id, G) /\ Within(q[t], r[t], id, G)
    BY <2>2, <2>3, <2>4, LeafOthers
  <2>7. Within(p[t], q[t], id, G) /\ Within(q[t], p[t], id, G)
    BY <2>3, <2>6, WithinTransitive
  <2> QED BY <2>1, <2>4, <2>5, <2>6, <2>7
<1>6. 0 \in S
  BY <1>2, <1>4
<1>7. ASSUME NEW m \in S PROVE m + 1 \in S
  <2> SUFFICES ASSUME m + 1 <= n PROVE Good(after[m + 1])
    OBVIOUS
  <2>1. m \in Nat /\ m <= n /\ m + 1 \in 1 .. n /\ (m + 1) - 1 = m
    OBVIOUS
  <2>2. after[m + 1] = ApplyLeaf(after[m], Leaves(op)[m + 1])
    BY <1>2, <1>3, <2>1
  <2>3. Good(after[m])
    BY <2>1
  <2> HIDE DEF Good
  <2> QED BY <1>5, <2>1, <2>2, <2>3
<1>8. S = Nat
  <2>1. S \in SUBSET Nat
    OBVIOUS
  <2> HIDE DEF S
  <2> QED BY <1>6, <1>7, <2>1, UpFromZero
<1>9. Good(after[n])
  <2> HIDE DEF Good
  <2> QED BY <1>8
<1> QED
  BY <1>0, <1>2, <1>3, <1>9

\* What is in a list without two entities of one id is seen once or not at all.
LEMMA SeenOnce ==
  ASSUME NEW t \in Types, NEW l \in Seq(Entities(t)), NEW l2 \in Seq(Entities(t)), DistinctIds(l), DistinctIds(l2),
         NEW op, NEW e \in Entities(t), Within(l, l2, e.id, GroupsDeleted(op)), Within(l2, l, e.id, GroupsDeleted(op))
  PROVE  Seen(l, op, e) = Seen(l2, op, e)
<1>1. PICK G : G = GroupsDeleted(op)
  OBVIOUS
<1> DEFINE at(list) == {i \in DOMAIN list : Plain(list[i], G) = Plain(e, G)}
<1>2. Seen(l, op, e) = Cardinality(at(l)) /\ Seen(l2, op, e) = Cardinality(at(l2))
  BY <1>1 DEF Seen, Plain
<1>3. ASSUME NEW list \in Seq(Entities(t)), DistinctIds(list), NEW list2 \in Seq(Entities(t)),
             Within(list, list2, e.id, G), NEW i \in at(list)
      PROVE  at(list) = {i} /\ at(list2) # {}
  <2>1. \A x \in Entities(t) : Plain(x, G) = Plain(e, G) => x.id = e.id
    BY PlainId
  <2>2. \A j \in DOMAIN list : list[j] \in Entities(t)
    OBVIOUS
  <2>3. \A j \in at(list) : list[j].id = e.id
    BY <2>1, <2>2
  <2>4. at(list) = {i}
    BY <1>3, <2>3 DEF DistinctIds
  <2>5. Has(list, list[i]) /\ list[i].id = e.id /\ Plain(list[i], G) = Plain(e, G)
    BY <2>3 DEF Has
  <2>6. PICK y : Has(list2, y) /\ Plain(y, G) = Plain(list[i], G)
    BY <1>3, <2>5 DEF Within
  <2>7. at(list2) # {}
    BY <2>5, <2>6 DEF Has
  <2> QED BY <2>4, <2>7
<1>4. CASE at(l) = {} /\ at(l2) = {}
  BY <1>2, <1>4
<1>5. CASE at(l) # {} \/ at(l2) # {}
  <2> HIDE DEF at
  <2>1. at(l) # {} /\ at(l2) # {}
    BY <1>1, <1>3, <1>5
  <2>2. (\E i : at(l) = {i}) /\ \E i : at(l2) = {i}
    BY <1>1, <1>3, <2>1
  <2>3. Cardinality(at(l)) = 1 /\ Cardinality(at(l2)) = 1
    BY <2>2, FS_Singleton
  <2> QED BY <1>2, <2>3
<1> QED
  BY <1>4, <1>5

LEMMA OthersKeptFact ==
  ASSUME NEW p, Stored(p)
  PROVE  OthersKept(p)
<1> SUFFICES ASSUME NEW op \in Operations, NEW t \in Types, DistinctIds(p[t]), ~SendsPadded(op),
                    NEW e \in ToSet(p[t] \o Apply(p, op)[t]), e.id \notin Touched(op)
             PROVE  Seen(p[t], op, e) = Seen(Apply(p, op)[t], op, e)
  BY DEF OthersKept
<1>1. p \in Projects /\ Unpadded(p)
  BY StoredUnpadded DEF Stored
<1>2. CASE ~Accepts(p, op)
  BY <1>2 DEF Apply
<1>3. CASE Accepts(p, op)
  <2>1. PICK q \in Projects : q = Reduced(p, op)
    BY <1>1, ReducedType
  <2>2. Unpadded(q) /\ DistinctIds(q[t]) /\ Within(p[t], q[t], e.id, GroupsDeleted(op)) /\ Within(q[t], p[t], e.id, GroupsDeleted(op))
    BY <1>1, <2>1, ReducedOthers
  <2>3. Apply(p, op) = q
    BY <1>3, <2>1, <2>2, UnpaddedParsed DEF Apply
  <2>4. p[t] \in Seq(Entities(t)) /\ q[t] \in Seq(Entities(t))
    BY <1>1, ListOfProject
  <2>5. e \in Entities(t)
    <3>1. PICK l : l = p[t] \o q[t]
      OBVIOUS
    <3>2. l \in Seq(Entities(t))
      BY <2>4, <3>1, ConcatProperties
    <3>3. e \in ToSet(l)
      BY <2>3, <3>1
    <3>4. \E i \in DOMAIN l : e = l[i]
      BY <3>3 DEF ToSet
    <3> QED BY <3>2, <3>4
  <2> QED BY <2>2, <2>3, <2>4, <2>5, SeenOnce
<1> QED
  BY <1>2, <1>3

(* An operation, a batch included, leaves alone what touchedEntityIds does *)
(* not name, that is, what no lock was looked at for.                      *)
THEOREM OnlyTouchedChangeTheorem == Spec => []OnlyTouchedChange
<1>1. Stored(project) => OnlyTouchedChange
  BY OthersKeptFact DEF OnlyTouchedChange
<1> QED
  BY <1>1, ProjectStored, PTL

-----------------------------------------------------------------------------
(* Lists that have the same entities of an id, in the same order.          *)

Matches(f, l, l2, id) ==
    /\ f \in [PlacesOf(l, id) -> PlacesOf(l2, id)]
    /\ \A y \in PlacesOf(l2, id) : \E x \in PlacesOf(l, id) : f[x] = y
    /\ \A x, y \in PlacesOf(l, id) : x < y => f[x] < f[y]
    /\ \A x \in PlacesOf(l, id) : l2[f[x]] = l[x]
Alike(l, l2, id) == \E f : Matches(f, l, l2, id)

LEMMA PlacesType ==
  ASSUME NEW E, NEW l \in Seq(E), NEW id
  PROVE  PlacesOf(l, id) \in SUBSET Nat /\ PlacesOf(l, id) \in SUBSET DOMAIN l
BY DEF PlacesOf

LEMMA AlikeSame ==
  ASSUME NEW E, NEW l \in Seq(E), NEW l2 \in Seq(E), NEW id, PlacesOf(l, id) = PlacesOf(l2, id),
         \A x \in PlacesOf(l, id) : l[x] = l2[x]
  PROVE  Alike(l, l2, id)
<1>1. PICK f : f = [x \in PlacesOf(l, id) |-> x]
  OBVIOUS
<1>2. Matches(f, l, l2, id)
  BY <1>1 DEF Matches
<1> QED
  BY <1>2 DEF Alike

LEMMA AlikeSymmetric ==
  ASSUME NEW E, NEW l \in Seq(E), NEW l2 \in Seq(E), NEW id, Alike(l, l2, id)
  PROVE  Alike(l2, l, id)
<1>1. PICK f : Matches(f, l, l2, id)
  BY DEF Alike
<1>2. PICK P \in SUBSET Nat : P = PlacesOf(l, id)
  BY PlacesType
<1>3. PICK Q \in SUBSET Nat : Q = PlacesOf(l2, id)
  BY PlacesType
<1>4. /\ f \in [P -> Q] /\ \A y \in Q : \E x \in P : f[x] = y
      /\ \A x, y \in P : x < y => f[x] < f[y]
      /\ \A x \in P : l2[f[x]] = l[x]
  BY <1>1, <1>2, <1>3 DEF Matches
<1>5. PICK g : g = [y \in Q |-> CHOOSE x \in P : f[x] = y]
  OBVIOUS
<1>6. g \in [Q -> P] /\ \A y \in Q : f[g[y]] = y
  BY <1>4, <1>5
<1>7. \A x, y \in P : f[x] = f[y] => x = y
  <2> SUFFICES ASSUME NEW x \in P, NEW y \in P, f[x] = f[y] PROVE x = y
    OBVIOUS
  <2>1. f[x] \in Nat /\ f[y] \in Nat /\ x \in Nat /\ y \in Nat
    BY <1>4
  <2>2. ~(x < y) /\ ~(y < x)
    BY <1>4, <2>1
  <2> QED BY <2>1, <2>2
<1>8. \A x \in P : \E y \in Q : g[y] = x
  <2> SUFFICES ASSUME NEW x \in P PROVE \E y \in Q : g[y] = x
    OBVIOUS
  <2>1. PICK y \in Q : y = f[x]
    BY <1>4
  <2>2. g[y] \in P /\ f[g[y]] = f[x]
    BY <1>6, <2>1
  <2> QED BY <2>2, <1>7
<1>9. ASSUME NEW x \in Q, NEW y \in Q, x < y PROVE g[x] < g[y]
  <2>1. g[x] \in P /\ g[y] \in P /\ f[g[x]] = x /\ f[g[y]] = y
    BY <1>6
  <2>2. PICK u \in Nat : u = g[x]
    BY <2>1
  <2>3. PICK v \in Nat : v = g[y]
    BY <2>1
  <2>4. u # v
    BY <1>9, <2>1, <2>2, <2>3
  <2>5. ~(v < u)
    <3>1. v < u => f[v] < f[u]
      BY <1>4, <2>1, <2>2, <2>3
    <3>2. f[v] = y /\ f[u] = x /\ x \in Nat /\ y \in Nat
      BY <2>1, <2>2, <2>3
    <3> QED BY <3>1, <3>2, <1>9
  <2> QED BY <2>2, <2>3, <2>4, <2>5
<1>10. \A y \in Q : l[g[y]] = l2[y]
  BY <1>4, <1>6
<1>11. Matches(g, l2, l, id)
  BY <1>2, <1>3, <1>6, <1>8, <1>9, <1>10 DEF Matches
<1> QED
  BY <1>11 DEF Alike

LEMMA AlikeTransitive ==
  ASSUME NEW E, NEW l \in Seq(E), NEW l2 \in Seq(E), NEW l3 \in Seq(E), NEW id, Alike(l, l2, id), Alike(l2, l3, id)
  PROVE  Alike(l, l3, id)
<1>1. PICK f : Matches(f, l, l2, id)
  BY DEF Alike
<1>2. PICK g : Matches(g, l2, l3, id)
  BY DEF Alike
<1>3. PICK h : h = [x \in PlacesOf(l, id) |-> g[f[x]]]
  OBVIOUS
<1>4. h \in [PlacesOf(l, id) -> PlacesOf(l3, id)]
  BY <1>1, <1>2, <1>3 DEF Matches
<1>5. \A y \in PlacesOf(l3, id) : \E x \in PlacesOf(l, id) : h[x] = y
  BY <1>1, <1>2, <1>3 DEF Matches
<1>6. \A x, y \in PlacesOf(l, id) : x < y => h[x] < h[y]
  BY <1>1, <1>2, <1>3 DEF Matches
<1>7. \A x \in PlacesOf(l, id) : l3[h[x]] = l[x]
  BY <1>1, <1>2, <1>3 DEF Matches
<1>8. Matches(h, l, l3, id)
  BY <1>4, <1>5, <1>6, <1>7 DEF Matches
<1> QED
  BY <1>8 DEF Alike

\* Such lists have each entity as many times.
LEMMA AlikeCounts ==
  ASSUME NEW E, NEW l \in Seq(E), NEW l2 \in Seq(E), \A id : Alike(l, l2, id)
  PROVE  SameEntities(l, l2)
<1> SUFFICES ASSUME NEW e PROVE Cardinality({i \in DOMAIN l : l[i] = e}) = Cardinality({i \in DOMAIN l2 : l2[i] = e})
  BY DEF SameEntities
<1>1. PICK id : id = e.id
  OBVIOUS
<1>2. PICK f : Matches(f, l, l2, id)
  BY DEF Alike
<1>3. PICK S \in SUBSET DOMAIN l : S = {i \in DOMAIN l : l[i] = e}
  OBVIOUS
<1>4. PICK T \in SUBSET DOMAIN l2 : T = {i \in DOMAIN l2 : l2[i] = e}
  OBVIOUS
<1>5. S \subseteq PlacesOf(l, id) /\ T \subseteq PlacesOf(l2, id)
  BY <1>1, <1>3, <1>4 DEF PlacesOf
<1>6. PICK g : g = [x \in S |-> f[x]]
  OBVIOUS
<1>7. g \in [S -> T]
  <2>1. ASSUME NEW x \in S PROVE f[x] \in T
    <3>1. f[x] \in PlacesOf(l2, id) /\ l2[f[x]] = l[x]
      BY <1>2, <1>5 DEF Matches
    <3> QED BY <3>1, <1>3, <1>4 DEF PlacesOf
  <2> QED BY <1>6, <2>1
<1>8. \A x, y \in S : g[x] = g[y] => x = y
  <2> SUFFICES ASSUME NEW x \in S, NEW y \in S, g[x] = g[y] PROVE x = y
    OBVIOUS
  <2>1. x \in Nat /\ y \in Nat /\ f[x] \in Nat /\ f[y] \in Nat /\ f[x] = f[y]
    <3>1. PlacesOf(l, id) \in SUBSET Nat /\ PlacesOf(l2, id) \in SUBSET Nat
      BY PlacesType
    <3> QED BY <3>1, <1>2, <1>5, <1>6 DEF Matches
  <2>2. (x < y => f[x] < f[y]) /\ (y < x => f[y] < f[x])
    BY <1>2, <1>5 DEF Matches
  <2> QED BY <2>1, <2>2
<1>9. \A y \in T : \E x \in S : g[x] = y
  <2> SUFFICES ASSUME NEW y \in T PROVE \E x \in S : g[x] = y
    OBVIOUS
  <2>1. PICK x \in PlacesOf(l, id) : f[x] = y
    BY <1>2, <1>5 DEF Matches
  <2>2. l[x] = e
    BY <1>2, <1>4, <2>1 DEF Matches
  <2>3. x \in S
    BY <1>3, <2>2 DEF PlacesOf
  <2> QED BY <1>6, <2>1, <2>3
<1>10. g \in Bijection(S, T)
  BY <1>7, <1>8, <1>9 DEF Bijection, Injection, Surjection, IsInjective
<1>11. IsFiniteSet(S)
  BY KeptFacts
<1>12. Cardinality(S) = Cardinality(T)
  BY <1>10, <1>11, FS_Bijection DEF ExistsBijection
<1> QED
  BY <1>3, <1>4, <1>12

-----------------------------------------------------------------------------
(* Edits of a list, by the id they name: nothing else is changed, and what *)
(* they do depends on nothing else.                                        *)

\* An entity put in the place of one of its id.
LEMMA ReplacedAlike ==
  ASSUME NEW E, NEW l \in Seq(E), NEW i \in DOMAIN l, NEW e \in E, e.id = l[i].id, NEW id
  PROVE  /\ [l EXCEPT ![i] = e] \in Seq(E)
         /\ PlacesOf([l EXCEPT ![i] = e], id) = PlacesOf(l, id)
         /\ id # e.id => Alike([l EXCEPT ![i] = e], l, id)
<1>1. PICK m : m = [l EXCEPT ![i] = e]
  OBVIOUS
<1>2. m \in Seq(E)
  BY <1>1, ExceptSeq
<1>3. DOMAIN m = DOMAIN l /\ \A k \in DOMAIN l : m[k] = IF k = i THEN e ELSE l[k]
  BY <1>1
<1>4. PlacesOf(m, id) = PlacesOf(l, id)
  BY <1>3 DEF PlacesOf
<1>5. ASSUME id # e.id PROVE Alike(m, l, id)
  <2>1. \A x \in PlacesOf(m, id) : m[x] = l[x]
    BY <1>3, <1>5 DEF PlacesOf
  <2> QED BY <1>2, <1>4, <2>1, AlikeSame
<1> QED
  BY <1>1, <1>2, <1>4, <1>5

LEMMA AppendedAlike ==
  ASSUME NEW E, NEW l \in Seq(E), NEW e \in E, NEW id
  PROVE  id # e.id => Alike(Append(l, e), l, id)
<1> SUFFICES ASSUME id # e.id PROVE Alike(Append(l, e), l, id)
  OBVIOUS
<1>1. PICK n \in Nat : n = Len(l) /\ DOMAIN l = 1 .. n
  OBVIOUS
<1>2. PICK m : m = Append(l, e)
  OBVIOUS
<1>3. m \in Seq(E) /\ DOMAIN m = 1 .. n + 1 /\ m[n + 1] = e /\ \A k \in 1 .. n : m[k] = l[k]
  BY <1>1, <1>2, AppendProperties
<1>4. \A k \in 1 .. n + 1 : k = n + 1 \/ k \in 1 .. n
  OBVIOUS
<1>5. PlacesOf(m, id) = PlacesOf(l, id)
  BY <1>1, <1>3, <1>4 DEF PlacesOf
<1>6. \A x \in PlacesOf(m, id) : m[x] = l[x]
  BY <1>1, <1>3, <1>5 DEF PlacesOf
<1> QED
  BY <1>2, <1>3, <1>5, <1>6, AlikeSame

LEMMA DroppedAlike ==
  ASSUME NEW E, NEW l \in Seq(E), NEW gone_, NEW id
  PROVE  id # gone_ => Alike(Dropped(l, gone_), l, id)
<1> SUFFICES ASSUME id # gone_ PROVE Alike(Dropped(l, gone_), l, id)
  OBVIOUS
<1>1. PICK S \in SUBSET DOMAIN l : S = DOMAIN l \ PlacesOf(l, gone_)
  OBVIOUS
<1>2. PICK c \in Nat : c = Cardinality(S)
  BY KeptFacts
<1>3. PICK m : m = Kept(l, S)
  OBVIOUS
<1>b. m = Dropped(l, gone_)
  BY <1>1, <1>3 DEF Dropped
<1>a. m \in Seq(E)
  BY <1>3, KeptFacts
<1>4. /\ DOMAIN m = 1 .. c
      /\ \A k \in 1 .. c : Nth(S, k) \in S /\ m[k] = l[Nth(S, k)]
      /\ \A i \in S : \E k \in 1 .. c : Nth(S, k) = i
      /\ \A j, k \in 1 .. c : j < k => Nth(S, j) < Nth(S, k)
  BY <1>2, <1>3, KeptFacts
<1>5. PlacesOf(m, id) \subseteq 1 .. c /\ \A k \in 1 .. c : k \in PlacesOf(m, id) <=> m[k].id = id
  BY <1>4 DEF PlacesOf
<1>6. PlacesOf(l, id) \subseteq S /\ \A i \in S : i \in PlacesOf(l, id) <=> l[i].id = id
  BY <1>1 DEF PlacesOf
<1>7. PICK f : f = [k \in PlacesOf(m, id) |-> Nth(S, k)]
  OBVIOUS
<1>8. f \in [PlacesOf(m, id) -> PlacesOf(l, id)]
  BY <1>4, <1>5, <1>6, <1>7
<1>9. \A y \in PlacesOf(l, id) : \E x \in PlacesOf(m, id) : f[x] = y
  <2> SUFFICES ASSUME NEW y \in PlacesOf(l, id) PROVE \E x \in PlacesOf(m, id) : f[x] = y
    OBVIOUS
  <2>1. PICK k \in 1 .. c : Nth(S, k) = y
    BY <1>4, <1>6
  <2>2. m[k] = l[y] /\ l[y].id = id
    BY <1>4, <1>6, <2>1
  <2>3. k \in PlacesOf(m, id)
    BY <1>5, <2>2
  <2> QED BY <1>7, <2>1, <2>3
<1>10. \A x, y \in PlacesOf(m, id) : x < y => f[x] < f[y]
  BY <1>4, <1>5, <1>7
<1>11. \A x \in PlacesOf(m, id) : l[f[x]] = m[x]
  BY <1>4, <1>5, <1>7
<1>12. Matches(f, m, l, id)
  BY <1>8, <1>9, <1>10, <1>11 DEF Matches
<1> QED
  BY <1>b, <1>12 DEF Alike

\* The first entities of an id in lists that are alike.
LEMMA AlikeFirst ==
  ASSUME NEW E, NEW l \in Seq(E), NEW l2 \in Seq(E), NEW id, NEW f, Matches(f, l, l2, id)
  PROVE  /\ PlacesOf(l, id) = {} <=> PlacesOf(l2, id) = {}
         /\ PlacesOf(l, id) # {} => /\ IndexOf(l, id) \in PlacesOf(l, id)
                                    /\ f[IndexOf(l, id)] = IndexOf(l2, id) /\ l[IndexOf(l, id)] = l2[IndexOf(l2, id)]
<1>1. PICK P \in SUBSET Nat : P = PlacesOf(l, id)
  BY PlacesType
<1>2. PICK Q \in SUBSET Nat : Q = PlacesOf(l2, id)
  BY PlacesType
<1>3. /\ f \in [P -> Q] /\ \A y \in Q : \E x \in P : f[x] = y
      /\ \A x, y \in P : x < y => f[x] < f[y]
      /\ \A x \in P : l2[f[x]] = l[x]
  BY <1>1, <1>2 DEF Matches
<1>4. P = {} <=> Q = {}
  BY <1>3
<1>5. ASSUME P # {}
      PROVE  /\ IndexOf(l, id) \in P
             /\ f[IndexOf(l, id)] = IndexOf(l2, id) /\ l[IndexOf(l, id)] = l2[IndexOf(l2, id)]
  <2>1. PICK i \in P : i = IndexOf(l, id) /\ \A x \in P : i <= x
    BY <1>1, <1>5, IndexFacts DEF PlacesOf
  <2>2. PICK j \in Q : j = IndexOf(l2, id) /\ \A x \in Q : j <= x
    BY <1>2, <1>4, <1>5, IndexFacts DEF PlacesOf
  <2>3. PICK x \in P : f[x] = j
    BY <1>3
  <2>4. f[i] \in Q /\ j <= f[i]
    BY <1>3, <2>2
  <2>5. i = x \/ i < x
    <3>1. i \in Nat /\ x \in Nat /\ i <= x
      BY <2>1
    <3> QED BY <3>1
  <2>6. f[i] = j
    <3>1. i < x => f[i] < j
      BY <1>3, <2>3
    <3>2. f[i] \in Nat /\ j \in Nat
      BY <2>4
    <3> QED BY <2>3, <2>4, <2>5, <3>1, <3>2
  <2> QED BY <1>3, <2>1, <2>2, <2>6
<1> QED
  BY <1>1, <1>2, <1>4, <1>5

\* What matches goes on matching when the first of each is replaced, ...
LEMMA ReplacedFirst ==
  ASSUME NEW E, NEW l \in Seq(E), NEW l2 \in Seq(E), NEW id, Alike(l, l2, id), PlacesOf(l, id) # {}, NEW e \in E, e.id = id
  PROVE  Alike([l EXCEPT ![IndexOf(l, id)] = e], [l2 EXCEPT ![IndexOf(l2, id)] = e], id)
<1>1. PICK f : Matches(f, l, l2, id)
  BY DEF Alike
<1>2. PICK i \in PlacesOf(l, id) : i = IndexOf(l, id) /\ f[i] = IndexOf(l2, id)
  BY <1>1, AlikeFirst
<1>3. PICK j \in PlacesOf(l2, id) : j = IndexOf(l2, id) /\ j = f[i]
  BY <1>1, <1>2 DEF Matches
<1>4. i \in DOMAIN l /\ l[i].id = id /\ j \in DOMAIN l2 /\ l2[j].id = id
  BY DEF PlacesOf
<1>5. PICK m : m = [l EXCEPT ![i] = e]
  OBVIOUS
<1>6. PICK m2 : m2 = [l2 EXCEPT ![j] = e]
  OBVIOUS
<1>7. PlacesOf(m, id) = PlacesOf(l, id) /\ PlacesOf(m2, id) = PlacesOf(l2, id)
  <2>1. DOMAIN m = DOMAIN l /\ \A k \in DOMAIN l : m[k].id = l[k].id
    BY <1>4, <1>5
  <2>2. DOMAIN m2 = DOMAIN l2 /\ \A k \in DOMAIN l2 : m2[k].id = l2[k].id
    BY <1>4, <1>6
  <2> QED BY <2>1, <2>2, SamePlaces
<1>8. (\A k \in DOMAIN l : m[k] = IF k = i THEN e ELSE l[k]) /\ \A k \in DOMAIN l2 : m2[k] = IF k = j THEN e ELSE l2[k]
  BY <1>5, <1>6
<1>9. \A x \in PlacesOf(l, id) : f[x] = j => x = i
  <2> SUFFICES ASSUME NEW x \in PlacesOf(l, id), f[x] = j PROVE x = i
    OBVIOUS
  <2>1. x \in Nat /\ i \in Nat /\ j \in Nat
    BY PlacesType
  <2>2. (x < i => f[x] < f[i]) /\ (i < x => f[i] < f[x])
    BY <1>1 DEF Matches
  <2> QED BY <1>3, <2>1, <2>2
<1>10. ASSUME NEW x \in PlacesOf(l, id) PROVE m2[f[x]] = m[x]
  <2>1. f[x] \in PlacesOf(l2, id) /\ l2[f[x]] = l[x]
    BY <1>1 DEF Matches
  <2>2. x \in DOMAIN l /\ f[x] \in DOMAIN l2
    BY <2>1 DEF PlacesOf
  <2>3. CASE x = i
    BY <1>3, <1>8, <2>2, <2>3
  <2>4. CASE x # i
    BY <1>8, <1>9, <2>1, <2>2, <2>4
  <2> QED BY <2>3, <2>4
<1>11. Matches(f, m, m2, id)
  BY <1>1, <1>7, <1>10 DEF Matches
<1> QED
  BY <1>2, <1>3, <1>5, <1>6, <1>11 DEF Alike

\* ... when the same is appended to both, ...
LEMMA AppendedBoth ==
  ASSUME NEW E, NEW l \in Seq(E), NEW l2 \in Seq(E), NEW id, Alike(l, l2, id), NEW e \in E, e.id = id
  PROVE  Alike(Append(l, e), Append(l2, e), id)
<1>1. PICK f : Matches(f, l, l2, id)
  BY DEF Alike
<1>2. PICK n \in Nat : n = Len(l) /\ DOMAIN l = 1 .. n
  OBVIOUS
<1>3. PICK n2 \in Nat : n2 = Len(l2) /\ DOMAIN l2 = 1 .. n2
  OBVIOUS
<1>4. PICK m : m = Append(l, e)
  OBVIOUS
<1>5. PICK m2 : m2 = Append(l2, e)
  OBVIOUS
<1>6. DOMAIN m = 1 .. n + 1 /\ m[n + 1] = e /\ \A k \in 1 .. n : m[k] = l[k]
  BY <1>2, <1>4, AppendProperties
<1>7. DOMAIN m2 = 1 .. n2 + 1 /\ m2[n2 + 1] = e /\ \A k \in 1 .. n2 : m2[k] = l2[k]
  BY <1>3, <1>5, AppendProperties
<1>8. PICK P : P = PlacesOf(l, id) /\ P \subseteq 1 .. n
  BY <1>2 DEF PlacesOf
<1>9. PICK Q : Q = PlacesOf(l2, id) /\ Q \subseteq 1 .. n2
  BY <1>3 DEF PlacesOf
<1>10. PlacesOf(m, id) = P \cup {n + 1}
  <2>1. \A k \in 1 .. n + 1 : k = n + 1 \/ k \in 1 .. n
    OBVIOUS
  <2>2. 1 .. n \subseteq 1 .. n + 1 /\ n + 1 \in 1 .. n + 1
    OBVIOUS
  <2>3. \A k \in 1 .. n : k \in P <=> m[k].id = id
    BY <1>2, <1>6, <1>8 DEF PlacesOf
  <2> QED BY <1>6, <1>8, <2>1, <2>2, <2>3 DEF PlacesOf
<1>11. PlacesOf(m2, id) = Q \cup {n2 + 1}
  <2>1. \A k \in 1 .. n2 + 1 : k = n2 + 1 \/ k \in 1 .. n2
    OBVIOUS
  <2>2. 1 .. n2 \subseteq 1 .. n2 + 1 /\ n2 + 1 \in 1 .. n2 + 1
    OBVIOUS
  <2>3. \A k \in 1 .. n2 : k \in Q <=> m2[k].id = id
    BY <1>3, <1>7, <1>9 DEF PlacesOf
  <2> QED BY <1>7, <1>9, <2>1, <2>2, <2>3 DEF PlacesOf
<1>12. /\ f \in [P -> Q] /\ \A y \in Q : \E x \in P : f[x] = y
       /\ \A x, y \in P : x < y => f[x] < f[y]
       /\ \A x \in P : l2[f[x]] = l[x]
  BY <1>1, <1>8, <1>9 DEF Matches
<1>13. PICK g : g = [x \in P \cup {n + 1} |-> IF x = n + 1 THEN n2 + 1 ELSE f[x]]
  OBVIOUS
<1>14. n + 1 \notin P /\ n2 + 1 \notin Q
  BY <1>8, <1>9
<1>15. g[n + 1] = n2 + 1 /\ \A x \in P : g[x] = f[x] /\ g[x] \in Q
  BY <1>12, <1>13, <1>14
<1>16. g \in [P \cup {n + 1} -> Q \cup {n2 + 1}]
  BY <1>13, <1>15
<1>17. \A y \in Q \cup {n2 + 1} : \E x \in P \cup {n + 1} : g[x] = y
  BY <1>12, <1>15
<1>18. ASSUME NEW x \in P \cup {n + 1}, NEW y \in P \cup {n + 1}, x < y PROVE g[x] < g[y]
  <2>1. x \in P
    BY <1>8, <1>18
  <2>2. CASE y \in P
    BY <1>12, <1>15, <1>18, <2>1, <2>2
  <2>3. CASE y = n + 1
    <3>1. g[x] \in 1 .. n2 /\ g[y] = n2 + 1
      BY <1>9, <1>15, <2>1, <2>3
    <3> QED BY <3>1
  <2> QED BY <2>2, <2>3
<1>19. ASSUME NEW x \in P \cup {n + 1} PROVE m2[g[x]] = m[x]
  <2>1. CASE x \in P
    <3>1. x \in 1 .. n /\ g[x] \in 1 .. n2
      BY <1>8, <1>9, <1>15, <2>1
    <3> QED BY <3>1, <2>1, <1>6, <1>7, <1>12, <1>15
  <2>2. CASE x = n + 1
    BY <2>2, <1>6, <1>7, <1>15
  <2> QED BY <2>1, <2>2
<1>20. Matches(g, m, m2, id)
  BY <1>10, <1>11, <1>16, <1>17, <1>18, <1>19 DEF Matches
<1> QED
  BY <1>4, <1>5, <1>20 DEF Alike

\* ... and when both lose it.
LEMMA DroppedBoth ==
  ASSUME NEW E, NEW l \in Seq(E), NEW l2 \in Seq(E), NEW id
  PROVE  Alike(Dropped(l, id), Dropped(l2, id), id)
<1>1. (\A x : Has(Dropped(l, id), x) => x.id # id) /\ \A x : Has(Dropped(l2, id), x) => x.id # id
  BY DroppedEntries
<1>2. PlacesOf(Dropped(l, id), id) = {} /\ PlacesOf(Dropped(l2, id), id) = {}
  BY <1>1 DEF Has, PlacesOf
<1>3. Dropped(l, id) \in Seq(E) /\ Dropped(l2, id) \in Seq(E)
  BY DroppedType
<1> QED
  BY <1>2, <1>3, AlikeSame

\* The id of an edit, without blanks.
EditId(op) == IF op.type = "drawable" THEN Trim(IdOf(op)) ELSE IdOf(op)

\* An upsert of an id with blanks.
Spaced(op) == op.type = "drawable" /\ ~SendsUnpadded(op)

\* What becomes of the list of an accepted edit's type, once it is parsed.
Acted(list, op) ==
    IF op.kind = "entity.delete" THEN Dropped(list, op.id)
    ELSE IF op.kind = "entity.patch" THEN Patched(list, op.id, op.patch)
    ELSE IF ~Spaced(op) THEN Upserted(list, op.entity)
    ELSE Append(list, ParsedEntity(op.type, op.entity))

LEMMA EditForms ==
  ASSUME NEW op \in EntityEdits
  PROVE  /\ op \in LeafOps /\ op.type \in Types
         /\ \/ op.kind = "entity.delete" /\ op.id \in Uuids(op.type) /\ EditId(op) = op.id /\ IdOf(op) = op.id
            \/ op.kind = "entity.patch" /\ op.id \in Uuids(op.type) /\ EditId(op) = op.id /\ IdOf(op) = op.id
               /\ op.patch \in Patches[op.type]
            \/ op.kind = "entity.upsert" /\ op.entity \in Entities(op.type) /\ IdOf(op) = op.entity.id
               /\ EditId(op) = ParsedEntity(op.type, op.entity).id
               /\ (op.type # "drawable" => EditId(op) = op.entity.id)
               /\ (~Spaced(op) => EditId(op) = op.entity.id)
<1>1. op \in LeafOps
  BY DEF LeafOps
<1>2. PICK t \in Types : op \in EntityOps(t)
  BY DEF EntityEdits
<1>3. \A id \in Uuids(t) : (IF t = "drawable" THEN Trim(id) ELSE id) = id
  BY TrimFacts DEF Uuids
<1>4. CASE op \in {[kind |-> "entity.delete", type |-> t, id |-> id] : id \in Uuids(t)}
  <2>1. op.type = t /\ op.kind = "entity.delete" /\ op.id \in Uuids(t)
    BY <1>4
  <2>2. IdOf(op) = op.id
    BY <2>1 DEF IdOf
  <2>3. EditId(op) = op.id
    BY <1>3, <2>1, <2>2 DEF EditId
  <2> QED BY <1>1, <2>1, <2>2, <2>3
<1>5. CASE op \in {[kind |-> "entity.patch", type |-> t, id |-> id, patch |-> patch] : id \in Uuids(t), patch \in Patches[t]}
  <2>1. op.type = t /\ op.kind = "entity.patch" /\ op.id \in Uuids(t) /\ op.patch \in Patches[t]
    BY <1>5
  <2>2. IdOf(op) = op.id
    BY <2>1 DEF IdOf
  <2>3. EditId(op) = op.id
    BY <1>3, <2>1, <2>2 DEF EditId
  <2> QED BY <1>1, <2>1, <2>2, <2>3
<1>6. CASE \E id \in UpsertIds(t) : \E s \in Sent[t] : \E g \in Groups \cup {None} :
              op = [kind |-> "entity.upsert", type |-> t, entity |-> Entity(id, g, s)]
  <2>1. PICK id \in UpsertIds(t), s \in Sent[t], g \in Groups \cup {None} :
           op = [kind |-> "entity.upsert", type |-> t, entity |-> Entity(id, g, s)]
    BY <1>6
  <2>a. Entity(id, g, s) \in Entities(t)
    BY ProjectAssumption DEF Entity, Entities
  <2>2. PICK e \in Entities(t) : e = Entity(id, g, s)
    BY <2>a
  <2>3. op.kind = "entity.upsert" /\ op.type = t /\ op.entity = e
    BY <2>1, <2>2
  <2>b. e.id = id
    BY <2>2 DEF Entity
  <2>4. IdOf(op) = e.id
    BY <2>3 DEF IdOf
  <2>5. EditId(op) = ParsedEntity(t, e).id
    BY <2>3, <2>4, ParsedEntityType DEF EditId
  <2>6. t # "drawable" => EditId(op) = e.id
    BY <2>3, <2>4 DEF EditId
  <2>7. ~Spaced(op) => EditId(op) = e.id
    <3>1. CASE t = "drawable" /\ SendsUnpadded(op)
      <4>1. e.id \in Drawables \cup Loose
        BY <3>1, <2>b, <2>3 DEF SendsUnpadded, UpsertIds
      <4> QED BY <3>1, <4>1, <2>3, <2>4, TrimFacts DEF EditId
    <3> QED BY <2>3, <2>6, <3>1 DEF Spaced
  <2> QED BY <1>1, <2>3, <2>4, <2>5, <2>6, <2>7
<1> QED
  BY <1>2, <1>4, <1>5, <1>6 DEF EntityOps

LEMMA ActedType ==
  ASSUME NEW op \in EntityEdits, NEW t \in Types, t = op.type, NEW l \in Seq(Entities(t))
  PROVE  Acted(l, op) \in Seq(Entities(t))
<1>1. CASE op.kind = "entity.delete"
  BY <1>1, DroppedType DEF Acted
<1>2. CASE op.kind = "entity.patch"
  BY <1>2, EditForms, PatchedType DEF Acted
<1>3. CASE op.kind = "entity.upsert"
  <2>1. PICK e \in Entities(t) : e = op.entity
    BY <1>3, EditForms
  <2>2. ParsedEntity(t, e) \in Entities(t)
    BY ParsedEntityType
  <2>3. Upserted(l, e) \in Seq(Entities(t)) /\ Append(l, ParsedEntity(t, e)) \in Seq(Entities(t))
    BY <2>2, UpsertedType
  <2> QED BY <1>3, <2>1, <2>3 DEF Acted
<1> QED
  BY <1>1, <1>2, <1>3, EditForms

LEMMA ActedElsewhere ==
  ASSUME NEW op \in EntityEdits, NEW t \in Types, t = op.type, NEW l \in Seq(Entities(t)), NEW id, id # EditId(op)
  PROVE  Alike(Acted(l, op), l, id)
<1>0. Alike(l, l, id)
  BY AlikeSame
<1>1. CASE op.kind = "entity.delete"
  BY <1>1, EditForms, DroppedAlike DEF Acted
<1>2. CASE op.kind = "entity.patch"
  <2>1. PICK patch \in Patches[t] : patch = op.patch /\ EditId(op) = op.id /\ Acted(l, op) = Patched(l, op.id, patch)
    BY <1>2, EditForms DEF Acted
  <2>2. PICK i : i = IndexOf(l, op.id)
    OBVIOUS
  <2>3. CASE i = 0
    BY <2>1, <2>2, <2>3, <1>0 DEF Patched
  <2>4. CASE i # 0
    <3>1. i \in DOMAIN l /\ l[i].id = op.id
      BY <2>2, <2>4, IndexFacts
    <3>2. PICK e : e = MergePatch(l[i], patch)
      OBVIOUS
    <3>3. e \in Entities(t) /\ e.id = l[i].id
      BY <3>1, <3>2, MergedType
    <3>4. Acted(l, op) = [l EXCEPT ![i] = e]
      BY <2>1, <2>2, <2>4, <3>2 DEF Patched
    <3>5. Alike([l EXCEPT ![i] = e], l, id)
      BY <2>1, <3>1, <3>3, ReplacedAlike
    <3> QED BY <3>4, <3>5
  <2> QED BY <2>3, <2>4
<1>3. CASE op.kind = "entity.upsert" /\ ~Spaced(op)
  <2>1. PICK e \in Entities(t) : e = op.entity /\ EditId(op) = e.id /\ Acted(l, op) = Upserted(l, e)
    BY <1>3, EditForms DEF Acted
  <2>2. PICK i : i = IndexOf(l, e.id)
    OBVIOUS
  <2>3. CASE i = 0
    <3>1. Acted(l, op) = Append(l, e)
      BY <2>1, <2>2, <2>3 DEF Upserted
    <3> QED BY <2>1, <3>1, AppendedAlike
  <2>4. CASE i # 0
    <3>1. i \in DOMAIN l /\ l[i].id = e.id
      BY <2>2, <2>4, IndexFacts
    <3>2. Acted(l, op) = [l EXCEPT ![i] = e]
      BY <2>1, <2>2, <2>4 DEF Upserted
    <3>3. Alike([l EXCEPT ![i] = e], l, id)
      BY <2>1, <3>1, ReplacedAlike
    <3> QED BY <3>2, <3>3
  <2> QED BY <2>3, <2>4
<1>4. CASE op.kind = "entity.upsert" /\ Spaced(op)
  <2>1. PICK e \in Entities(t) : e = ParsedEntity(op.type, op.entity) /\ EditId(op) = e.id
    BY <1>4, EditForms, ParsedEntityType
  <2>2. Acted(l, op) = Append(l, e)
    BY <1>4, <2>1 DEF Acted
  <2> QED BY <2>1, <2>2, AppendedAlike
<1> QED
  BY <1>1, <1>2, <1>3, <1>4, EditForms

LEMMA ActedThere ==
  ASSUME NEW op \in EntityEdits, NEW t \in Types, t = op.type, NEW l \in Seq(Entities(t)), NEW l2 \in Seq(Entities(t)),
         Alike(l, l2, EditId(op))
  PROVE  Alike(Acted(l, op), Acted(l2, op), EditId(op))
<1>0. PICK id : id = EditId(op)
  OBVIOUS
<1>e. Alike(l, l2, id)
  BY <1>0
<1>a. PICK f : Matches(f, l, l2, id)
  BY <1>0 DEF Alike
<1>b. PlacesOf(l, id) = {} <=> PlacesOf(l2, id) = {}
  BY <1>a, AlikeFirst
<1>c. PlacesOf(l, id) # {} => l[IndexOf(l, id)] = l2[IndexOf(l2, id)]
  BY <1>a, AlikeFirst
<1>d. (IndexOf(l, id) = 0 <=> PlacesOf(l, id) = {}) /\ (IndexOf(l2, id) = 0 <=> PlacesOf(l2, id) = {})
  BY IndexFacts
<1>1. CASE op.kind = "entity.delete"
  BY <1>1, EditForms, DroppedBoth DEF Acted
<1>2. CASE op.kind = "entity.patch"
  <2>1. PICK patch \in Patches[t] : patch = op.patch /\ id = op.id
    BY <1>0, <1>2, EditForms
  <2>2. Acted(l, op) = Patched(l, id, patch) /\ Acted(l2, op) = Patched(l2, id, patch)
    BY <1>2, <2>1 DEF Acted
  <2>3. CASE PlacesOf(l, id) = {}
    <3>1. Acted(l, op) = l /\ Acted(l2, op) = l2
      BY <1>b, <1>d, <2>2, <2>3 DEF Patched
    <3> QED BY <3>1
  <2>4. CASE PlacesOf(l, id) # {}
    <3>1. PICK e : e = MergePatch(l[IndexOf(l, id)], patch) /\ e = MergePatch(l2[IndexOf(l2, id)], patch)
      BY <1>c, <2>4
    <3>2. e \in Entities(t) /\ e.id = id
      <4>1. PICK x \in Entities(t) : x = l[IndexOf(l, id)] /\ x.id = id
        BY <2>4, IndexFacts
      <4>2. e = MergePatch(x, patch)
        BY <3>1, <4>1
      <4>3. MergePatch(x, patch) \in Entities(t) /\ MergePatch(x, patch).id = x.id
        BY MergedType
      <4> QED BY <4>1, <4>2, <4>3
    <3>3. Acted(l, op) = [l EXCEPT ![IndexOf(l, id)] = e] /\ Acted(l2, op) = [l2 EXCEPT ![IndexOf(l2, id)] = e]
      BY <1>b, <1>d, <2>2, <2>4, <3>1 DEF Patched
    <3>4. Alike([l EXCEPT ![IndexOf(l, id)] = e], [l2 EXCEPT ![IndexOf(l2, id)] = e], id)
      BY <1>e, <2>4, <3>2, ReplacedFirst
    <3> QED BY <1>0, <3>3, <3>4
  <2> QED BY <2>3, <2>4
<1>3. CASE op.kind = "entity.upsert" /\ ~Spaced(op)
  <2>1. PICK e \in Entities(t) : e = op.entity /\ id = e.id
    BY <1>0, <1>3, EditForms
  <2>2. Acted(l, op) = Upserted(l, e) /\ Acted(l2, op) = Upserted(l2, e)
    BY <1>3, <2>1 DEF Acted
  <2>3. CASE PlacesOf(l, id) = {}
    <3>1. Acted(l, op) = Append(l, e) /\ Acted(l2, op) = Append(l2, e)
      BY <1>b, <1>d, <2>1, <2>2, <2>3 DEF Upserted
    <3> QED BY <1>0, <2>1, <3>1, AppendedBoth
  <2>4. CASE PlacesOf(l, id) # {}
    <3>1. Acted(l, op) = [l EXCEPT ![IndexOf(l, id)] = e] /\ Acted(l2, op) = [l2 EXCEPT ![IndexOf(l2, id)] = e]
      BY <1>b, <1>d, <2>1, <2>2, <2>4 DEF Upserted
    <3>2. Alike([l EXCEPT ![IndexOf(l, id)] = e], [l2 EXCEPT ![IndexOf(l2, id)] = e], id)
      BY <1>e, <2>1, <2>4, ReplacedFirst
    <3> QED BY <1>0, <3>1, <3>2
  <2> QED BY <2>3, <2>4
<1>4. CASE op.kind = "entity.upsert" /\ Spaced(op)
  <2>1. PICK e \in Entities(t) : e = ParsedEntity(op.type, op.entity) /\ EditId(op) = e.id
    BY <1>4, EditForms, ParsedEntityType
  <2>2. Acted(l, op) = Append(l, e) /\ Acted(l2, op) = Append(l2, e)
    BY <1>4, <2>1 DEF Acted
  <2>3. Alike(Append(l, e), Append(l2, e), id)
    BY <1>0, <1>e, <2>1, AppendedBoth
  <2> QED BY <1>0, <2>2, <2>3
<1> QED
  BY <1>1, <1>2, <1>3, <1>4, EditForms

\* An entity that leaves group g.
Left(x, g) == IF x.group = g THEN [x EXCEPT !.group = None] ELSE x

LEMMA LeftFacts ==
  ASSUME NEW t \in Types, NEW x \in Entities(t), NEW g
  PROVE  /\ Left(x, g) \in Entities(t) /\ Left(x, g).id = x.id /\ Left(x, g).shape = x.shape
         /\ Left(x, g).group = IF x.group = g THEN None ELSE x.group
BY DEF Left, Entities

LEMMA UngroupedForm ==
  ASSUME NEW t \in Types, NEW l \in Seq(Entities(t)), NEW g
  PROVE  /\ Ungrouped(l, g) \in Seq(Entities(t)) /\ DOMAIN Ungrouped(l, g) = DOMAIN l /\ Len(Ungrouped(l, g)) = Len(l)
         /\ \A i \in DOMAIN l : Ungrouped(l, g)[i] = Left(l[i], g) /\ Ungrouped(l, g)[i].id = l[i].id
         /\ \A id : PlacesOf(Ungrouped(l, g), id) = PlacesOf(l, id) /\ IndexOf(Ungrouped(l, g), id) = IndexOf(l, id)
<1>1. Ungrouped(l, g) \in Seq(Entities(t)) /\ DOMAIN Ungrouped(l, g) = DOMAIN l /\ Len(Ungrouped(l, g)) = Len(l)
  BY UngroupedFacts
<1>2. \A i \in DOMAIN l : Ungrouped(l, g)[i] = Left(l[i], g)
  BY UngroupedFacts DEF Left
<1>3. \A i \in DOMAIN l : Left(l[i], g).id = l[i].id
  BY LeftFacts
<1>4. \A i \in DOMAIN l : Ungrouped(l, g)[i].id = l[i].id
  BY <1>2, <1>3
<1>5. \A id : PlacesOf(Ungrouped(l, g), id) = PlacesOf(l, id) /\ IndexOf(Ungrouped(l, g), id) = IndexOf(l, id)
  BY <1>1, <1>4, SamePlaces
<1> QED
  BY <1>1, <1>2, <1>4, <1>5

LEMMA UngroupedAppended ==
  ASSUME NEW t \in Types, NEW l \in Seq(Entities(t)), NEW e \in Entities(t), NEW g
  PROVE  Ungrouped(Append(l, e), g) = Append(Ungrouped(l, g), Left(e, g))
<1>1. PICK n \in Nat : n = Len(l) /\ DOMAIN l = 1 .. n
  OBVIOUS
<1>2. PICK m : m = Append(l, e)
  OBVIOUS
<1>3. m \in Seq(Entities(t)) /\ Len(m) = n + 1 /\ DOMAIN m = 1 .. n + 1 /\ m[n + 1] = e /\ \A k \in 1 .. n : m[k] = l[k]
  BY <1>1, <1>2, AppendProperties
<1>4. PICK u \in Seq(Entities(t)) : u = Ungrouped(m, g)
  BY <1>3, UngroupedForm
<1>5. Len(u) = n + 1 /\ \A k \in 1 .. n + 1 : u[k] = Left(m[k], g)
  BY <1>3, <1>4, UngroupedForm
<1>6. PICK v \in Seq(Entities(t)) : v = Ungrouped(l, g)
  BY UngroupedForm
<1>7. Len(v) = n /\ \A k \in 1 .. n : v[k] = Left(l[k], g)
  BY <1>1, <1>6, UngroupedForm
<1>8. PICK w : w = Append(v, Left(e, g))
  OBVIOUS
<1>9. w \in Seq(Entities(t)) /\ Len(w) = n + 1 /\ w[n + 1] = Left(e, g) /\ \A k \in 1 .. n : w[k] = v[k]
  BY <1>7, <1>8, LeftFacts, AppendProperties
<1>10. \A k \in 1 .. n + 1 : u[k] = w[k]
  <2> SUFFICES ASSUME NEW k \in 1 .. n + 1 PROVE u[k] = w[k]
    OBVIOUS
  <2>1. CASE k = n + 1
    BY <1>3, <1>5, <1>9, <2>1
  <2>2. CASE k # n + 1
    <3>1. k \in 1 .. n
      BY <2>2
    <3> QED BY <3>1, <1>3, <1>5, <1>7, <1>9
  <2> QED BY <2>1, <2>2
<1>11. u = w
  BY <1>5, <1>9, <1>10, SeqEqual
<1> QED
  BY <1>2, <1>4, <1>6, <1>8, <1>11

LEMMA UngroupedReplaced ==
  ASSUME NEW t \in Types, NEW l \in Seq(Entities(t)), NEW i \in DOMAIN l, NEW e \in Entities(t), NEW g
  PROVE  Ungrouped([l EXCEPT ![i] = e], g) = [Ungrouped(l, g) EXCEPT ![i] = Left(e, g)]
<1>1. PICK m : m = [l EXCEPT ![i] = e]
  OBVIOUS
<1>2. m \in Seq(Entities(t)) /\ Len(m) = Len(l) /\ DOMAIN m = DOMAIN l /\ \A k \in DOMAIN l : m[k] = IF k = i THEN e ELSE l[k]
  BY <1>1, ExceptSeq
<1>3. PICK u : u = Ungrouped(m, g)
  OBVIOUS
<1>4. u \in Seq(Entities(t)) /\ Len(u) = Len(l) /\ DOMAIN u = DOMAIN l
  BY <1>2, <1>3, UngroupedForm
<1>5. \A k \in DOMAIN l : u[k] = Left(m[k], g)
  BY <1>2, <1>3, UngroupedForm
<1>6. PICK v : v = Ungrouped(l, g)
  OBVIOUS
<1>7. v \in Seq(Entities(t)) /\ Len(v) = Len(l) /\ DOMAIN v = DOMAIN l
  BY <1>6, UngroupedForm
<1>8. \A k \in DOMAIN l : v[k] = Left(l[k], g)
  BY <1>6, UngroupedForm
<1>9. PICK w : w = [v EXCEPT ![i] = Left(e, g)]
  OBVIOUS
<1>10. w \in Seq(Entities(t)) /\ Len(w) = Len(l)
  BY <1>7, <1>9, LeftFacts, ExceptSeq
<1>11. \A k \in DOMAIN l : w[k] = IF k = i THEN Left(e, g) ELSE v[k]
  BY <1>7, <1>9
<1>12. \A k \in DOMAIN l : u[k] = w[k]
  BY <1>2, <1>5, <1>8, <1>11
<1>13. u = w
  BY <1>4, <1>10, <1>12, SeqEqual
<1> QED
  BY <1>1, <1>3, <1>6, <1>9, <1>13

LEMMA UngroupedDropped ==
  ASSUME NEW t \in Types, NEW l \in Seq(Entities(t)), NEW id, NEW g
  PROVE  Ungrouped(Dropped(l, id), g) = Dropped(Ungrouped(l, g), id)
<1>1. PICK v : v = Ungrouped(l, g)
  OBVIOUS
<1>2. v \in Seq(Entities(t)) /\ DOMAIN v = DOMAIN l /\ PlacesOf(v, id) = PlacesOf(l, id)
  BY <1>1, UngroupedForm
<1>3. \A k \in DOMAIN l : v[k] = Left(l[k], g)
  BY <1>1, UngroupedForm
<1>4. PICK S \in SUBSET DOMAIN l : S = DOMAIN l \ PlacesOf(l, id)
  OBVIOUS
<1>5. PICK c \in Nat : c = Cardinality(S)
  BY KeptFacts
<1>6. PICK m : m = Kept(l, S)
  OBVIOUS
<1>7. m \in Seq(Entities(t)) /\ Len(m) = c
  BY <1>5, <1>6, KeptFacts
<1>8. \A k \in 1 .. c : Nth(S, k) \in S /\ m[k] = l[Nth(S, k)]
  BY <1>5, <1>6, KeptFacts
<1>9. PICK w : w = Kept(v, S)
  OBVIOUS
<1>10. w \in Seq(Entities(t)) /\ Len(w) = c
  BY <1>2, <1>5, <1>9, KeptFacts
<1>11. \A k \in 1 .. c : w[k] = v[Nth(S, k)]
  BY <1>2, <1>5, <1>9, KeptFacts
<1>12. PICK u : u = Ungrouped(m, g)
  OBVIOUS
<1>13. u \in Seq(Entities(t)) /\ Len(u) = c /\ \A k \in 1 .. c : u[k] = Left(m[k], g)
  BY <1>7, <1>12, UngroupedForm
<1>14. \A k \in 1 .. c : u[k] = w[k]
  BY <1>3, <1>8, <1>11, <1>13
<1>15. u = w
  BY <1>10, <1>13, <1>14, SeqEqual
<1>16. Dropped(l, id) = m /\ Dropped(v, id) = w
  BY <1>2, <1>4, <1>6, <1>9 DEF Dropped
<1> QED
  BY <1>1, <1>12, <1>15, <1>16

LEMMA UngroupedTwo ==
  ASSUME NEW t \in Types, NEW l \in Seq(Entities(t)), NEW g \in Groups, NEW h \in Groups
  PROVE  Ungrouped(Ungrouped(l, g), h) = Ungrouped(Ungrouped(l, h), g)
<1>1. \A x \in Entities(t) : Left(Left(x, g), h) = Left(Left(x, h), g)
  <2> SUFFICES ASSUME NEW x \in Entities(t) PROVE Left(Left(x, g), h) = Left(Left(x, h), g)
    OBVIOUS
  <2>0. g # None /\ h # None
    BY ProjectAssumption
  <2>1. PICK y : y = [x EXCEPT !.group = None]
    OBVIOUS
  <2>2. y.group = None
    BY <2>1 DEF Entities
  <2> QED BY <2>0, <2>1, <2>2 DEF Left
<1>2. ASSUME NEW a, NEW b
      PROVE  /\ Ungrouped(Ungrouped(l, a), b) \in Seq(Entities(t))
             /\ Len(Ungrouped(Ungrouped(l, a), b)) = Len(l)
             /\ \A i \in DOMAIN l : Ungrouped(Ungrouped(l, a), b)[i] = Left(Left(l[i], a), b)
  <2>1. PICK u : u = Ungrouped(l, a)
    OBVIOUS
  <2>2. u \in Seq(Entities(t)) /\ Len(u) = Len(l) /\ DOMAIN u = DOMAIN l
    BY <2>1, UngroupedForm
  <2>3. \A i \in DOMAIN l : u[i] = Left(l[i], a)
    BY <2>1, UngroupedForm
  <2>4. Ungrouped(u, b) \in Seq(Entities(t)) /\ Len(Ungrouped(u, b)) = Len(l)
    BY <2>2, UngroupedForm
  <2>5. \A i \in DOMAIN l : Ungrouped(u, b)[i] = Left(u[i], b)
    BY <2>2, UngroupedForm
  <2> QED BY <2>1, <2>3, <2>4, <2>5
<1>3. PICK u : u = Ungrouped(Ungrouped(l, g), h)
  OBVIOUS
<1>4. PICK v : v = Ungrouped(Ungrouped(l, h), g)
  OBVIOUS
<1>5. u \in Seq(Entities(t)) /\ v \in Seq(Entities(t)) /\ Len(u) = Len(l) /\ Len(v) = Len(l)
  BY <1>2, <1>3, <1>4
<1>6. \A i \in DOMAIN l : u[i] = v[i]
  BY <1>1, <1>2, <1>3, <1>4
<1>7. u = v
  BY <1>5, <1>6, SeqEqual
<1> QED
  BY <1>3, <1>4, <1>7

LEMMA MergedLeft ==
  ASSUME NEW t \in Types, NEW x \in Entities(t), NEW patch \in Patches[t], NEW g \in Groups,
         ~("group" \in DOMAIN patch /\ patch.group = g)
  PROVE  Left(MergePatch(x, patch), g) = MergePatch(Left(x, g), patch)
<1>0. g # None
  BY ProjectAssumption
<1>1. PICK y \in Entities(t) : y = Left(x, g)
  BY LeftFacts
<1>2. y.id = x.id /\ y.shape = x.shape /\ y.group = IF x.group = g THEN None ELSE x.group
  BY <1>1, LeftFacts
<1>3. PICK m \in Entities(t) : m = MergePatch(x, patch) /\ m.id = x.id /\ m.group = GroupAfter(x.group, patch)
                               /\ m.shape = ShapeAfter(t, x.shape, patch)
  BY MergedType
<1>4. PICK n \in Entities(t) : n = MergePatch(y, patch) /\ n.id = y.id /\ n.group = GroupAfter(y.group, patch)
                               /\ n.shape = ShapeAfter(t, y.shape, patch)
  BY MergedType
<1>5. PICK o \in Entities(t) : o = Left(m, g) /\ o.id = m.id /\ o.shape = m.shape
                               /\ o.group = IF m.group = g THEN None ELSE m.group
  BY LeftFacts
<1>6. o.group = n.group
  BY <1>0, <1>2, <1>3, <1>4, <1>5 DEF GroupAfter
<1>7. o = n
  BY <1>2, <1>3, <1>4, <1>5, <1>6, SameEntity
<1> QED
  BY <1>1, <1>3, <1>4, <1>5, <1>7

(* The deletion of a group and an edit that puts nothing into it.          *)
LEMMA ActedUngrouped ==
  ASSUME NEW op \in EntityEdits, NEW t \in Types, t = op.type, NEW l \in Seq(Entities(t)), NEW g \in Groups, ~PutsInto(op, g)
  PROVE  Ungrouped(Acted(l, op), g) = Acted(Ungrouped(l, g), op)
<1>0. PICK v \in Seq(Entities(t)) : v = Ungrouped(l, g)
  BY UngroupedForm
<1>a. \A id : PlacesOf(v, id) = PlacesOf(l, id) /\ IndexOf(v, id) = IndexOf(l, id)
  BY <1>0, UngroupedForm
<1>b. \A i \in DOMAIN l : v[i] = Left(l[i], g)
  BY <1>0, UngroupedForm
<1>1. CASE op.kind = "entity.delete"
  BY <1>1, UngroupedDropped DEF Acted
<1>2. CASE op.kind = "entity.patch"
  <2>1. PICK patch \in Patches[t] : patch = op.patch
    BY <1>2, EditForms
  <2>2. ~("group" \in DOMAIN patch /\ patch.group = g)
    BY <1>2, <2>1 DEF PutsInto
  <2>3. PICK id : id = op.id
    OBVIOUS
  <2>4. Acted(l, op) = Patched(l, id, patch) /\ Acted(v, op) = Patched(v, id, patch)
    BY <1>2, <2>1, <2>3 DEF Acted
  <2>5. CASE IndexOf(l, id) = 0
    BY <1>0, <1>a, <2>4, <2>5 DEF Patched
  <2>6. CASE IndexOf(l, id) # 0
    <3>1. PICK i \in DOMAIN l : i = IndexOf(l, id) /\ i = IndexOf(v, id)
      BY <1>a, <2>6, IndexFacts
    <3>2. PICK x \in Entities(t) : x = l[i]
      OBVIOUS
    <3>3. PICK e \in Entities(t) : e = MergePatch(x, patch)
      BY MergedType
    <3>4. Acted(l, op) = [l EXCEPT ![i] = e]
      BY <2>4, <2>6, <3>1, <3>2, <3>3 DEF Patched
    <3>5. Acted(v, op) = [v EXCEPT ![i] = MergePatch(v[i], patch)]
      BY <2>4, <2>6, <3>1 DEF Patched
    <3>6. MergePatch(v[i], patch) = Left(e, g)
      BY <1>b, <2>2, <3>2, <3>3, MergedLeft
    <3>7. Ungrouped([l EXCEPT ![i] = e], g) = [v EXCEPT ![i] = Left(e, g)]
      BY <1>0, UngroupedReplaced
    <3> QED BY <1>0, <3>4, <3>5, <3>6, <3>7
  <2> QED BY <2>5, <2>6
<1>3. CASE op.kind = "entity.upsert"
  <2>1. PICK e \in Entities(t) : e = op.entity /\ e.group # g
    BY <1>3, EditForms DEF PutsInto
  <2>2. Left(e, g) = e
    BY <2>1 DEF Left
  <2>3. CASE ~Spaced(op)
    <3>1. Acted(l, op) = Upserted(l, e) /\ Acted(v, op) = Upserted(v, e)
      BY <1>3, <2>1, <2>3 DEF Acted
    <3>2. CASE IndexOf(l, e.id) = 0
      <4>1. Acted(l, op) = Append(l, e) /\ Acted(v, op) = Append(v, e)
        BY <1>a, <3>1, <3>2 DEF Upserted
      <4>2. Ungrouped(Append(l, e), g) = Append(v, e)
        BY <1>0, <2>2, UngroupedAppended
      <4> QED BY <1>0, <4>1, <4>2
    <3>3. CASE IndexOf(l, e.id) # 0
      <4>1. PICK i \in DOMAIN l : i = IndexOf(l, e.id) /\ i = IndexOf(v, e.id)
        BY <1>a, <3>3, IndexFacts
      <4>2. Acted(l, op) = [l EXCEPT ![i] = e] /\ Acted(v, op) = [v EXCEPT ![i] = e]
        BY <3>1, <3>3, <4>1 DEF Upserted
      <4>3. Ungrouped([l EXCEPT ![i] = e], g) = [v EXCEPT ![i] = Left(e, g)]
        BY <1>0, UngroupedReplaced
      <4> QED BY <1>0, <2>2, <4>2, <4>3
    <3> QED BY <3>2, <3>3
  <2>4. CASE Spaced(op)
    <3>1. PICK f \in Entities(t) : f = ParsedEntity(t, e) /\ f.group = e.group
      BY ParsedEntityType
    <3>2. Acted(l, op) = Append(l, f) /\ Acted(v, op) = Append(v, f)
      BY <1>3, <2>1, <2>4, <3>1 DEF Acted
    <3>3. Left(f, g) = f
      BY <2>1, <3>1 DEF Left
    <3>4. Ungrouped(Append(l, f), g) = Append(v, f)
      BY <1>0, <3>3, UngroupedAppended
    <3> QED BY <1>0, <3>2, <3>4
  <2> QED BY <2>3, <2>4
<1> QED
  BY <1>1, <1>2, <1>3, EditForms

(* A deletion and a patch of one entity.                                   *)
LEMMA DeletedPatched ==
  ASSUME NEW t \in Types, NEW l \in Seq(Entities(t)), NEW id, NEW patch \in Patches[t]
  PROVE  /\ Dropped(Patched(l, id, patch), id) = Dropped(l, id)
         /\ Patched(Dropped(l, id), id, patch) = Dropped(l, id)
<1>1. PICK m \in Seq(Entities(t)) : m = Patched(l, id, patch)
  BY PatchedType
<1>2. DOMAIN m = DOMAIN l /\ \A k \in DOMAIN l : m[k].id = l[k].id
  BY <1>1, PatchedEntries
<1>3. PlacesOf(m, id) = PlacesOf(l, id)
  BY <1>2, SamePlaces
<1>4. \A k \in DOMAIN l \ PlacesOf(l, id) : m[k] = l[k]
  <2>1. CASE IndexOf(l, id) = 0
    BY <1>1, <2>1 DEF Patched
  <2>2. CASE IndexOf(l, id) # 0
    <3>1. PICK i \in PlacesOf(l, id) : i = IndexOf(l, id)
      BY <2>2, IndexFacts DEF PlacesOf
    <3>2. m = [l EXCEPT ![i] = MergePatch(l[i], patch)]
      BY <1>1, <2>2, <3>1 DEF Patched
    <3> QED BY <3>2
  <2> QED BY <2>1, <2>2
<1>5. PICK S \in SUBSET DOMAIN l : S = DOMAIN l \ PlacesOf(l, id)
  OBVIOUS
<1>6. Kept(m, S) = Kept(l, S)
  <2>1. PICK c \in Nat : c = Cardinality(S)
    BY KeptFacts
  <2>2. \A k \in 1 .. c : Nth(S, k) \in S
    BY <2>1, KeptFacts
  <2>3. Kept(m, S) = [k \in 1 .. c |-> m[Nth(S, k)]] /\ Kept(l, S) = [k \in 1 .. c |-> l[Nth(S, k)]]
    BY <2>1 DEF Kept
  <2>4. [k \in 1 .. c |-> m[Nth(S, k)]] = [k \in 1 .. c |-> l[Nth(S, k)]]
    BY <1>4, <1>5, <2>2
  <2> QED BY <2>3, <2>4
<1>7. Dropped(m, id) = Dropped(l, id)
  BY <1>2, <1>3, <1>5, <1>6 DEF Dropped
<1>8. Patched(Dropped(l, id), id, patch) = Dropped(l, id)
  <2>1. PICK d \in Seq(Entities(t)) : d = Dropped(l, id)
    BY DroppedType
  <2>2. \A x : Has(d, x) => x.id # id
    BY <2>1, DroppedEntries
  <2>3. PlacesOf(d, id) = {}
    BY <2>2 DEF Has, PlacesOf
  <2>4. IndexOf(d, id) = 0
    BY <2>3, IndexFacts
  <2> QED BY <2>1, <2>4 DEF Patched
<1> QED
  BY <1>1, <1>7, <1>8

(* Patches of different fields of one entity.                              *)
LEMMA PatchedPatched ==
  ASSUME NEW t \in Types, NEW l \in Seq(Entities(t)), NEW id, NEW a \in Patches[t], NEW b \in Patches[t],
         Disjoint(a, b)
  PROVE  Patched(Patched(l, id, a), id, b) = Patched(Patched(l, id, b), id, a)
<1>1. \A x \in Entities(t) : MergePatch(MergePatch(x, a), b) = MergePatch(MergePatch(x, b), a)
  BY MergesCommute
<1>2. CASE IndexOf(l, id) = 0
  BY <1>2 DEF Patched
<1>3. CASE IndexOf(l, id) # 0
  <2>1. PICK i \in DOMAIN l : i = IndexOf(l, id)
    BY <1>3, IndexFacts
  <2>2. PICK x \in Entities(t) : x = l[i]
    OBVIOUS
  <2>3. ASSUME NEW c \in Patches[t], NEW d \in Patches[t]
        PROVE  Patched(Patched(l, id, c), id, d) = [l EXCEPT ![i] = MergePatch(MergePatch(x, c), d)]
    <3>1. PICK m \in Seq(Entities(t)) : m = Patched(l, id, c)
      BY PatchedType
    <3>2. m = [l EXCEPT ![i] = MergePatch(x, c)]
      BY <1>3, <2>1, <2>2, <3>1 DEF Patched
    <3>3. DOMAIN m = DOMAIN l /\ m[i] = MergePatch(x, c)
      BY <3>2
    <3>4. \A k \in DOMAIN l : m[k].id = l[k].id
      BY <3>1, PatchedEntries
    <3>5. IndexOf(m, id) = i /\ i # 0
      BY <1>3, <2>1, <3>3, <3>4, SamePlaces
    <3>6. Patched(m, id, d) = [m EXCEPT ![i] = MergePatch(m[i], d)]
      BY <3>5 DEF Patched
    <3>7. [m EXCEPT ![i] = MergePatch(m[i], d)] = [l EXCEPT ![i] = MergePatch(MergePatch(x, c), d)]
      BY <3>2, <3>3
    <3> QED BY <3>1, <3>6, <3>7
  <2> QED BY <1>1, <2>2, <2>3
<1> QED
  BY <1>2, <1>3

\* What becomes of the list of type u when op is accepted.
Effect(l, u, op) ==
    IF u = op.type THEN Acted(l, op)
    ELSE IF op.kind = "entity.delete" /\ op.type = "group" THEN Ungrouped(l, op.id) ELSE l

LEMMA EffectType ==
  ASSUME NEW op \in EntityEdits, NEW u \in Types, NEW l \in Seq(Entities(u))
  PROVE  Effect(l, u, op) \in Seq(Entities(u))
BY ActedType, UngroupedForm DEF Effect

LEMMA IndependentForms ==
  ASSUME NEW a, NEW b, Independent(a, b), a.type = b.type
  PROVE  \/ EditId(a) # EditId(b)
         \/ a.kind = "entity.patch" /\ b.kind = "entity.delete"
         \/ a.kind = "entity.delete" /\ b.kind = "entity.patch"
         \/ a.kind = "entity.patch" /\ b.kind = "entity.patch" /\ Disjoint(a.patch, b.patch)
BY DEF Independent, EditId

(* Whatever the list, two such edits get the same of it in both orders.    *)
LEMMA EffectsCommute ==
  ASSUME NEW a \in EntityEdits, NEW b \in EntityEdits, Independent(a, b), Apart(a, b), Apart(b, a),
         NEW u \in Types, NEW l \in Seq(Entities(u)), NEW id
  PROVE  Alike(Effect(Effect(l, u, a), u, b), Effect(Effect(l, u, b), u, a), id)
<1> DEFINE ab == Effect(Effect(l, u, a), u, b)
           ba == Effect(Effect(l, u, b), u, a)
<1>1. ab \in Seq(Entities(u)) /\ ba \in Seq(Entities(u))
  BY EffectType
<1>2. ab = ba => Alike(ab, ba, id)
  <2> HIDE DEF ab, ba
  <2> QED BY <1>1, AlikeSame
<1>3. CASE a.type = u /\ b.type = u /\ EditId(a) # EditId(b)
  <2>1. PICK la \in Seq(Entities(u)) : la = Acted(l, a)
    BY <1>3, ActedType
  <2>2. PICK lb \in Seq(Entities(u)) : lb = Acted(l, b)
    BY <1>3, ActedType
  <2>3. PICK lab \in Seq(Entities(u)) : lab = Acted(la, b)
    BY <1>3, ActedType
  <2>4. PICK lba \in Seq(Entities(u)) : lba = Acted(lb, a)
    BY <1>3, ActedType
  <2>5. Alike(lab, lba, id)
    <3>1. CASE id # EditId(a) /\ id # EditId(b)
      <4>1. Alike(lab, la, id) /\ Alike(la, l, id) /\ Alike(lba, lb, id) /\ Alike(lb, l, id)
        BY <1>3, <2>1, <2>2, <2>3, <2>4, <3>1, ActedElsewhere
      <4>2. Alike(lab, l, id) /\ Alike(lba, l, id)
        BY <4>1, AlikeTransitive
      <4>3. Alike(l, lba, id)
        BY <4>2, AlikeSymmetric
      <4> QED BY <4>2, <4>3, AlikeTransitive
    <3>2. CASE id = EditId(a)
      <4>1. Alike(lab, la, id) /\ Alike(lb, l, id)
        BY <1>3, <2>2, <2>3, <3>2, ActedElsewhere
      <4>2. Alike(l, lb, id)
        BY <4>1, AlikeSymmetric
      <4>3. Alike(la, lba, id)
        BY <1>3, <2>1, <2>4, <3>2, <4>2, ActedThere
      <4> QED BY <4>1, <4>3, AlikeTransitive
    <3>3. CASE id = EditId(b)
      <4>1. Alike(lba, lb, id) /\ Alike(la, l, id)
        BY <1>3, <2>1, <2>4, <3>3, ActedElsewhere
      <4>2. Alike(lab, lb, id)
        BY <1>3, <2>2, <2>3, <3>3, <4>1, ActedThere
      <4>3. Alike(lb, lba, id)
        BY <4>1, AlikeSymmetric
      <4> QED BY <4>2, <4>3, AlikeTransitive
    <3> QED BY <3>1, <3>2, <3>3
  <2>6. ab = lab /\ ba = lba
    BY <1>3, <2>1, <2>2, <2>3, <2>4 DEF Effect
  <2> QED BY <2>5, <2>6
<1>4. CASE a.type = u /\ b.type = u /\ EditId(a) = EditId(b)
  <2>0. ab = Acted(Acted(l, a), b) /\ ba = Acted(Acted(l, b), a)
    BY <1>4 DEF Effect
  <2>1. CASE a.kind = "entity.patch" /\ b.kind = "entity.delete"
    <3>1. PICK patch \in Patches[u] : patch = a.patch /\ a.id = b.id
      BY <1>4, <2>1, EditForms
    <3>2. ab = Dropped(Patched(l, a.id, patch), a.id) /\ ba = Patched(Dropped(l, a.id), a.id, patch)
      BY <2>0, <2>1, <3>1 DEF Acted
    <3> QED BY <1>2, <3>2, DeletedPatched
  <2>2. CASE a.kind = "entity.delete" /\ b.kind = "entity.patch"
    <3>1. PICK patch \in Patches[u] : patch = b.patch /\ a.id = b.id
      BY <1>4, <2>2, EditForms
    <3>2. ba = Dropped(Patched(l, a.id, patch), a.id) /\ ab = Patched(Dropped(l, a.id), a.id, patch)
      BY <2>0, <2>2, <3>1 DEF Acted
    <3> QED BY <1>2, <3>2, DeletedPatched
  <2>3. CASE a.kind = "entity.patch" /\ b.kind = "entity.patch" /\ Disjoint(a.patch, b.patch)
    <3>1. a.patch \in Patches[u] /\ b.patch \in Patches[u] /\ a.id = b.id
      BY <1>4, <2>3, EditForms
    <3>2. ab = Patched(Patched(l, a.id, a.patch), a.id, b.patch) /\ ba = Patched(Patched(l, a.id, b.patch), a.id, a.patch)
      BY <2>0, <2>3, <3>1 DEF Acted
    <3> QED BY <1>2, <2>3, <3>1, <3>2, PatchedPatched
  <2> QED BY <1>4, <2>1, <2>2, <2>3, IndependentForms
<1>5. CASE a.type = u /\ b.type # u
  <2>1. CASE b.kind = "entity.delete" /\ b.type = "group"
    <3>1. PICK g \in Groups : g = b.id /\ ~PutsInto(a, g)
      BY <2>1, EditForms DEF Apart, Uuids
    <3>2. ab = Ungrouped(Acted(l, a), g) /\ ba = Acted(Ungrouped(l, g), a)
      BY <1>5, <2>1, <3>1 DEF Effect
    <3> QED BY <1>2, <1>5, <3>1, <3>2, ActedUngrouped
  <2>2. CASE ~(b.kind = "entity.delete" /\ b.type = "group")
    <3>1. ab = ba
      BY <1>5, <2>2 DEF Effect
    <3> QED BY <1>2, <3>1
  <2> QED BY <2>1, <2>2
<1>6. CASE a.type # u /\ b.type = u
  <2>1. CASE a.kind = "entity.delete" /\ a.type = "group"
    <3>1. PICK g \in Groups : g = a.id /\ ~PutsInto(b, g)
      BY <2>1, EditForms DEF Apart, Uuids
    <3>2. ba = Ungrouped(Acted(l, b), g) /\ ab = Acted(Ungrouped(l, g), b)
      BY <1>6, <2>1, <3>1 DEF Effect
    <3> QED BY <1>2, <1>6, <3>1, <3>2, ActedUngrouped
  <2>2. CASE ~(a.kind = "entity.delete" /\ a.type = "group")
    <3>1. ab = ba
      BY <1>6, <2>2 DEF Effect
    <3> QED BY <1>2, <3>1
  <2> QED BY <2>1, <2>2
<1>7. CASE a.type # u /\ b.type # u
  <2>1. CASE a.kind = "entity.delete" /\ a.type = "group" /\ b.kind = "entity.delete" /\ b.type = "group"
    <3>1. a.id \in Groups /\ b.id \in Groups
      BY <2>1, EditForms DEF Uuids
    <3>2. ab = Ungrouped(Ungrouped(l, a.id), b.id) /\ ba = Ungrouped(Ungrouped(l, b.id), a.id)
      BY <1>7, <2>1 DEF Effect
    <3> QED BY <1>2, <3>1, <3>2, UngroupedTwo
  <2>2. CASE ~(a.kind = "entity.delete" /\ a.type = "group" /\ b.kind = "entity.delete" /\ b.type = "group")
    <3>1. ab = ba
      BY <1>7, <2>2 DEF Effect
    <3> QED BY <1>2, <3>1
  <2> QED BY <2>1, <2>2
<1> QED
  BY <1>3, <1>4, <1>5, <1>6, <1>7

\* No stored id has blanks.
LEMMA SpacedAbsent ==
  ASSUME NEW p, Stored(p), NEW op \in EntityEdits, op.kind = "entity.upsert", Spaced(op)
  PROVE  IndexOf(p[op.type], op.entity.id) = 0
<1>1. op.type = "drawable" /\ op.entity.id \in {Padded(d) : d \in Drawables}
  BY DEF Spaced, SendsUnpadded
<1>2. op.entity.id \notin Drawables \cup Loose
  BY <1>1, PaddedAssumption
<1>3. PICK l \in Seq(Entities("drawable")) : l = p["drawable"]
  BY ListOfProject DEF Stored, Types
<1>4. Unpadded(p)
  BY StoredUnpadded
<1>5. PlacesOf(l, op.entity.id) = {}
  BY <1>2, <1>3, <1>4 DEF Unpadded, Has, PlacesOf
<1> QED
  BY <1>1, <1>3, <1>5, IndexFacts

LEMMA ApplyEdit ==
  ASSUME NEW p, Stored(p), NEW op \in EntityEdits, Accepts(p, op)
  PROVE  Stored(Apply(p, op)) /\ \A u \in Types : Apply(p, op)[u] = Effect(p[u], u, op)
<1>1. p \in Projects /\ Unpadded(p) /\ op \in LeafOps /\ op \in Operations
  BY StoredUnpadded, EditForms DEF Stored, Operations
<1>2. PICK q \in Projects : q = ApplyLeaf(p, op) /\ q = Reduced(p, op) /\ Made(p, q, op)
  BY <1>1, LeafMakes, ReducedLeaf
<1>3. Apply(p, op) = Parsed(q) /\ Stored(Apply(p, op))
  BY <1>1, <1>2, ApplyStored DEF Apply
<1>4. op.kind # "project.patch" /\ op.kind # "order.set"
  BY EditForms
<1>5. ASSUME NEW u \in Types, u # op.type PROVE q[u] = Effect(p[u], u, op)
  BY <1>2, <1>4, <1>5 DEF Made, Effect
<1>6. ~Spaced(op) => q[op.type] = Acted(p[op.type], op)
  BY <1>2, <1>4 DEF Made, Acted
<1>7. CASE ~Spaced(op)
  <2>1. \A u \in Types : q[u] = Effect(p[u], u, op)
    BY <1>5, <1>6, <1>7 DEF Effect
  <2>2. Unpadded(q)
    <3>1. CASE SendsUnpadded(op)
      BY <1>1, <1>2, <3>1, LeafUnpadded
    <3>2. CASE op.type # "drawable"
      <4>1. q.drawable = Effect(p.drawable, "drawable", op) /\ "drawable" \in Types
        BY <2>1 DEF Types
      <4>2. CASE q.drawable = p.drawable
        BY <1>1, <4>2 DEF Unpadded
      <4>3. CASE \E g : q.drawable = Ungrouped(p.drawable, g)
        <5>1. PICK g : q.drawable = Ungrouped(p.drawable, g)
          BY <4>3
        <5>2. p.drawable \in Seq(Entities("drawable"))
          BY <1>1, <4>1, ListOfProject
        <5>3. \A x : Has(Ungrouped(p.drawable, g), x) => \E y : Has(p.drawable, y) /\ x.id = y.id
          BY <4>1, <5>2, UngroupedOrigin
        <5> QED BY <1>1, <5>1, <5>3 DEF Unpadded
      <4> QED BY <3>2, <4>1, <4>2, <4>3 DEF Effect
    <3> QED BY <1>7, <3>1, <3>2 DEF Spaced
  <2> QED BY <1>3, <2>1, <2>2, UnpaddedParsed
<1>8. CASE Spaced(op)
  <2>1. PICK e \in Entities("drawable") : e = op.entity /\ op.type = "drawable" /\ op.kind = "entity.upsert"
    BY <1>8, EditForms DEF Spaced, SendsUnpadded
  <2>2. "drawable" \in Types
    BY DEF Types
  <2>3. PICK l \in Seq(Entities("drawable")) : l = p["drawable"]
    BY <1>1, <2>2, ListOfProject
  <2>4. q["drawable"] = Upserted(l, e)
    BY <1>2, <1>4, <2>1, <2>3 DEF Made
  <2>5. PlacesOf(l, e.id) = {}
    <3>1. PICK d \in Drawables : e.id = Padded(d)
      BY <1>8, <2>1 DEF Spaced, SendsUnpadded
    <3>2. e.id \notin Drawables \cup Loose
      BY <3>1, PaddedAssumption
    <3> QED BY <1>1, <2>3, <3>2 DEF Unpadded, Has, PlacesOf
  <2>6. q["drawable"] = Append(l, e)
    BY <2>4, <2>5, IndexFacts DEF Upserted
  <2>7. PICK f \in Entities("drawable") : f = ParsedEntity("drawable", e)
    BY <2>2, ParsedEntityType
  <2>8. PICK r : r = Parsed(q)["drawable"]
    OBVIOUS
  <2>9. r = Append(l, f)
    <3>1. PICK n \in Nat : n = Len(l) /\ DOMAIN l = 1 .. n
      OBVIOUS
    <3>2. PICK m : m = q["drawable"]
      OBVIOUS
    <3>3. Len(m) = n + 1 /\ DOMAIN m = 1 .. n + 1 /\ m[n + 1] = e /\ \A k \in 1 .. n : m[k] = l[k]
      BY <2>6, <3>1, <3>2, AppendProperties
    <3>4. r \in Seq(Entities("drawable"))
      BY <2>2, <2>8, ParsedFacts, ListOfProject
    <3>5. Len(r) = n + 1 /\ \A k \in 1 .. n + 1 : r[k] = ParsedEntity("drawable", m[k])
      BY <2>2, <2>8, <3>2, <3>3, ParsedFacts
    <3>6. PICK w : w = Append(l, f)
      OBVIOUS
    <3>7. w \in Seq(Entities("drawable")) /\ Len(w) = n + 1 /\ w[n + 1] = f /\ \A k \in 1 .. n : w[k] = l[k]
      BY <3>1, <3>6, AppendProperties
    <3>8. \A k \in 1 .. n : ParsedEntity("drawable", l[k]) = l[k]
      BY <2>2, <2>3, <3>1, StoredIds
    <3>9. \A k \in 1 .. n + 1 : r[k] = w[k]
      <4> SUFFICES ASSUME NEW k \in 1 .. n + 1 PROVE r[k] = w[k]
        OBVIOUS
      <4>1. CASE k = n + 1
        BY <2>7, <3>3, <3>5, <3>7, <4>1
      <4>2. CASE k # n + 1
        <5>1. k \in 1 .. n
          BY <4>2
        <5> QED BY <5>1, <3>3, <3>5, <3>7, <3>8
      <4> QED BY <4>1, <4>2
    <3>10. r = w
      BY <3>4, <3>5, <3>7, <3>9, SeqEqual
    <3> QED BY <3>6, <3>10
  <2>10. Acted(l, op) = Append(l, f)
    BY <1>8, <2>1, <2>7 DEF Acted
  <2>11. \A u \in Types \ {"drawable"} : Parsed(q)[u] = q[u] /\ q[u] = Effect(p[u], u, op)
    BY <1>5, <2>1, ParsedFacts
  <2>12. Effect(l, "drawable", op) = Acted(l, op)
    BY <2>1 DEF Effect
  <2> QED BY <1>3, <2>3, <2>8, <2>9, <2>10, <2>11, <2>12
<1> QED
  BY <1>7, <1>8

-----------------------------------------------------------------------------
(* An edit stays acceptable after another's.                               *)

\* l2 has the ids of l.
Keeps(l, l2) == \A x : Has(l, x) => \E y : Has(l2, y) /\ y.id = x.id

LEMMA UpsertedKeeps ==
  ASSUME NEW E, NEW l \in Seq(E), NEW e
  PROVE  Keeps(l, Upserted(l, e))
<1>1. Has(Upserted(l, e), e) /\ \A x : Has(l, x) /\ x.id # e.id => Has(Upserted(l, e), x)
  BY UpsertedEntries
<1> QED
  BY <1>1 DEF Keeps

LEMMA PatchedKeeps ==
  ASSUME NEW t \in Types, NEW l \in Seq(Entities(t)), NEW id, NEW patch \in Patches[t]
  PROVE  Keeps(l, Patched(l, id, patch))
<1>1. DOMAIN Patched(l, id, patch) = DOMAIN l /\ \A k \in DOMAIN l : Patched(l, id, patch)[k].id = l[k].id
  BY PatchedEntries
<1> QED
  BY <1>1 DEF Keeps, Has

\* Only a deletion takes a group away.
LEMMA GroupsStay ==
  ASSUME NEW a \in EntityEdits, NEW l \in Seq(Entities("group")), NEW g, NEW x, Has(l, x), x.id = g,
         ~(a.kind = "entity.delete" /\ a.type = "group" /\ a.id = g)
  PROVE  \E y : Has(Effect(l, "group", a), y) /\ y.id = g
<1>0. "group" \in Types
  BY DEF Types
<1>1. CASE a.type # "group"
  BY <1>1 DEF Effect
<1>2. CASE a.type = "group" /\ a.kind = "entity.delete"
  <2>1. Effect(l, "group", a) = Dropped(l, a.id)
    BY <1>2 DEF Effect, Acted
  <2>2. Has(Dropped(l, a.id), x)
    BY <1>2, DroppedEntries
  <2> QED BY <2>1, <2>2
<1>3. CASE a.type = "group" /\ a.kind = "entity.patch"
  <2>1. a.patch \in Patches["group"]
    BY <1>3, EditForms
  <2>2. Effect(l, "group", a) = Patched(l, a.id, a.patch)
    BY <1>3 DEF Effect, Acted
  <2>3. Keeps(l, Patched(l, a.id, a.patch))
    BY <1>0, <2>1, PatchedKeeps
  <2> QED BY <2>2, <2>3 DEF Keeps
<1>4. CASE a.type = "group" /\ a.kind = "entity.upsert"
  <2>1. Effect(l, "group", a) = Upserted(l, a.entity)
    BY <1>4 DEF Effect, Acted, Spaced
  <2>2. Keeps(l, Upserted(l, a.entity))
    BY UpsertedKeeps
  <2> QED BY <2>1, <2>2 DEF Keeps
<1> QED
  BY <1>1, <1>2, <1>3, <1>4, EditForms

\* What b patches was there before a.
LEMMA PatchedBefore ==
  ASSUME NEW a \in EntityEdits, NEW b \in EntityEdits, Independent(a, b), b.kind = "entity.patch",
         NEW t \in Types, t = b.type, NEW l \in Seq(Entities(t)), PlacesOf(Effect(l, t, a), b.id) # {}
  PROVE  PlacesOf(l, b.id) # {}
<1>1. CASE a.type # t
  <2>1. Effect(l, t, a) = l \/ \E g : Effect(l, t, a) = Ungrouped(l, g)
    BY <1>1 DEF Effect
  <2>2. \A g : PlacesOf(Ungrouped(l, g), b.id) = PlacesOf(l, b.id)
    BY UngroupedForm
  <2> QED BY <2>1, <2>2
<1>2. CASE a.type = t /\ EditId(a) # b.id
  <2>1. Effect(l, t, a) = Acted(l, a) /\ Acted(l, a) \in Seq(Entities(t))
    BY <1>2, ActedType DEF Effect
  <2>2. Alike(Acted(l, a), l, b.id)
    BY <1>2, ActedElsewhere
  <2>3. PICK f : Matches(f, Acted(l, a), l, b.id)
    BY <2>2 DEF Alike
  <2>4. PlacesOf(Acted(l, a), b.id) = {} <=> PlacesOf(l, b.id) = {}
    BY <2>1, <2>3, AlikeFirst
  <2> QED BY <2>1, <2>4
<1>3. CASE a.type = t /\ EditId(a) = b.id
  <2>0. EditId(b) = b.id
    BY EditForms
  <2>1. a.kind = "entity.delete" \/ a.kind = "entity.patch"
    BY <1>3, <2>0, IndependentForms
  <2>2. CASE a.kind = "entity.delete"
    <3>1. Effect(l, t, a) = Dropped(l, a.id)
      BY <1>3, <2>2 DEF Effect, Acted
    <3>2. \A x : Has(Dropped(l, a.id), x) => Has(l, x)
      BY DroppedEntries
    <3>3. \E x : Has(Dropped(l, a.id), x) /\ x.id = b.id
      BY <3>1, IdsFacts
    <3>4. \E x : Has(l, x) /\ x.id = b.id
      BY <3>2, <3>3
    <3> QED BY <3>4, IdsFacts
  <2>3. CASE a.kind = "entity.patch"
    <3>1. a.patch \in Patches[t]
      BY <1>3, <2>3, EditForms
    <3>2. Effect(l, t, a) = Patched(l, a.id, a.patch)
      BY <1>3, <2>3 DEF Effect, Acted
    <3>3. DOMAIN Patched(l, a.id, a.patch) = DOMAIN l /\ \A k \in DOMAIN l : Patched(l, a.id, a.patch)[k].id = l[k].id
      BY <3>1, PatchedEntries
    <3>4. PlacesOf(Patched(l, a.id, a.patch), b.id) = PlacesOf(l, b.id)
      BY <3>3, SamePlaces
    <3> QED BY <3>2, <3>4
  <2> QED BY <2>1, <2>2, <2>3
<1> QED
  BY <1>1, <1>2, <1>3

\* What b patches in m has the shape that it had before a, or that a gave it.
FromBefore(m, l, t, a, b) ==
    \/ m[IndexOf(m, b.id)].shape = l[IndexOf(l, b.id)].shape
    \/ /\ a.kind = "entity.patch" /\ a.type = t /\ a.id = b.id /\ a.patch \in Patches[t]
       /\ m[IndexOf(m, b.id)] = MergePatch(l[IndexOf(l, b.id)], a.patch)

LEMMA ShapeBefore ==
  ASSUME NEW a \in EntityEdits, NEW b \in EntityEdits, Independent(a, b), b.kind = "entity.patch",
         NEW t \in Types, t = b.type, NEW l \in Seq(Entities(t)), NEW m, m = Effect(l, t, a), PlacesOf(m, b.id) # {}
  PROVE  FromBefore(m, l, t, a, b)
<1>0. PlacesOf(l, b.id) # {}
  BY PatchedBefore
<1>i. PICK i \in DOMAIN l : i = IndexOf(l, b.id)
  BY <1>0, IndexFacts
<1>1. CASE a.type # t
  <2>1. CASE m = l
    BY <2>1 DEF FromBefore
  <2>2. CASE \E g : m = Ungrouped(l, g)
    <3>1. PICK g : m = Ungrouped(l, g)
      BY <2>2
    <3>2. IndexOf(m, b.id) = i /\ m[i] = Left(l[i], g)
      BY <1>i, <3>1, UngroupedForm
    <3>3. m[i].shape = l[i].shape
      BY <3>2, LeftFacts
    <3> QED BY <1>i, <3>2, <3>3 DEF FromBefore
  <2> QED BY <1>1, <2>1, <2>2 DEF Effect
<1>2. CASE a.type = t /\ EditId(a) # b.id
  <2>1. m = Acted(l, a) /\ m \in Seq(Entities(t))
    BY <1>2, ActedType DEF Effect
  <2>2. Alike(m, l, b.id)
    BY <1>2, <2>1, ActedElsewhere
  <2>3. PICK f : Matches(f, m, l, b.id)
    BY <2>2 DEF Alike
  <2>4. m[IndexOf(m, b.id)] = l[IndexOf(l, b.id)]
    BY <2>1, <2>3, AlikeFirst
  <2> QED BY <2>4 DEF FromBefore
<1>3. CASE a.type = t /\ EditId(a) = b.id
  <2>0. EditId(b) = b.id
    BY EditForms
  <2>1. a.kind = "entity.delete" \/ a.kind = "entity.patch"
    BY <1>3, <2>0, IndependentForms
  <2>2. CASE a.kind = "entity.delete"
    <3>1. m = Dropped(l, b.id)
      BY <1>3, <2>2, EditForms DEF Effect, Acted
    <3>2. \A x : Has(m, x) => x.id # b.id
      BY <3>1, DroppedEntries
    <3> QED BY <3>2 DEF Has, PlacesOf
  <2>3. CASE a.kind = "entity.patch"
    <3>1. a.patch \in Patches[t] /\ a.id = b.id
      BY <1>3, <2>3, EditForms
    <3>2. m = Patched(l, b.id, a.patch)
      BY <1>3, <2>3, <3>1 DEF Effect, Acted
    <3>3. DOMAIN m = DOMAIN l /\ \A k \in DOMAIN l : m[k].id = l[k].id
      BY <3>1, <3>2, PatchedEntries
    <3>4. IndexOf(m, b.id) = i /\ i # 0
      BY <1>0, <1>i, <3>3, SamePlaces, IndexFacts
    <3>5. m = [l EXCEPT ![i] = MergePatch(l[i], a.patch)]
      BY <1>i, <3>2, <3>4 DEF Patched
    <3>6. m[i] = MergePatch(l[i], a.patch)
      BY <3>5
    <3> QED BY <1>3, <1>i, <2>3, <3>1, <3>4, <3>6 DEF FromBefore
  <2> QED BY <2>1, <2>2, <2>3
<1> QED
  BY <1>1, <1>2, <1>3

\* An upsert that finds no entity of its id found none before a.
LEMMA AbsentBefore ==
  ASSUME NEW p, Stored(p), NEW a \in EntityEdits, NEW b \in EntityEdits, Independent(a, b), b.kind = "entity.upsert",
         NEW t \in Types, t = b.type, IndexOf(Effect(p[t], t, a), b.entity.id) = 0
  PROVE  IndexOf(p[t], b.entity.id) = 0
<1>1. PICK l \in Seq(Entities(t)) : l = p[t]
  BY ListOfProject DEF Stored
<1>2. PICK m \in Seq(Entities(t)) : m = Effect(l, t, a)
  BY EffectType
<1>3. PICK id : id = b.entity.id
  OBVIOUS
<1>4. PlacesOf(m, id) = {}
  BY <1>1, <1>2, <1>3, IndexFacts
<1>5. CASE Spaced(b)
  BY <1>5, SpacedAbsent
<1>6. CASE ~Spaced(b) /\ a.type # t
  <2>1. m = l \/ \E g : m = Ungrouped(l, g)
    BY <1>2, <1>6 DEF Effect
  <2>2. \A g : PlacesOf(Ungrouped(l, g), id) = PlacesOf(l, id)
    BY UngroupedForm
  <2> QED BY <1>1, <1>3, <1>4, <2>1, <2>2, IndexFacts
<1>7. CASE ~Spaced(b) /\ a.type = t
  <2>1. EditId(b) = id /\ EditId(a) # id
    BY <1>3, <1>7, EditForms, IndependentForms
  <2>2. m = Acted(l, a)
    BY <1>2, <1>7 DEF Effect
  <2>3. Alike(m, l, id)
    BY <1>7, <2>1, <2>2, ActedElsewhere
  <2>4. PICK f : Matches(f, m, l, id)
    BY <2>3 DEF Alike
  <2>5. PlacesOf(l, id) = {}
    BY <1>4, <2>4, AlikeFirst
  <2> QED BY <1>1, <1>3, <2>5, IndexFacts
<1> QED
  BY <1>5, <1>6, <1>7

\* Only an upsert that adds makes a list longer.
LEMMA EffectLength ==
  ASSUME NEW p, Stored(p), NEW a \in EntityEdits, NEW t \in Types
  PROVE  /\ Len(p[t]) \in Nat /\ Len(Effect(p[t], t, a)) \in Nat
         /\ \/ Len(Effect(p[t], t, a)) <= Len(p[t])
            \/ a.type = t /\ Adds(p, a) /\ Len(Effect(p[t], t, a)) = Len(p[t]) + 1
<1>1. PICK l \in Seq(Entities(t)) : l = p[t]
  BY ListOfProject DEF Stored
<1>2. PICK m \in Seq(Entities(t)) : m = Effect(l, t, a)
  BY EffectType
<1>3. Len(l) \in Nat /\ Len(m) \in Nat
  OBVIOUS
<1>4. CASE a.type # t
  <2>1. m = l \/ \E g : m = Ungrouped(l, g)
    BY <1>2, <1>4 DEF Effect
  <2>2. Len(m) = Len(l)
    BY <2>1, UngroupedFacts
  <2> QED BY <1>1, <1>2, <1>3, <2>2
<1>5. CASE a.type = t /\ a.kind = "entity.delete"
  <2>1. m = Dropped(l, a.id)
    BY <1>2, <1>5 DEF Effect, Acted
  <2>2. Len(m) <= Len(l)
    BY <2>1, DroppedLength
  <2> QED BY <1>1, <1>2, <1>3, <2>2
<1>6. CASE a.type = t /\ a.kind = "entity.patch"
  <2>1. m = Patched(l, a.id, a.patch) /\ a.patch \in Patches[t]
    BY <1>2, <1>6, EditForms DEF Effect, Acted
  <2>2. DOMAIN m = DOMAIN l
    BY <2>1, PatchedEntries
  <2>3. Len(m) = Len(l)
    BY <2>2
  <2> QED BY <1>1, <1>2, <1>3, <2>3
<1>7. CASE a.type = t /\ a.kind = "entity.upsert"
  <2>1. PICK e \in Entities(t) : e = a.entity
    BY <1>7, EditForms
  <2>2. CASE ~Spaced(a)
    <3>1. m = Upserted(l, e)
      BY <1>2, <1>7, <2>1, <2>2 DEF Effect, Acted
    <3>2. Len(m) = IF IndexOf(l, e.id) = 0 THEN Len(l) + 1 ELSE Len(l)
      BY <3>1, UpsertedLength
    <3> QED BY <1>1, <1>2, <1>3, <1>7, <2>1, <3>2 DEF Adds
  <2>3. CASE Spaced(a)
    <3>1. IndexOf(p[t], a.entity.id) = 0
      BY <1>7, <2>3, SpacedAbsent
    <3>2. m = Append(l, ParsedEntity(t, e))
      BY <1>2, <1>7, <2>1, <2>3 DEF Effect, Acted
    <3>3. Len(m) = Len(l) + 1
      BY <3>2
    <3> QED BY <1>1, <1>2, <1>3, <1>7, <3>1, <3>3 DEF Adds
  <2> QED BY <2>2, <2>3
<1> QED
  BY <1>4, <1>5, <1>6, <1>7, EditForms

\* What is accepted alone is accepted after an independent edit.
LEMMA LaterAccepted ==
  ASSUME NEW p, Stored(p), NEW a \in EntityEdits, NEW b \in EntityEdits, Accepts(p, a), Accepts(p, b),
         Independent(a, b), Apart(a, b), Room(p, a, b), Fits(p, a, b)
  PROVE  Accepts(Apply(p, a), b)
<1>1. PICK q : q = Apply(p, a) /\ Stored(q) /\ \A u \in Types : q[u] = Effect(p[u], u, a)
  BY ApplyEdit
<1>2. b \in LeafOps /\ p \in Projects /\ q \in Projects /\ Parses(p) /\ Parses(q)
  BY <1>1, EditForms DEF Stored
<1>3. PICK r \in Projects : r = ApplyLeaf(q, b) /\ r = Reduced(q, b) /\ Made(q, r, b)
  BY <1>2, LeafMakes, ReducedLeaf
<1>4. PICK s \in Projects : s = ApplyLeaf(p, b) /\ s = Reduced(p, b) /\ Made(p, s, b)
  BY <1>2, LeafMakes, ReducedLeaf
<1>5. Parses(s)
  BY <1>4 DEF Accepts
<1>6. PICK t \in Types : t = b.type
  BY EditForms
<1>7. "group" \in Types /\ q["group"] = q.group /\ p["group"] = p.group /\ r["group"] = r.group /\ s["group"] = s.group
  BY DEF Types
<1>8. \A u \in Types : p[u] \in Seq(Entities(u)) /\ q[u] \in Seq(Entities(u))
  BY <1>2, ListOfProject
<1>9. /\ q.name \in Names
      /\ \A u \in Types : Len(q[u]) <= Limit[u]
      /\ \A u \in Types : \A x : Has(q[u], x) => x.shape \in Shapes[u]
      /\ DistinctIds(q.group) /\ DistinctIds(q.tattoo)
      /\ \A u \in Types \ {"group"} : \A x : Has(q[u], x) => GroupKnown(q, x.group)
  BY <1>2, ParsesEntries
<1>10. /\ \A u \in Types : Len(s[u]) <= Limit[u]
       /\ \A u \in Types : \A x : Has(s[u], x) => x.shape \in Shapes[u]
       /\ \A u \in Types \ {"group"} : \A x : Has(s[u], x) => GroupKnown(s, x.group)
  BY <1>5, ParsesEntries
<1>11. b.kind # "project.patch" /\ b.kind # "order.set" /\ r.name = q.name
  BY <1>3, EditForms DEF Made
\* A group that b puts something into is still there.
<1>12. ASSUME NEW g, PutsInto(b, g), GroupKnown(p, g) PROVE GroupKnown(q, g)
  <2>1. CASE g = None
    BY <2>1 DEF GroupKnown
  <2>2. CASE g # None
    <3>1. PICK x : Has(p.group, x) /\ x.id = g
      BY <1>12, <2>2 DEF GroupKnown
    <3>2. ~(a.kind = "entity.delete" /\ a.type = "group" /\ a.id = g)
      BY <1>12 DEF Apart
    <3>3. p.group \in Seq(Entities("group"))
      BY <1>7, <1>8
    <3>4. \E y : Has(Effect(p.group, "group", a), y) /\ y.id = g
      BY <3>1, <3>2, <3>3, GroupsStay
    <3>5. q.group = Effect(p.group, "group", a)
      BY <1>1, <1>7
    <3> QED BY <3>4, <3>5 DEF GroupKnown
  <2> QED BY <2>1, <2>2
\* What r has is one entity that b makes, or was there.
<1>13. ASSUME NEW e, \A x : Has(r[t], x) => x = e \/ Has(q[t], x),
              e.shape \in Shapes[t], t # "group" => GroupKnown(q, e.group), Len(r[t]) <= Limit[t],
              DistinctIds(q[t]) => DistinctIds(r[t]), Keeps(q[t], r[t]),
              \A u \in Types \ {t} : r[u] = q[u]
       PROVE  Parses(r)
  <2>1. \A g : GroupKnown(q, g) => GroupKnown(r, g)
    <3>1. Keeps(q.group, r.group)
      <4>1. CASE t = "group"
        BY <1>7, <1>13, <4>1
      <4>2. CASE t # "group"
        BY <1>7, <1>13, <4>2 DEF Keeps
      <4> QED BY <4>1, <4>2
    <3> QED BY <3>1 DEF Keeps, GroupKnown
  <2>2. \A u \in Types : \A x : Has(r[u], x) => x.shape \in Shapes[u]
    BY <1>9, <1>13
  <2>3. DistinctIds(r.group) /\ DistinctIds(r.tattoo)
    <3>1. "tattoo" \in Types /\ q["tattoo"] = q.tattoo /\ r["tattoo"] = r.tattoo
      BY DEF Types
    <3>2. \A u \in Types : DistinctIds(q[u]) => DistinctIds(r[u])
      BY <1>13
    <3> QED BY <1>7, <1>9, <3>1, <3>2
  <2>4. \A u \in Types \ {"group"} : \A x : Has(r[u], x) => GroupKnown(r, x.group)
    <3> SUFFICES ASSUME NEW u \in Types \ {"group"}, NEW x, Has(r[u], x) PROVE GroupKnown(q, x.group)
      BY <2>1
    <3>1. CASE Has(q[u], x)
      BY <1>9, <3>1
    <3>2. CASE ~Has(q[u], x)
      BY <1>13, <3>2
    <3> QED BY <3>1, <3>2
  <2>5. \A u \in Types : Len(r[u]) <= Limit[u]
    BY <1>9, <1>13
  <2> QED BY <1>9, <1>11, <2>2, <2>3, <2>4, <2>5, ParsesEntries
<1>14. CASE b.kind = "entity.delete"
  <2>1. b.id \in Uuids(t)
    BY <1>6, <1>14, EditForms
  <2>2. r.name = q.name /\ r[t] = Dropped(q[t], b.id)
        /\ \A u \in Types \ {t} : r[u] = IF t = "group" THEN Ungrouped(q[u], b.id) ELSE q[u]
    BY <1>3, <1>6, <1>14 DEF Made
  <2> QED BY <1>1, <1>3, <2>1, <2>2, DeletionParses DEF Accepts
<1>15. CASE b.kind = "entity.upsert"
  <2>1. PICK e \in Entities(t) : e = b.entity
    BY <1>6, <1>15, EditForms
  <2>2. r[t] = Upserted(q[t], e) /\ s[t] = Upserted(p[t], e)
        /\ \A u \in Types \ {t} : r[u] = q[u] /\ s[u] = p[u]
    BY <1>3, <1>4, <1>6, <1>15, <2>1 DEF Made
  <2>3. Has(s[t], e)
    BY <1>8, <2>2, UpsertedEntries
  <2>4. e.shape \in Shapes[t]
    BY <1>10, <2>3
  <2>5. t # "group" => GroupKnown(q, e.group)
    <3> SUFFICES ASSUME t # "group" PROVE GroupKnown(q, e.group)
      OBVIOUS
    <3>1. GroupKnown(s, e.group) /\ s.group = p.group
      BY <1>7, <1>10, <2>2, <2>3
    <3>2. GroupKnown(p, e.group)
      BY <3>1 DEF GroupKnown
    <3>3. PutsInto(b, e.group)
      BY <1>15, <2>1 DEF PutsInto
    <3> QED BY <1>12, <3>2, <3>3
  <2>6. (\A x : Has(r[t], x) => x = e \/ Has(q[t], x)) /\ (DistinctIds(q[t]) => DistinctIds(r[t]))
    BY <1>8, <2>2, UpsertedEntries
  <2>7. Keeps(q[t], r[t])
    BY <1>8, <2>2, UpsertedKeeps
  <2>9. Len(r[t]) <= Limit[t]
    <3>1. PICK n \in Nat, m \in Nat, k \in Nat : n = Len(p[t]) /\ m = Len(q[t]) /\ k = Limit[t]
      BY <1>8, ProjectAssumption
    <3>2. m <= k
      BY <1>9, <3>1
    <3>3. CASE IndexOf(q[t], e.id) # 0
      <4>1. Len(r[t]) = m
        BY <1>8, <2>2, <3>1, <3>3, UpsertedLength
      <4> QED BY <3>1, <3>2, <4>1
    <3>4. CASE IndexOf(q[t], e.id) = 0
      <4>1. IndexOf(p[t], e.id) = 0
        BY <1>1, <1>6, <1>15, <2>1, <3>4, AbsentBefore
      <4>2. Len(r[t]) = m + 1 /\ Len(s[t]) = n + 1
        BY <1>8, <2>2, <3>1, <3>4, <4>1, UpsertedLength
      <4>3. n + 1 <= k
        BY <1>10, <3>1, <4>2
      <4>4. m <= n \/ (a.type = t /\ Adds(p, a) /\ m = n + 1)
        BY <1>1, <3>1, EffectLength
      <4>5. Adds(p, b)
        BY <1>6, <1>15, <2>1, <4>1 DEF Adds
      <4>6. a.type = t /\ Adds(p, a) => n + 2 <= k
        BY <1>6, <3>1, <4>5 DEF Room
      <4>7. m + 1 <= k
        BY <4>3, <4>4, <4>6
      <4> QED BY <3>1, <4>2, <4>7
    <3> QED BY <3>3, <3>4
  <2>8. Parses(r)
    BY <1>13, <2>2, <2>4, <2>5, <2>6, <2>7, <2>9
  <2> QED BY <1>1, <1>3, <2>8 DEF Accepts
<1>16. CASE b.kind = "entity.patch"
  <2>1. PICK patch \in Patches[t] : patch = b.patch
    BY <1>6, <1>16, EditForms
  <2>2. PICK id : id = b.id
    OBVIOUS
  <2>3. r[t] = Patched(q[t], id, patch) /\ s[t] = Patched(p[t], id, patch)
        /\ \A u \in Types \ {t} : r[u] = q[u] /\ s[u] = p[u]
    BY <1>3, <1>4, <1>6, <1>16, <2>1, <2>2 DEF Made
  <2>4. CASE PlacesOf(q[t], id) = {}
    <3>1. IndexOf(q[t], id) = 0
      BY <1>8, <2>4, IndexFacts
    <3>2. r[t] = q[t]
      BY <2>3, <3>1 DEF Patched
    <3>3. r = q
      BY <1>2, <1>11, <2>3, <3>2, SameProject
    <3> QED BY <1>1, <1>2, <1>3, <3>3 DEF Accepts
  <2>5. CASE PlacesOf(q[t], id) # {}
    <3>1. PlacesOf(p[t], id) # {}
      BY <1>1, <1>6, <1>8, <1>16, <2>2, <2>5, PatchedBefore
    <3>2. PICK old \in Entities(t) : old = q[t][IndexOf(q[t], id)] /\ Has(q[t], old)
      BY <1>8, <2>5, IndexFacts DEF Has
    <3>3. PICK before \in Entities(t) : before = p[t][IndexOf(p[t], id)]
      BY <1>8, <3>1, IndexFacts
    <3>4. PICK e \in Entities(t) : e = MergePatch(old, patch)
      BY MergedType
    <3>5. PICK f \in Entities(t) : f = MergePatch(before, patch)
      BY MergedType
    <3>6. Has(s[t], f)
      BY <1>8, <2>3, <3>1, <3>3, <3>5, PatchedEntries
    <3>7. f.shape \in Shapes[t] /\ (t # "group" => GroupKnown(s, f.group))
      BY <1>10, <3>6
    <3>8. old.shape \in Shapes[t] /\ (t # "group" => GroupKnown(q, old.group))
      BY <1>9, <3>2
    <3>9. /\ e.shape = ShapeAfter(t, old.shape, patch) /\ f.shape = ShapeAfter(t, before.shape, patch)
          /\ e.group = GroupAfter(old.group, patch) /\ f.group = GroupAfter(before.group, patch)
      BY <3>4, <3>5, MergedType
    <3>10. e.shape \in Shapes[t]
      <4>1. CASE old.shape = before.shape
        BY <3>7, <3>9, <4>1
      <4>2. CASE a.kind = "entity.patch" /\ a.type = t /\ a.id = id /\ old = MergePatch(before, a.patch)
        <5>1. e = MergePatch(MergePatch(before, a.patch), b.patch)
          BY <2>1, <3>4, <4>2
        <5>2. a.id \in IdsOf(p[t])
          BY <3>1, <4>2, IdsFacts
        <5> QED BY <1>6, <1>16, <2>2, <3>3, <4>2, <5>1, <5>2 DEF Fits
      <4>3. \/ old.shape = before.shape
            \/ a.kind = "entity.patch" /\ a.type = t /\ a.id = id /\ old = MergePatch(before, a.patch)
        <5>1. PICK l, m : l \in Seq(Entities(t)) /\ l = p[t] /\ m = q[t] /\ m = Effect(l, t, a)
          BY <1>1, <1>8
        <5>2. PlacesOf(m, b.id) # {}
          BY <2>2, <2>5, <5>1
        <5>3. FromBefore(m, l, t, a, b)
          BY <1>6, <1>16, <5>1, <5>2, ShapeBefore
        <5> QED BY <2>2, <3>2, <3>3, <5>1, <5>3 DEF FromBefore
      <4> QED BY <4>1, <4>2, <4>3
    <3>11. t # "group" => GroupKnown(q, e.group)
      <4> SUFFICES ASSUME t # "group" PROVE GroupKnown(q, e.group)
        OBVIOUS
      <4>1. CASE "group" \notin DOMAIN patch
        BY <3>8, <3>9, <4>1 DEF GroupAfter
      <4>2. CASE "group" \in DOMAIN patch
        <5>1. PICK g : g = patch["group"] /\ e.group = g /\ f.group = g
          BY <3>9, <4>2 DEF GroupAfter
        <5>2. PutsInto(b, g)
          BY <1>16, <2>1, <4>2, <5>1 DEF PutsInto
        <5>3. s.group = p.group
          BY <1>7, <2>3
        <5>4. GroupKnown(p, g)
          BY <3>7, <5>1, <5>3 DEF GroupKnown
        <5> QED BY <1>12, <5>1, <5>2, <5>4
      <4> QED BY <4>1, <4>2
    <3>16. Len(r[t]) <= Limit[t]
      <4>1. DOMAIN r[t] = DOMAIN q[t] /\ r[t] \in Seq(Entities(t))
        BY <1>8, <2>3, PatchedEntries, PatchedType
      <4>2. Len(r[t]) = Len(q[t])
        BY <1>8, <4>1
      <4> QED BY <1>9, <4>2
    <3>12. \A x : Has(r[t], x) => x = e \/ Has(q[t], x)
      <4>1. \A x : Has(Patched(q[t], id, patch), x) =>
                      \/ Has(q[t], x)
                      \/ PlacesOf(q[t], id) # {} /\ x = MergePatch(q[t][IndexOf(q[t], id)], patch)
        BY <1>8, PatchedEntries
      <4> QED BY <2>3, <3>2, <3>4, <4>1
    <3>13. DistinctIds(q[t]) => DistinctIds(r[t])
      BY <1>8, <2>3, PatchedEntries
    <3>14. Keeps(q[t], r[t])
      BY <1>8, <2>3, PatchedKeeps
    <3>15. Parses(r)
      BY <1>13, <2>3, <3>10, <3>11, <3>12, <3>13, <3>14, <3>16
    <3> QED BY <1>1, <1>3, <3>15 DEF Accepts
  <2> QED BY <2>4, <2>5
<1> QED
  BY <1>14, <1>15, <1>16, EditForms

LEMMA IndependentSymmetric ==
  ASSUME NEW a, NEW b, Independent(a, b)
  PROVE  Independent(b, a)
BY DEF Independent, Disjoint

LEMMA RoomAndFitsSymmetric ==
  ASSUME NEW p, Stored(p), NEW a \in EntityEdits, NEW b \in EntityEdits, Independent(a, b), Room(p, a, b), Fits(p, a, b)
  PROVE  Room(p, b, a) /\ Fits(p, b, a)
<1>1. Room(p, b, a)
  BY DEF Room
<1>2. ASSUME a.kind = "entity.patch", b.kind = "entity.patch", a.type = b.type, a.id = b.id, a.id \in IdsOf(p[a.type]),
             NEW e, e = p[a.type][IndexOf(p[a.type], a.id)]
      PROVE  MergePatch(MergePatch(e, b.patch), a.patch).shape \in Shapes[a.type]
  <2>1. PICK t \in Types : t = a.type /\ a.patch \in Patches[t] /\ b.patch \in Patches[t]
    BY <1>2, EditForms
  <2>2. PICK l \in Seq(Entities(t)) : l = p[t]
    BY ListOfProject DEF Stored
  <2>3. PlacesOf(l, a.id) # {}
    BY <1>2, <2>1, <2>2, IdsFacts
  <2>4. e \in Entities(t)
    BY <1>2, <2>1, <2>2, <2>3, IndexFacts
  <2>5. Disjoint(a.patch, b.patch)
    <3>1. EditId(a) = EditId(b)
      BY <1>2, EditForms
    <3> QED BY <1>2, <3>1, IndependentForms
  <2>6. MergePatch(MergePatch(e, a.patch), b.patch).shape \in Shapes[t]
    BY <1>2, <2>1 DEF Fits
  <2>7. MergePatch(MergePatch(e, a.patch), b.patch) = MergePatch(MergePatch(e, b.patch), a.patch)
    BY <2>1, <2>4, <2>5, MergesCommute
  <2> QED BY <2>1, <2>6, <2>7
<1> QED
  BY <1>1, <1>2 DEF Fits

LEMMA CommutingFact ==
  ASSUME NEW p, Stored(p)
  PROVE  Commuting(p)
<1> SUFFICES ASSUME NEW a \in EntityEdits, NEW b \in EntityEdits, Accepts(p, a), Accepts(p, b),
                    Independent(a, b), Apart(a, b), Apart(b, a), Room(p, a, b), Fits(p, a, b)
             PROVE  /\ Accepts(Apply(p, a), b)
                    /\ \A t \in Types : SameEntities(Apply(Apply(p, a), b)[t], Apply(Apply(p, b), a)[t])
  BY DEF Commuting
<1>1. Accepts(Apply(p, a), b)
  BY LaterAccepted
<1>2. Accepts(Apply(p, b), a)
  BY IndependentSymmetric, RoomAndFitsSymmetric, LaterAccepted
<1>3. PICK q : q = Apply(p, a) /\ Stored(q) /\ \A u \in Types : q[u] = Effect(p[u], u, a)
  BY ApplyEdit
<1>4. PICK r : r = Apply(p, b) /\ Stored(r) /\ \A u \in Types : r[u] = Effect(p[u], u, b)
  BY ApplyEdit
<1>5. PICK ab : ab = Apply(q, b) /\ \A u \in Types : ab[u] = Effect(q[u], u, b)
  BY <1>1, <1>3, ApplyEdit
<1>6. PICK ba : ba = Apply(r, a) /\ \A u \in Types : ba[u] = Effect(r[u], u, a)
  BY <1>2, <1>4, ApplyEdit
<1>7. ASSUME NEW t \in Types PROVE SameEntities(ab[t], ba[t])
  <2>1. PICK l \in Seq(Entities(t)) : l = p[t]
    BY ListOfProject DEF Stored
  <2>2. ab[t] = Effect(Effect(l, t, a), t, b) /\ ba[t] = Effect(Effect(l, t, b), t, a)
    BY <1>3, <1>4, <1>5, <1>6, <2>1
  <2>3. ab[t] \in Seq(Entities(t)) /\ ba[t] \in Seq(Entities(t))
    BY <2>2, EffectType
  <2>4. \A id : Alike(ab[t], ba[t], id)
    BY <2>2, EffectsCommute
  <2> QED BY <2>3, <2>4, AlikeCounts
<1> QED
  BY <1>1, <1>3, <1>4, <1>5, <1>6, <1>7

(* Independent edits, each accepted alone, are accepted in both orders and *)
(* make the same project: whose POST arrives first does not matter.        *)
THEOREM IndependentEditsCommuteTheorem == Spec => []IndependentEditsCommute
<1>1. Stored(project) => IndependentEditsCommute
  BY CommutingFact DEF IndependentEditsCommute
<1> QED
  BY <1>1, ProjectStored, PTL

-----------------------------------------------------------------------------
(* Parts and numbers.                                                      *)

LEMMA AttrType ==
  ASSUME NEW ds, Buildable(ds), NEW i \in DOMAIN ds
  PROVE  /\ A(ds, i).gender \in Genders /\ A(ds, i).prop \in BOOLEAN /\ A(ds, i).creature \in BOOLEAN
         /\ A(ds, i).replace \in BOOLEAN /\ A(ds, i).target \in Nat /\ A(ds, i).ydd \in BOOLEAN
         /\ A(ds, i).textures \in Nat /\ A(ds, i).physics \in BOOLEAN
<1>1. Attr[ds[i].shape] \in [gender : Genders, slot : STRING, prop : BOOLEAN, creature : BOOLEAN,
                             replace : BOOLEAN, target : Nat, ydd : BOOLEAN, textures : Nat, physics : BOOLEAN]
  BY ExportAssumption DEF Buildable
<1> QED
  BY <1>1 DEF A

InOrderOf(list, S, c) ==
    /\ list \in [1 .. c -> S] /\ \A i \in S : \E k \in 1 .. c : list[k] = i
    /\ \A j, k \in 1 .. c : j < k => list[j] < list[k]
    /\ \A k \in 1 .. c : Cardinality({m \in S : m < list[k]}) = k - 1

LEMMA InOrderFacts ==
  ASSUME NEW n \in Nat, NEW S \in SUBSET (1 .. n)
  PROVE  \E c \in Nat : c = Cardinality(S) /\ InOrderOf(InOrder(S), S, c)
<1>1. /\ IsFiniteSet(S) /\ Cardinality(S) \in Nat
      /\ \A k \in 1 .. Cardinality(S) :
            Nth(S, k) \in S /\ Cardinality({m \in S : m <= Nth(S, k)}) = k
      /\ \A i \in S : \E k \in 1 .. Cardinality(S) : Nth(S, k) = i
      /\ \A j, k \in 1 .. Cardinality(S) : j < k => Nth(S, j) < Nth(S, k)
  BY NthFacts
<1>2. PICK c \in Nat : c = Cardinality(S)
  BY <1>1
<1>3. PICK list : list = InOrder(S) /\ list = [k \in 1 .. c |-> Nth(S, k)]
  BY <1>2 DEF InOrder
<1>4. ASSUME NEW k \in 1 .. c PROVE Cardinality({m \in S : m < list[k]}) = k - 1
  <2>1. PICK i \in S : i = list[k] /\ Cardinality({m \in S : m <= i}) = k
    BY <1>1, <1>2, <1>3
  <2>2. PICK T : T = {m \in S : m < i}
    OBVIOUS
  <2>3. IsFiniteSet(T) /\ i \notin T
    BY <1>1, <2>2, FS_Subset
  <2>a. \A m \in S : m <= i <=> m < i \/ m = i
    OBVIOUS
  <2>4. {m \in S : m <= i} = T \cup {i}
    BY <2>2, <2>a
  <2>5. Cardinality(T \cup {i}) = Cardinality(T) + 1
    BY <2>3, FS_AddElement
  <2>6. Cardinality(T) \in Nat
    BY <2>3, FS_CardinalityType
  <2> QED BY <2>1, <2>2, <2>4, <2>5, <2>6
<1>5. list \in [1 .. c -> S] /\ \A i \in S : \E k \in 1 .. c : list[k] = i
  BY <1>1, <1>2, <1>3
<1>6. \A j, k \in 1 .. c : j < k => list[j] < list[k]
  BY <1>1, <1>2, <1>3
<1>7. InOrderOf(list, S, c)
  BY <1>4, <1>5, <1>6 DEF InOrderOf
<1> QED
  BY <1>2, <1>3, <1>7

AddonSet(ds, g) == {i \in Positions(ds) : ~A(ds, i).replace /\ A(ds, i).gender = g}

LEMMA AddonsFacts ==
  ASSUME NEW ds, Buildable(ds), NEW g
  PROVE  /\ AddonsOf(ds, g) \in Seq(AddonSet(ds, g)) /\ DOMAIN AddonsOf(ds, g) = 1 .. Len(AddonsOf(ds, g))
         /\ \A i \in AddonSet(ds, g) : \E q \in DOMAIN AddonsOf(ds, g) : AddonsOf(ds, g)[q] = i
         /\ \A j, q \in DOMAIN AddonsOf(ds, g) : j < q => AddonsOf(ds, g)[j] < AddonsOf(ds, g)[q]
         /\ \A q \in DOMAIN AddonsOf(ds, g) : Cardinality(Before(ds, AddonsOf(ds, g)[q])) = q - 1
<1>1. PICK n \in Nat : n = Len(ds) /\ DOMAIN ds = 1 .. n
  BY DEF Buildable
<1>2. PICK S \in SUBSET (1 .. n) : S = AddonSet(ds, g)
  BY <1>1 DEF AddonSet, Positions
<1>3. PICK list : list = InOrder(S) /\ list = AddonsOf(ds, g)
  BY <1>2 DEF AddonsOf, AddonSet
<1>4. PICK c \in Nat : InOrderOf(list, S, c)
  BY <1>3, InOrderFacts
<1>5. /\ list \in [1 .. c -> S] /\ \A i \in S : \E k \in 1 .. c : list[k] = i
      /\ \A j, k \in 1 .. c : j < k => list[j] < list[k]
      /\ \A k \in 1 .. c : Cardinality({m \in S : m < list[k]}) = k - 1
  BY <1>4 DEF InOrderOf
<1>6. list \in Seq(S) /\ Len(list) = c /\ DOMAIN list = 1 .. c
  BY <1>5
<1>7. ASSUME NEW q \in 1 .. c PROVE Cardinality(Before(ds, list[q])) = q - 1
  <2>1. PICK i \in S : i = list[q]
    BY <1>5
  <2>2. A(ds, i).gender = g
    BY <1>2 DEF AddonSet
  <2>3. \A j \in 1 .. i - 1 : j \in 1 .. n
    OBVIOUS
  <2>4. \A j \in S : j < i <=> j \in 1 .. i - 1
    OBVIOUS
  <2>5. Before(ds, i) = {m \in S : m < i}
    BY <1>1, <1>2, <2>2, <2>3, <2>4 DEF Before, AddonSet, Positions
  <2> QED BY <1>5, <2>1, <2>5
<1> QED
  BY <1>2, <1>3, <1>5, <1>6, <1>7

LEMMA ChunkFacts ==
  ASSUME NEW E, NEW list \in Seq(E), NEW k \in Nat \ {0}
  PROVE  /\ Chunk(list, k) \in Seq(E) /\ DOMAIN Chunk(list, k) = 1 .. Len(Chunk(list, k))
         /\ \A n \in DOMAIN Chunk(list, k) :
               n <= SplitAt /\ (k - 1) * SplitAt + n \in DOMAIN list /\ Chunk(list, k)[n] = list[(k - 1) * SplitAt + n]
         /\ \A n \in 1 .. SplitAt : (k - 1) * SplitAt + n <= Len(list) => n \in DOMAIN Chunk(list, k)
<1>1. SplitAt \in Nat \ {0}
  BY ExportAssumption
<1>2. PICK b \in Nat : b = (k - 1) * SplitAt /\ k * SplitAt = b + SplitAt
  BY <1>1
<1>3. PICK L \in Nat : L = Len(list) /\ DOMAIN list = 1 .. L
  OBVIOUS
<1>4. PICK m \in Nat : m = Least(k * SplitAt, L) /\ m <= L /\ m <= b + SplitAt /\ (m = L \/ m = b + SplitAt)
  BY <1>1, <1>2 DEF Least
<1>5. PICK c : c = Chunk(list, k) /\ c = SubSeq(list, b + 1, m)
  BY <1>2, <1>3, <1>4 DEF Chunk
<1>6. c = [i \in 1 .. m - b |-> list[b + i]]
  <2>1. c = [i \in 1 .. (1 + m - (b + 1)) |-> list[i + (b + 1) - 1]]
    BY <1>5
  <2>2. 1 + m - (b + 1) = m - b /\ \A i \in 1 .. m - b : i + (b + 1) - 1 = b + i
    OBVIOUS
  <2> QED BY <2>1, <2>2
<1>a. \A i \in 1 .. m - b : b + i \in 1 .. L /\ i <= SplitAt
  BY <1>1, <1>4
<1>7. DOMAIN c = 1 .. m - b /\ \A i \in 1 .. m - b : b + i \in 1 .. L /\ c[i] = list[b + i] /\ c[i] \in E /\ i <= SplitAt
  <2>1. DOMAIN c = 1 .. m - b /\ \A i \in 1 .. m - b : c[i] = list[b + i]
    BY <1>6
  <2>2. \A i \in 1 .. L : list[i] \in E
    BY <1>3
  <2> QED BY <1>a, <2>1, <2>2
<1>8. PICK l \in Nat : 1 .. m - b = 1 .. l
  <2>1. CASE m - b \in Nat
    BY <2>1
  <2>2. CASE m - b \notin Nat
    <3>1. 1 .. m - b = 1 .. 0
      BY <2>2
    <3> QED BY <3>1
  <2> QED BY <2>1, <2>2
<1>9. c \in Seq(E) /\ Len(c) = l
  <2>1. c = [i \in 1 .. l |-> list[b + i]] /\ \A i \in 1 .. l : list[b + i] \in E
    BY <1>6, <1>7, <1>8
  <2>2. c \in [1 .. l -> E]
    BY <2>1
  <2> QED BY <2>2
<1>10. ASSUME NEW n \in 1 .. SplitAt, b + n <= L PROVE n \in 1 .. m - b
  BY <1>1, <1>4, <1>10
<1> QED
  BY <1>2, <1>3, <1>5, <1>7, <1>8, <1>9, <1>10

LEMMA DivFacts ==
  ASSUME NEW s \in Nat \ {0}
  PROVE  /\ \A k \in Nat, r \in 0 .. s - 1 : (k * s + r) \div s = k
         /\ \A q \in Nat : q \div s \in Nat /\ \E r \in 0 .. s - 1 : q = (q \div s) * s + r
<1>1. \A k \in Nat, r \in 0 .. s - 1 : (k * s + r) \div s = k
  OBVIOUS
<1>2. ASSUME NEW q \in Nat PROVE q \div s \in Nat /\ \E r \in 0 .. s - 1 : q = (q \div s) * s + r
  <2>1. q % s \in 0 .. s - 1 /\ q = s * (q \div s) + (q % s) /\ q \div s \in Nat
    OBVIOUS
  <2> QED BY <2>1
<1> QED
  BY <1>1, <1>2

\* The chunk of a part has the addons that belong to it, in order.
LEMMA ChunkOfPart ==
  ASSUME NEW ds, Buildable(ds), NEW g, NEW k \in Nat \ {0}
  PROVE  LET chunk == Chunk(AddonsOf(ds, g), k)
         IN /\ chunk \in Seq(AddonSet(ds, g)) /\ DOMAIN chunk = 1 .. Len(chunk)
            /\ \A n \in DOMAIN chunk : n <= SplitAt /\ PartOf(ds, chunk[n]) = k
            /\ \A m, n \in DOMAIN chunk : m < n => chunk[m] < chunk[n]
            /\ \A i \in AddonSet(ds, g) : PartOf(ds, i) = k => \E n \in DOMAIN chunk : chunk[n] = i
<1>1. PICK list \in Seq(AddonSet(ds, g)) : list = AddonsOf(ds, g)
  BY AddonsFacts
<1>2. /\ \A i \in AddonSet(ds, g) : \E q \in DOMAIN list : list[q] = i
      /\ \A j, q \in DOMAIN list : j < q => list[j] < list[q]
      /\ \A q \in DOMAIN list : Cardinality(Before(ds, list[q])) = q - 1
  BY <1>1, AddonsFacts
<1>3. PICK L \in Nat : L = Len(list) /\ DOMAIN list = 1 .. L
  OBVIOUS
<1>4. PICK s \in Nat \ {0} : s = SplitAt
  BY ExportAssumption
<1>5. PICK b \in Nat : b = (k - 1) * s
  BY <1>4
<1>6. PICK chunk \in Seq(AddonSet(ds, g)) : chunk = Chunk(list, k)
  BY <1>1, ChunkFacts
<1>7. /\ DOMAIN chunk = 1 .. Len(chunk)
      /\ \A n \in DOMAIN chunk : n <= s /\ b + n \in 1 .. L /\ chunk[n] = list[b + n]
      /\ \A n \in 1 .. s : b + n <= L => n \in DOMAIN chunk
  BY <1>1, <1>3, <1>4, <1>5, <1>6, ChunkFacts
<1>8. \A q \in 1 .. L : PartOf(ds, list[q]) = (q - 1) \div s + 1
  <2> SUFFICES ASSUME NEW q \in 1 .. L PROVE PartOf(ds, list[q]) = (q - 1) \div s + 1
    OBVIOUS
  <2>1. list[q] \in AddonSet(ds, g)
    BY <1>3
  <2>2. ~A(ds, list[q]).replace
    BY <2>1 DEF AddonSet
  <2> QED BY <1>2, <1>3, <1>4, <2>2 DEF PartOf
<1>9. ASSUME NEW n \in DOMAIN chunk PROVE PartOf(ds, chunk[n]) = k
  <2>1. n \in 1 .. s /\ b + n \in 1 .. L /\ chunk[n] = list[b + n]
    BY <1>7
  <2>2. n - 1 \in 0 .. s - 1 /\ k - 1 \in Nat /\ (b + n) - 1 = b + (n - 1)
    BY <2>1
  <2>3. PICK c \in Nat : c = k - 1 /\ b = c * s
    BY <1>5, <2>2
  <2>4. PICK r \in 0 .. s - 1 : r = n - 1
    BY <2>2
  <2>5. (c * s + r) \div s = c
    BY DivFacts
  <2>6. (b + (n - 1)) \div s = k - 1
    BY <2>3, <2>4, <2>5
  <2>7. PartOf(ds, list[b + n]) = (k - 1) + 1
    BY <1>8, <2>1, <2>2, <2>6
  <2> QED BY <2>1, <2>7
<1>10. ASSUME NEW i \in AddonSet(ds, g), PartOf(ds, i) = k PROVE \E n \in DOMAIN chunk : chunk[n] = i
  <2>1. PICK q \in 1 .. L : list[q] = i
    BY <1>2, <1>3
  <2>2. (q - 1) \div s + 1 = k /\ q - 1 \in Nat
    BY <1>8, <1>10, <2>1
  <2>3. PICK r \in 0 .. s - 1 : q - 1 = ((q - 1) \div s) * s + r
    BY <2>2, DivFacts
  <2>4. (q - 1) \div s = k - 1
    <3>1. (q - 1) \div s \in Nat
      BY <2>2, DivFacts
    <3> QED BY <2>2, <3>1
  <2>5. q - 1 = b + r
    BY <1>5, <2>3, <2>4
  <2>6. r + 1 \in 1 .. s /\ b + (r + 1) = q
    BY <2>5
  <2>7. r + 1 \in DOMAIN chunk
    BY <1>7, <2>6
  <2> QED BY <1>7, <2>1, <2>6, <2>7
<1>11. ASSUME NEW m \in DOMAIN chunk, NEW n \in DOMAIN chunk, m < n PROVE chunk[m] < chunk[n]
  <2>1. b + m \in 1 .. L /\ b + n \in 1 .. L /\ b + m < b + n
    BY <1>7, <1>11
  <2> QED BY <1>2, <1>3, <1>7, <2>1
<1> QED
  BY <1>1, <1>4, <1>6, <1>7, <1>9, <1>10, <1>11

\* An addon's number is how many of its slot are before it in its chunk.
LEMMA NumberOfChunk ==
  ASSUME NEW ds, Buildable(ds), NEW g, NEW k \in Nat \ {0}, NEW n \in DOMAIN Chunk(AddonsOf(ds, g), k)
  PROVE  LET chunk == Chunk(AddonsOf(ds, g), k)
             before == {m \in 1 .. n - 1 : A(ds, chunk[m]).slot = A(ds, chunk[n]).slot}
         IN Cardinality(before) = NumberOf(ds, chunk[n]) /\ Cardinality(before) \in Nat /\ Cardinality(before) < SplitAt
<1>1. PICK chunk \in Seq(AddonSet(ds, g)) : chunk = Chunk(AddonsOf(ds, g), k)
  BY ChunkOfPart
<1>2. /\ DOMAIN chunk = 1 .. Len(chunk)
      /\ \A m \in DOMAIN chunk : m <= SplitAt /\ PartOf(ds, chunk[m]) = k
      /\ \A l, m \in DOMAIN chunk : l < m => chunk[l] < chunk[m]
      /\ \A i \in AddonSet(ds, g) : PartOf(ds, i) = k => \E m \in DOMAIN chunk : chunk[m] = i
  BY <1>1, ChunkOfPart
<1>3. n \in DOMAIN chunk /\ n \in Nat /\ n <= SplitAt /\ \A m \in 1 .. n - 1 : m \in DOMAIN chunk /\ m < n
  BY <1>1, <1>2
<1>4. PICK N \in Nat : N = Len(ds) /\ DOMAIN ds = 1 .. N
  BY DEF Buildable
<1>5. AddonSet(ds, g) \subseteq 1 .. N
  BY <1>4 DEF AddonSet, Positions
<1>6. PICK i \in AddonSet(ds, g) : i = chunk[n]
  BY <1>3
<1>7. PICK S \in SUBSET (1 .. n - 1) : S = {m \in 1 .. n - 1 : A(ds, chunk[m]).slot = A(ds, i).slot}
  OBVIOUS
<1>8. PICK T : T = {j \in Before(ds, i) : A(ds, j).slot = A(ds, i).slot /\ PartOf(ds, j) = PartOf(ds, i)}
  OBVIOUS
<1>9. A(ds, i).gender = g /\ ~A(ds, i).replace /\ i \in 1 .. N /\ PartOf(ds, i) = k
  BY <1>2, <1>3, <1>5, <1>6 DEF AddonSet
<1>10. \A j : j \in Before(ds, i) <=> j \in AddonSet(ds, g) /\ j < i
  <2>1. \A j \in 1 .. i - 1 : j \in 1 .. N /\ j < i
    BY <1>9
  <2>2. \A j \in 1 .. N : j < i => j \in 1 .. i - 1
    BY <1>9
  <2> QED BY <1>4, <1>5, <1>9, <2>1, <2>2 DEF Before, AddonSet, Positions
<1>11. PICK f : f = [m \in S |-> chunk[m]]
  OBVIOUS
<1>12. \A m \in S : f[m] \in T
  <2> SUFFICES ASSUME NEW m \in S PROVE chunk[m] \in T
    BY <1>11
  <2>1. m \in DOMAIN chunk /\ m < n /\ A(ds, chunk[m]).slot = A(ds, i).slot
    BY <1>3, <1>7
  <2>2. chunk[m] \in AddonSet(ds, g) /\ chunk[m] < i /\ PartOf(ds, chunk[m]) = k
    BY <1>2, <1>3, <1>6, <2>1
  <2> QED BY <1>8, <1>9, <1>10, <2>1, <2>2
<1>13. \A l, m \in S : f[l] = f[m] => l = m
  <2> SUFFICES ASSUME NEW l \in S, NEW m \in S, chunk[l] = chunk[m] PROVE l = m
    BY <1>11
  <2>1. l \in DOMAIN chunk /\ m \in DOMAIN chunk /\ chunk[l] \in 1 .. N /\ l \in Nat /\ m \in Nat
    BY <1>3, <1>5
  <2>2. ~(chunk[l] < chunk[m]) /\ ~(chunk[m] < chunk[l])
    BY <2>1
  <2>3. ~(l < m) /\ ~(m < l)
    BY <1>2, <2>1, <2>2
  <2> QED BY <2>1, <2>3
<1>14. \A j \in T : \E m \in S : f[m] = j
  <2> SUFFICES ASSUME NEW j \in T PROVE \E m \in S : chunk[m] = j
    BY <1>11
  <2>1. j \in AddonSet(ds, g) /\ j < i /\ A(ds, j).slot = A(ds, i).slot /\ PartOf(ds, j) = k
    BY <1>8, <1>9, <1>10
  <2>2. PICK m \in DOMAIN chunk : chunk[m] = j
    BY <1>2, <2>1
  <2>3. ~(n < m) /\ m # n
    <3>1. j \in 1 .. N /\ ~(i < j) /\ i # j
      BY <1>5, <1>9, <2>1
    <3> QED BY <1>2, <1>3, <1>6, <2>2, <3>1
  <2>4. m \in 1 .. n - 1
    BY <1>2, <1>3, <2>2, <2>3
  <2>5. m \in S
    BY <1>7, <2>1, <2>2, <2>4
  <2> QED BY <2>2, <2>5
<1>15. f \in Bijection(S, T)
  <2>1. f \in [S -> T]
    BY <1>11, <1>12
  <2> QED BY <1>13, <1>14, <2>1, Fun_IsBij
<1>16. IsFiniteSet(S) /\ Cardinality(S) \in Nat /\ Cardinality(S) <= n - 1
  <2>1. IsFiniteSet(1 .. n - 1) /\ Cardinality(1 .. n - 1) = n - 1
    <3>1. 1 \in Int /\ n - 1 \in Int /\ n >= 1
      BY <1>2, <1>3
    <3>2. IsFiniteSet(1 .. n - 1) /\ Cardinality(1 .. n - 1) = IF 1 > n - 1 THEN 0 ELSE (n - 1) - 1 + 1
      BY <3>1, FS_Interval
    <3> QED BY <1>3, <3>1, <3>2
  <2> QED BY <2>1, FS_Subset, FS_CardinalityType
<1>17. Cardinality(S) = Cardinality(T)
  BY <1>15, <1>16, FS_Bijection DEF ExistsBijection
<1>18. NumberOf(ds, i) = Cardinality(T)
  BY <1>8, <1>9 DEF NumberOf
<1>19. Cardinality(S) < SplitAt
  BY <1>3, <1>16, ExportAssumption
<1> QED
  BY <1>1, <1>6, <1>7, <1>16, <1>17, <1>18, <1>19

\* What is planned of an entry of part k.
InPart(ds, e, k) ==
    /\ e.pos \in Positions(ds) /\ e.part = k /\ PartOf(ds, e.pos) = k /\ e.nnn = NumberOf(ds, e.pos)
    /\ IF A(ds, e.pos).replace THEN e.dlc = 0 ELSE e.dlc = Suffix(ds, k) /\ e.nnn < SplitAt

OnePos(l) == \A i, j \in DOMAIN l : l[i].pos = l[j].pos => i = j

LEMMA PlannedFacts ==
  ASSUME NEW ds, Buildable(ds), NEW g, NEW k \in Nat \ {0}
  PROVE  /\ Planned(ds, k, g) \in Seq(PlanEntry)
         /\ \A x : Has(Planned(ds, k, g), x) => InPart(ds, x, k) /\ x.pos \in AddonSet(ds, g)
         /\ OnePos(Planned(ds, k, g))
         /\ \A i \in AddonSet(ds, g) : PartOf(ds, i) = k => \E x : Has(Planned(ds, k, g), x) /\ x.pos = i
<1>1. PICK chunk \in Seq(AddonSet(ds, g)) : chunk = Chunk(AddonsOf(ds, g), k)
  BY ChunkOfPart
<1>2. /\ DOMAIN chunk = 1 .. Len(chunk)
      /\ \A m \in DOMAIN chunk : m <= SplitAt /\ PartOf(ds, chunk[m]) = k
      /\ \A l, m \in DOMAIN chunk : l < m => chunk[l] < chunk[m]
      /\ \A i \in AddonSet(ds, g) : PartOf(ds, i) = k => \E m \in DOMAIN chunk : chunk[m] = i
  BY <1>1, ChunkOfPart
<1>3. PICK number : number = [n \in DOMAIN chunk |-> Cardinality({m \in 1 .. n - 1 : A(ds, chunk[m]).slot = A(ds, chunk[n]).slot})]
  OBVIOUS
<1>4. \A n \in DOMAIN chunk : number[n] = NumberOf(ds, chunk[n]) /\ number[n] \in Nat /\ number[n] < SplitAt
  <2> SUFFICES ASSUME NEW n \in DOMAIN chunk
               PROVE  number[n] = NumberOf(ds, chunk[n]) /\ number[n] \in Nat /\ number[n] < SplitAt
    OBVIOUS
  <2> DEFINE before == {m \in 1 .. n - 1 : A(ds, chunk[m]).slot = A(ds, chunk[n]).slot}
  <2>1. Cardinality(before) = NumberOf(ds, chunk[n]) /\ Cardinality(before) \in Nat /\ Cardinality(before) < SplitAt
    BY <1>1, NumberOfChunk
  <2> QED BY <1>3, <2>1
<1>5. PICK P : P = Planned(ds, k, g)
                  /\ P = [n \in DOMAIN chunk |-> [pos |-> chunk[n], part |-> k, dlc |-> Suffix(ds, k), nnn |-> number[n]]]
  <2> DEFINE before(n) == {m \in 1 .. n - 1 : A(ds, chunk[m]).slot = A(ds, chunk[n]).slot}
  <2>1. Planned(ds, k, g) = [n \in DOMAIN chunk |-> [pos |-> chunk[n], part |-> k, dlc |-> Suffix(ds, k),
                                                     nnn |-> Cardinality(before(n))]]
    BY <1>1 DEF Planned
  <2>2. \A n \in DOMAIN chunk : number[n] = Cardinality(before(n))
    BY <1>3
  <2> HIDE DEF before
  <2> QED BY <2>1, <2>2
<1>6. Suffix(ds, k) \in Nat
  BY DEF Suffix
<1>7. AddonSet(ds, g) \subseteq Nat /\ \A i \in AddonSet(ds, g) : i \in Positions(ds) /\ ~A(ds, i).replace
  <2>1. DOMAIN ds \subseteq Nat
    BY DEF Buildable
  <2> QED BY <2>1 DEF AddonSet, Positions
<1>8. \A n \in DOMAIN chunk : P[n].pos = chunk[n] /\ P[n].part = k /\ P[n].dlc = Suffix(ds, k) /\ P[n].nnn = number[n]
                              /\ P[n] \in PlanEntry
  BY <1>4, <1>5, <1>6, <1>7 DEF PlanEntry
<1>9. DOMAIN P = DOMAIN chunk /\ P \in Seq(PlanEntry)
  <2>1. PICK l \in Nat : l = Len(chunk)
    BY <1>1
  <2>2. P \in [1 .. l -> PlanEntry]
    BY <1>2, <1>5, <1>8, <2>1
  <2> QED BY <1>5, <2>2
<1>10. \A n \in DOMAIN chunk : InPart(ds, P[n], k) /\ P[n].pos \in AddonSet(ds, g)
  <2> SUFFICES ASSUME NEW n \in DOMAIN chunk PROVE InPart(ds, P[n], k) /\ P[n].pos \in AddonSet(ds, g)
    OBVIOUS
  <2>1. PICK e : e = P[n] /\ e.pos = chunk[n] /\ e.part = k /\ e.dlc = Suffix(ds, k) /\ e.nnn = number[n]
    BY <1>8
  <2>2. chunk[n] \in AddonSet(ds, g)
    OBVIOUS
  <2>3. InPart(ds, e, k)
    BY <1>2, <1>4, <1>7, <2>1, <2>2 DEF InPart
  <2> QED BY <2>1, <2>2, <2>3
<1>11. ASSUME NEW l \in DOMAIN chunk, NEW m \in DOMAIN chunk, chunk[l] = chunk[m] PROVE l = m
  <2>1. chunk[l] \in Nat /\ chunk[m] \in Nat /\ l \in Nat /\ m \in Nat
    BY <1>2, <1>7
  <2>2. ~(chunk[l] < chunk[m]) /\ ~(chunk[m] < chunk[l])
    BY <1>11, <2>1
  <2>3. ~(l < m) /\ ~(m < l)
    BY <1>2, <2>2
  <2> QED BY <2>1, <2>3
<1>12. OnePos(P)
  BY <1>8, <1>9, <1>11 DEF OnePos
<1>13. \A x : Has(P, x) => InPart(ds, x, k) /\ x.pos \in AddonSet(ds, g)
  BY <1>9, <1>10 DEF Has
<1>14. \A i \in AddonSet(ds, g) : PartOf(ds, i) = k => \E x : Has(P, x) /\ x.pos = i
  BY <1>2, <1>8, <1>9 DEF Has
<1> QED
  BY <1>5, <1>9, <1>12, <1>13, <1>14

ReplaceSet(ds) == {i \in Positions(ds) : A(ds, i).replace}

LEMMA PlannedReplacesFacts ==
  ASSUME NEW ds, Buildable(ds)
  PROVE  /\ PlannedReplaces(ds) \in Seq(PlanEntry)
         /\ \A x : Has(PlannedReplaces(ds), x) => InPart(ds, x, 1) /\ x.pos \in ReplaceSet(ds)
         /\ OnePos(PlannedReplaces(ds))
         /\ \A i \in ReplaceSet(ds) : \E x : Has(PlannedReplaces(ds), x) /\ x.pos = i
<1>1. PICK n \in Nat : n = Len(ds) /\ DOMAIN ds = 1 .. n
  BY DEF Buildable
<1>2. PICK S \in SUBSET (1 .. n) : S = ReplaceSet(ds)
  BY <1>1 DEF ReplaceSet, Positions
<1>3. PICK list : list = InOrder(S) /\ list = ReplacesOf(ds)
  BY <1>2 DEF ReplacesOf, ReplaceSet
<1>4. PICK c \in Nat : InOrderOf(list, S, c)
  BY <1>3, InOrderFacts
<1>5. /\ list \in [1 .. c -> S] /\ \A i \in S : \E k \in 1 .. c : list[k] = i
      /\ \A j, k \in 1 .. c : j < k => list[j] < list[k]
  BY <1>4 DEF InOrderOf
<1>6. \A i \in S : A(ds, i).replace /\ i \in Positions(ds) /\ A(ds, i).target \in Nat /\ i \in Nat
  <2>1. S \subseteq DOMAIN ds
    BY <1>1
  <2> QED BY <1>2, <2>1, AttrType DEF ReplaceSet
<1>7. PICK P : P = PlannedReplaces(ds)
                  /\ P = [m \in 1 .. c |-> [pos |-> list[m], part |-> 1, dlc |-> 0, nnn |-> A(ds, list[m]).target]]
  BY <1>3, <1>5 DEF PlannedReplaces
<1>8. \A m \in 1 .. c : list[m] \in S /\ P[m].pos = list[m] /\ P[m].part = 1 /\ P[m].dlc = 0
                        /\ P[m].nnn = A(ds, list[m]).target /\ P[m] \in PlanEntry
  <2> SUFFICES ASSUME NEW m \in 1 .. c
               PROVE  list[m] \in S /\ P[m].pos = list[m] /\ P[m].part = 1 /\ P[m].dlc = 0
                      /\ P[m].nnn = A(ds, list[m]).target /\ P[m] \in PlanEntry
    OBVIOUS
  <2>1. PICK i \in S : i = list[m]
    BY <1>5
  <2>2. P[m] = [pos |-> i, part |-> 1, dlc |-> 0, nnn |-> A(ds, i).target]
    BY <1>7, <2>1
  <2> QED BY <1>6, <2>1, <2>2 DEF PlanEntry
<1>9. DOMAIN P = 1 .. c /\ P \in Seq(PlanEntry)
  <2>1. P \in [1 .. c -> PlanEntry]
    BY <1>7, <1>8
  <2> QED BY <2>1
<1>10. \A m \in 1 .. c : InPart(ds, P[m], 1) /\ P[m].pos \in ReplaceSet(ds)
  <2> SUFFICES ASSUME NEW m \in 1 .. c PROVE InPart(ds, P[m], 1) /\ P[m].pos \in ReplaceSet(ds)
    OBVIOUS
  <2>1. PICK e : e = P[m]
    OBVIOUS
  <2>2. PICK i \in S : i = e.pos /\ e.part = 1 /\ e.dlc = 0 /\ e.nnn = A(ds, i).target
    BY <1>8, <2>1
  <2>3. InPart(ds, e, 1)
    BY <1>6, <2>2 DEF InPart, PartOf, NumberOf
  <2> QED BY <1>2, <2>1, <2>2, <2>3
<1>11. ASSUME NEW l \in 1 .. c, NEW m \in 1 .. c, list[l] = list[m] PROVE l = m
  <2>1. list[l] \in Nat /\ list[m] \in Nat
    BY <1>6, <1>8
  <2>2. ~(list[l] < list[m]) /\ ~(list[m] < list[l])
    BY <1>11, <2>1
  <2>3. ~(l < m) /\ ~(m < l)
    BY <1>5, <2>2
  <2> QED BY <2>3
<1>12. OnePos(P)
  BY <1>8, <1>9, <1>11 DEF OnePos
<1>13. \A x : Has(P, x) => InPart(ds, x, 1) /\ x.pos \in ReplaceSet(ds)
  BY <1>9, <1>10 DEF Has
<1>14. ASSUME NEW i \in S PROVE \E x : Has(P, x) /\ x.pos = i
  <2>1. PICK m \in 1 .. c : list[m] = i
    BY <1>5
  <2>2. Has(P, P[m]) /\ P[m].pos = i
    BY <1>8, <1>9, <2>1 DEF Has
  <2> QED BY <2>2
<1> QED
  BY <1>2, <1>7, <1>9, <1>12, <1>13, <1>14

LEMMA ConcatPos ==
  ASSUME NEW E, NEW a \in Seq(E), NEW b \in Seq(E), OnePos(a), OnePos(b),
         \A x, y : Has(a, x) /\ Has(b, y) => x.pos # y.pos
  PROVE  OnePos(a \o b)
<1>1. PICK m \in Nat : m = Len(a) /\ DOMAIN a = 1 .. m
  OBVIOUS
<1>2. PICK n \in Nat : n = Len(b) /\ DOMAIN b = 1 .. n
  OBVIOUS
<1>3. PICK l : l = a \o b
  OBVIOUS
<1>4. DOMAIN l = 1 .. m + n /\ \A k \in 1 .. m + n : l[k] = IF k <= m THEN a[k] ELSE b[k - m]
  BY <1>1, <1>2, <1>3, ConcatFacts
<1>5. \A k \in 1 .. m + n : (k <= m /\ k \in 1 .. m) \/ (~(k <= m) /\ k - m \in 1 .. n)
  OBVIOUS
<1>6. ASSUME NEW j \in 1 .. m + n, NEW k \in 1 .. m + n, l[j].pos = l[k].pos PROVE j = k
  <2>1. CASE j <= m /\ k <= m
    BY <1>1, <1>4, <1>5, <1>6, <2>1 DEF OnePos
  <2>2. CASE ~(j <= m) /\ ~(k <= m)
    <3>1. j - m \in 1 .. n /\ k - m \in 1 .. n /\ b[j - m].pos = b[k - m].pos
      BY <1>4, <1>5, <1>6, <2>2
    <3>2. j - m = k - m
      BY <1>2, <3>1 DEF OnePos
    <3> QED BY <3>2
  <2>3. CASE j <= m /\ ~(k <= m)
    <3>1. Has(a, l[j]) /\ Has(b, l[k])
      BY <1>1, <1>2, <1>4, <1>5, <2>3 DEF Has
    <3> QED BY <1>6, <3>1
  <2>4. CASE ~(j <= m) /\ k <= m
    <3>1. Has(b, l[j]) /\ Has(a, l[k])
      BY <1>1, <1>2, <1>4, <1>5, <2>4 DEF Has
    <3> QED BY <1>6, <3>1
  <2> QED BY <2>1, <2>2, <2>3, <2>4
<1> QED
  BY <1>3, <1>4, <1>6 DEF OnePos

LEMMA EntriesFacts ==
  ASSUME NEW ds, Buildable(ds), NEW k \in Nat \ {0}
  PROVE  /\ EntriesOf(ds, k) \in Seq(PlanEntry)
         /\ \A x : Has(EntriesOf(ds, k), x) => InPart(ds, x, k)
         /\ OnePos(EntriesOf(ds, k))
         /\ \A i \in Positions(ds) : PartOf(ds, i) = k => \E x : Has(EntriesOf(ds, k), x) /\ x.pos = i
<1>1. PICK m \in Seq(PlanEntry) : m = Planned(ds, k, "male")
  BY PlannedFacts
<1>2. PICK f \in Seq(PlanEntry) : f = Planned(ds, k, "female")
  BY PlannedFacts
<1>a. PICK r : r = IF k = 1 THEN PlannedReplaces(ds) ELSE <<>>
  OBVIOUS
<1>3. r \in Seq(PlanEntry) /\ (k = 1 => r = PlannedReplaces(ds)) /\ (k # 1 => r = <<>>)
  <2>1. PlannedReplaces(ds) \in Seq(PlanEntry)
    BY PlannedReplacesFacts
  <2> QED BY <1>a, <2>1
<1>4. \A x : Has(m, x) => InPart(ds, x, k) /\ x.pos \in AddonSet(ds, "male")
  BY <1>1, PlannedFacts
<1>5. \A x : Has(f, x) => InPart(ds, x, k) /\ x.pos \in AddonSet(ds, "female")
  BY <1>2, PlannedFacts
<1>6. \A x : Has(r, x) => InPart(ds, x, k) /\ x.pos \in ReplaceSet(ds)
  <2>1. CASE k = 1
    BY <1>3, <2>1, PlannedReplacesFacts
  <2>2. CASE k # 1
    BY <1>3, <2>2 DEF Has
  <2> QED BY <2>1, <2>2
<1>7. OnePos(m) /\ OnePos(f) /\ OnePos(r)
  <2>1. OnePos(m)
    BY <1>1, PlannedFacts
  <2>2. OnePos(f)
    BY <1>2, PlannedFacts
  <2>3. CASE k = 1
    BY <1>3, <2>1, <2>2, <2>3, PlannedReplacesFacts
  <2>4. CASE k # 1
    BY <1>3, <2>1, <2>2, <2>4 DEF OnePos
  <2> QED BY <2>3, <2>4
<1>8. \A i : /\ i \in AddonSet(ds, "male") => i \notin AddonSet(ds, "female") /\ i \notin ReplaceSet(ds)
             /\ i \in AddonSet(ds, "female") => i \notin ReplaceSet(ds)
  BY DEF AddonSet, ReplaceSet
<1>9. PICK a \in Seq(PlanEntry) : a = m \o f
  BY ConcatProperties
<1>10. PICK l : l = a \o r
  OBVIOUS
<1>11. l = EntriesOf(ds, k) /\ l \in Seq(PlanEntry)
  BY <1>1, <1>2, <1>a, <1>3, <1>9, <1>10, ConcatProperties DEF EntriesOf
<1>12. \A x : Has(a, x) <=> Has(m, x) \/ Has(f, x)
  BY <1>9, ConcatEntries
<1>13. \A x : Has(l, x) <=> Has(a, x) \/ Has(r, x)
  BY <1>3, <1>10, ConcatEntries
<1>14. OnePos(a)
  <2>1. \A x, y : Has(m, x) /\ Has(f, y) => x.pos # y.pos
    BY <1>4, <1>5, <1>8
  <2> QED BY <1>7, <1>9, <2>1, ConcatPos
<1>15. OnePos(l)
  <2>1. \A x, y : Has(a, x) /\ Has(r, y) => x.pos # y.pos
    BY <1>4, <1>5, <1>6, <1>8, <1>12
  <2> QED BY <1>3, <1>7, <1>10, <1>14, <2>1, ConcatPos
<1>16. ASSUME NEW i \in Positions(ds), PartOf(ds, i) = k PROVE \E x : Has(l, x) /\ x.pos = i
  <2>1. i \in DOMAIN ds /\ A(ds, i).replace \in BOOLEAN /\ A(ds, i).gender \in {"male", "female"}
    BY AttrType DEF Positions, Genders
  <2>2. CASE A(ds, i).replace
    <3>1. k = 1 /\ i \in ReplaceSet(ds)
      BY <1>16, <2>2 DEF PartOf, ReplaceSet
    <3>2. \E x : Has(r, x) /\ x.pos = i
      BY <1>3, <3>1, PlannedReplacesFacts
    <3> QED BY <1>13, <3>2
  <2>3. CASE ~A(ds, i).replace /\ A(ds, i).gender = "male"
    <3>1. i \in AddonSet(ds, "male")
      BY <2>3 DEF AddonSet
    <3>2. \E x : Has(m, x) /\ x.pos = i
      BY <1>1, <1>16, <3>1, PlannedFacts
    <3> QED BY <1>12, <1>13, <3>2
  <2>4. CASE ~A(ds, i).replace /\ A(ds, i).gender = "female"
    <3>1. i \in AddonSet(ds, "female")
      BY <2>4 DEF AddonSet
    <3>2. \E x : Has(f, x) /\ x.pos = i
      BY <1>2, <1>16, <3>1, PlannedFacts
    <3> QED BY <1>12, <1>13, <3>2
  <2> QED BY <2>1, <2>2, <2>3, <2>4
<1>17. \A x : Has(l, x) => InPart(ds, x, k)
  BY <1>4, <1>5, <1>6, <1>12, <1>13
<1> QED
  BY <1>11, <1>15, <1>16, <1>17

\* There are as many parts as the longer of the two genders' lists fills.
LEMMA PartCountFacts ==
  ASSUME NEW ds, Buildable(ds)
  PROVE  /\ PartCount(ds) \in Nat \ {0}
         /\ \A g \in Genders : Chunks(AddonsOf(ds, g)) \in Nat /\ Chunks(AddonsOf(ds, g)) <= PartCount(ds)
         /\ PartCount(ds) = 1 \/ \E g \in Genders : PartCount(ds) = Chunks(AddonsOf(ds, g))
<1>1. PICK s \in Nat \ {0} : s = SplitAt
  BY ExportAssumption
<1>2. \A g : Chunks(AddonsOf(ds, g)) \in Nat
  <2> SUFFICES ASSUME NEW g PROVE Chunks(AddonsOf(ds, g)) \in Nat
    OBVIOUS
  <2>1. PICK L \in Nat : L = Len(AddonsOf(ds, g))
    BY AddonsFacts
  <2>2. L + s - 1 \in Nat
    OBVIOUS
  <2>3. (L + s - 1) \div s \in Nat
    BY <2>2, DivFacts
  <2> QED BY <1>1, <2>1, <2>3 DEF Chunks
<1>3. PICK a \in Nat : a = Chunks(AddonsOf(ds, "male"))
  BY <1>2
<1>4. PICK b \in Nat : b = Chunks(AddonsOf(ds, "female"))
  BY <1>2
<1>5. PartCount(ds) = Max({1} \cup {a, b})
  BY <1>3, <1>4 DEF PartCount, Genders
<1>6. PICK n \in Nat : n = a + b + 1
  OBVIOUS
<1>a. PICK S : S = {1} \cup {a, b} /\ S # {}
  OBVIOUS
<1>b. 1 \in 0 .. n /\ a \in 0 .. n /\ b \in 0 .. n
  BY <1>6
<1>7. S \in SUBSET (0 .. n)
  BY <1>a, <1>b
<1>8. Max(S) \in S /\ \A m \in S : m <= Max(S)
  BY <1>7, <1>a, MaxFacts
<1>9. PartCount(ds) \in {1, a, b} /\ 1 <= PartCount(ds) /\ a <= PartCount(ds) /\ b <= PartCount(ds)
  BY <1>5, <1>a, <1>8
<1> QED
  BY <1>3, <1>4, <1>9 DEF Genders

LEMMA PartsFacts ==
  ASSUME NEW ds, Buildable(ds)
  PROVE  /\ \A i \in Positions(ds) : PartOf(ds, i) \in 1 .. PartCount(ds)
         /\ \A k \in 2 .. PartCount(ds) : GendersOf(ds, k) # {}
<1>1. PICK s \in Nat \ {0} : s = SplitAt
  BY ExportAssumption
<1>2. PICK c \in Nat \ {0} : c = PartCount(ds)
  BY PartCountFacts
<1>3. ASSUME NEW i \in Positions(ds) PROVE PartOf(ds, i) \in 1 .. c
  <2>1. i \in DOMAIN ds /\ A(ds, i).replace \in BOOLEAN /\ A(ds, i).gender \in Genders
    BY AttrType DEF Positions
  <2>2. CASE A(ds, i).replace
    BY <2>2 DEF PartOf
  <2>3. CASE ~A(ds, i).replace
    <3>1. PICK g \in Genders : g = A(ds, i).gender /\ i \in AddonSet(ds, g)
      BY <2>1, <2>3 DEF AddonSet
    <3>2. PICK list \in Seq(AddonSet(ds, g)) : list = AddonsOf(ds, g)
      BY AddonsFacts
    <3>3. PICK L \in Nat : L = Len(list) /\ DOMAIN list = 1 .. L
      OBVIOUS
    <3>4. PICK q \in 1 .. L : list[q] = i
      BY <3>1, <3>2, <3>3, AddonsFacts
    <3>a. \A j \in DOMAIN list : Cardinality(Before(ds, list[j])) = j - 1
      BY <3>2, AddonsFacts
    <3>5. Cardinality(Before(ds, i)) = q - 1
      BY <3>a, <3>3, <3>4
    <3>6. PartOf(ds, i) = (q - 1) \div s + 1
      BY <1>1, <2>3, <3>5 DEF PartOf
    <3>7. (L + s - 1) \div s <= c
      BY <1>1, <1>2, <3>2, <3>3, PartCountFacts DEF Chunks
    <3>8. (q - 1) \div s \in Nat /\ (q - 1) \div s + 1 <= (L + s - 1) \div s
      <4>1. q - 1 \in Nat /\ L + s - 1 \in Nat /\ (q - 1) + s <= L + s - 1
        OBVIOUS
      <4>2. PICK d \in Nat : d = (q - 1) \div s /\ \E r \in 0 .. s - 1 : q - 1 = d * s + r
        BY <4>1, DivFacts
      <4>3. PICK e \in Nat : e = (L + s - 1) \div s /\ \E r \in 0 .. s - 1 : L + s - 1 = e * s + r
        BY <4>1, DivFacts
      <4>4. (d + 1) * s <= L + s - 1
        <5>1. d * s <= q - 1 /\ d * s \in Nat /\ (d + 1) * s = d * s + s
          BY <4>2
        <5> QED BY <4>1, <5>1
      <4>5. L + s - 1 < (e + 1) * s
        <5>1. e * s \in Nat /\ (e + 1) * s = e * s + s
          OBVIOUS
        <5> QED BY <4>3, <5>1
      <4>6. (d + 1) * s < (e + 1) * s
        BY <4>1, <4>4, <4>5
      <4>7. ~(d >= e)
        <5> SUFFICES ASSUME d >= e PROVE FALSE
          OBVIOUS
        <5>1. (e + 1) * s <= (d + 1) * s
          OBVIOUS
        <5>2. (e + 1) * s \in Nat /\ (d + 1) * s \in Nat
          OBVIOUS
        <5> QED BY <4>6, <5>1, <5>2
      <4> QED BY <4>2, <4>3, <4>7
    <3>9. (L + s - 1) \div s \in Nat
      BY DivFacts
    <3> QED BY <3>6, <3>7, <3>8, <3>9
  <2> QED BY <2>1, <2>2, <2>3
<1>4. ASSUME NEW k \in 2 .. c PROVE GendersOf(ds, k) # {}
  <2>1. PICK g \in Genders : c = Chunks(AddonsOf(ds, g))
    BY <1>2, PartCountFacts
  <2>2. PICK list \in Seq(AddonSet(ds, g)) : list = AddonsOf(ds, g)
    BY AddonsFacts
  <2>3. PICK L \in Nat : L = Len(list) /\ DOMAIN list = 1 .. L
    OBVIOUS
  <2>4. c = (L + s - 1) \div s
    BY <1>1, <2>1, <2>2, <2>3 DEF Chunks
  <2>5. PICK r \in 0 .. s - 1 : L + s - 1 = c * s + r
    <3>1. PICK x \in Nat : x = L + s - 1
      OBVIOUS
    <3>2. \E r \in 0 .. s - 1 : x = (x \div s) * s + r
      BY <3>1, DivFacts
    <3> QED BY <2>4, <3>1, <3>2
  <2>6. (k - 1) * s + 1 <= L
    <3>1. PICK b \in Nat : b = (k - 1) * s /\ k * s = b + s
      OBVIOUS
    <3>2. k * s <= c * s
      OBVIOUS
    <3>3. k * s \in Nat /\ c * s \in Nat
      OBVIOUS
    <3> QED BY <2>5, <3>1, <3>2, <3>3
  <2>7. 1 \in DOMAIN Chunk(list, k)
    BY <1>1, <2>2, <2>3, <2>6, ChunkFacts
  <2>8. Planned(ds, k, g) # <<>>
    <3>1. DOMAIN Planned(ds, k, g) = DOMAIN Chunk(list, k)
      BY <2>2 DEF Planned
    <3> QED BY <2>7, <3>1
  <2> QED BY <2>8 DEF GendersOf
<1> QED
  BY <1>2, <1>3, <1>4

LEMMA StoredBuildable ==
  ASSUME NEW p, Stored(p)
  PROVE  Buildable(p.drawable)
<1>1. p \in Projects /\ Parses(p) /\ "drawable" \in Types
  BY DEF Stored, Types
<1>2. p["drawable"] \in Seq(Entities("drawable"))
  BY <1>1, ListOfProject
<1>3. \A i \in DOMAIN p["drawable"] : p["drawable"][i].shape \in Shapes["drawable"]
  BY <1>1 DEF Parses
<1> QED
  BY <1>2, <1>3 DEF Buildable

\* i is at the n-th place of part k and nowhere else.
OnlyAt(plan, i, k, n) ==
    \A l \in DOMAIN plan : \A m \in DOMAIN plan[l] : plan[l][m].pos = i <=> l = k /\ m = n

LEMMA PlanFact ==
  ASSUME NEW ds, Buildable(ds), NEW plan, plan = [k \in 1 .. PartCount(ds) |-> EntriesOf(ds, k)]
  PROVE  /\ \A i \in Positions(ds) : \E k \in DOMAIN plan : \E n \in DOMAIN plan[k] : OnlyAt(plan, i, k, n)
         /\ \A k \in DOMAIN plan : \A n \in DOMAIN plan[k] : InPart(ds, plan[k][n], k)
<1>1. PICK c \in Nat \ {0} : c = PartCount(ds)
  BY PartCountFacts
<1>2. DOMAIN plan = 1 .. c /\ \A k \in 1 .. c : plan[k] = EntriesOf(ds, k)
  BY <1>1
<1>3. \A k \in 1 .. c : k \in Nat \ {0}
  OBVIOUS
<1>4. \A k \in 1 .. c : \A n \in DOMAIN plan[k] : InPart(ds, plan[k][n], k)
  <2> SUFFICES ASSUME NEW k \in 1 .. c, NEW n \in DOMAIN plan[k] PROVE InPart(ds, plan[k][n], k)
    OBVIOUS
  <2>1. Has(EntriesOf(ds, k), plan[k][n])
    BY <1>2 DEF Has
  <2> QED BY <1>3, <2>1, EntriesFacts
<1>5. ASSUME NEW i \in Positions(ds)
      PROVE  \E k \in DOMAIN plan : \E n \in DOMAIN plan[k] : OnlyAt(plan, i, k, n)
  <2>1. PICK k \in 1 .. c : k = PartOf(ds, i)
    BY <1>1, PartsFacts
  <2>2. PICK x : Has(EntriesOf(ds, k), x) /\ x.pos = i
    BY <1>3, <2>1, EntriesFacts
  <2>3. PICK n \in DOMAIN plan[k] : plan[k][n].pos = i
    BY <1>2, <2>2 DEF Has
  <2>4. OnePos(plan[k])
    BY <1>2, <1>3, EntriesFacts
  <2>5. ASSUME NEW l \in 1 .. c, NEW m \in DOMAIN plan[l], plan[l][m].pos = i PROVE l = k /\ m = n
    <3>1. l = k
      BY <1>4, <2>1, <2>5 DEF InPart
    <3>2. m \in DOMAIN plan[k] /\ plan[k][m].pos = plan[k][n].pos
      BY <2>3, <2>5, <3>1
    <3> QED BY <2>4, <3>1, <3>2 DEF OnePos
  <2>6. OnlyAt(plan, i, k, n)
    BY <1>2, <2>3, <2>5 DEF OnlyAt
  <2> QED BY <1>2, <2>6
<1> QED
  BY <1>2, <1>4, <1>5

(* planResourceParts puts every drawable with a YDD into one part, once,   *)
(* under the number that its rank says.                                    *)
THEOREM PlanMatchesReferenceTheorem == Spec => []PlanMatchesReference
<1>1. Stored(project) => PlanMatchesReference
  <2> SUFFICES ASSUME Stored(project) PROVE PlanMatchesReference
    OBVIOUS
  <2>1. PICK ds : ds = project.drawable /\ Buildable(ds)
    BY StoredBuildable
  <2>2. PICK plan : plan = [k \in 1 .. PartCount(ds) |-> EntriesOf(ds, k)]
    OBVIOUS
  <2>3. /\ \A i \in Positions(ds) : \E k \in DOMAIN plan : \E n \in DOMAIN plan[k] : OnlyAt(plan, i, k, n)
        /\ \A k \in DOMAIN plan : \A n \in DOMAIN plan[k] : InPart(ds, plan[k][n], k)
    BY <2>1, <2>2, PlanFact
  <2>4. \A k \in DOMAIN plan : \A n \in DOMAIN plan[k] :
                 LET e == plan[k][n] IN
                 /\ e.pos \in Positions(ds) /\ e.part = k
                 /\ k = PartOf(ds, e.pos) /\ e.nnn = NumberOf(ds, e.pos)
                 /\ A(ds, e.pos).replace \/ e.nnn < SplitAt
    BY <2>3 DEF InPart
  <2>5. \A k \in 2 .. PartCount(ds) : GendersOf(ds, k) # {}
    BY <2>1, PartsFacts
  <2> QED BY <2>1, <2>2, <2>3, <2>4, <2>5 DEF PlanMatchesReference, OnlyAt
<1> QED
  BY <1>1, ProjectStored, PTL

-----------------------------------------------------------------------------
(* The names of files.                                                     *)

LEMMA NumbersGrow ==
  ASSUME NEW ds, Buildable(ds), NEW i \in DOMAIN ds, NEW j \in DOMAIN ds, i < j,
         ~A(ds, i).replace, ~A(ds, j).replace, A(ds, i).ydd,
         A(ds, i).gender = A(ds, j).gender, A(ds, i).slot = A(ds, j).slot, PartOf(ds, i) = PartOf(ds, j)
  PROVE  NumberOf(ds, i) < NumberOf(ds, j)
<1>1. i \in Nat /\ j \in Nat
  BY DEF Buildable
<1>2. PICK S : S = {m \in Before(ds, i) : A(ds, m).slot = A(ds, i).slot /\ PartOf(ds, m) = PartOf(ds, i)}
  OBVIOUS
<1>3. PICK T : T = {m \in Before(ds, j) : A(ds, m).slot = A(ds, j).slot /\ PartOf(ds, m) = PartOf(ds, j)}
  OBVIOUS
<1>4. NumberOf(ds, i) = Cardinality(S) /\ NumberOf(ds, j) = Cardinality(T)
  BY <1>2, <1>3 DEF NumberOf
<1>5. i >= 1
  <2>1. DOMAIN ds = 1 .. Len(ds)
    BY DEF Buildable
  <2> QED BY <2>1
<1>6. S \cup {i} \subseteq T
  <2>1. \A m \in 1 .. i - 1 : m \in 1 .. j - 1
    BY <1>1
  <2>2. i \in 1 .. j - 1
    BY <1>1, <1>5
  <2> QED BY <1>2, <1>3, <2>1, <2>2 DEF Before
<1>7. i \notin S
  <2>1. i \notin 1 .. i - 1
    BY <1>1
  <2> QED BY <1>2, <2>1 DEF Before
<1>8. IsFiniteSet(T)
  <2>1. T \subseteq 1 .. j - 1
    BY <1>3 DEF Before
  <2>2. IsFiniteSet(1 .. j - 1)
    <3>1. 1 \in Int /\ j - 1 \in Int
      BY <1>1
    <3> QED BY <3>1, FS_Interval
  <2> QED BY <2>1, <2>2, FS_Subset
<1>9. PICK U : U = S \cup {i}
  OBVIOUS
<1>10. IsFiniteSet(U) /\ Cardinality(U) <= Cardinality(T) /\ IsFiniteSet(S)
  BY <1>6, <1>8, <1>9, FS_Subset
<1>11. Cardinality(U) = Cardinality(S) + 1 /\ Cardinality(S) \in Nat /\ Cardinality(T) \in Nat
  BY <1>7, <1>8, <1>9, <1>10, FS_AddElement, FS_CardinalityType
<1> QED
  BY <1>4, <1>10, <1>11

LEMMA SuffixFacts ==
  ASSUME NEW ds, Buildable(ds), NEW k \in 1 .. PartCount(ds), NEW l \in 1 .. PartCount(ds), Suffix(ds, k) = Suffix(ds, l)
  PROVE  k = l
<1>1. PICK c \in Nat \ {0} : c = PartCount(ds)
  BY PartCountFacts
<1> QED
  BY <1>1 DEF Suffix

LEMMA FileFacts ==
  ASSUME NEW ds, NEW e, NEW f \in FilesOf(ds, e)
  PROVE  /\ f.dlc = IF A(ds, e.pos).replace THEN None ELSE e.dlc
         /\ f.gender = A(ds, e.pos).gender /\ f.slot = A(ds, e.pos).slot /\ f.nnn = e.nnn
BY DEF FilesOf, Ydd, FileName

\* Entries that share a name are replaces of one target.
LEMMA OwnNames ==
  ASSUME NEW ds, Buildable(ds), NEW k \in 1 .. PartCount(ds), NEW l \in 1 .. PartCount(ds),
         NEW e, InPart(ds, e, k), NEW h, InPart(ds, h, l), NEW f \in FilesOf(ds, e), f \in FilesOf(ds, h), Alone(ds, e.pos)
  PROVE  e.pos = h.pos
<1>1. PICK i \in DOMAIN ds : i = e.pos /\ A(ds, i).ydd /\ PartOf(ds, i) = k /\ e.nnn = NumberOf(ds, i)
  BY DEF InPart, Positions
<1>2. PICK j \in DOMAIN ds : j = h.pos /\ A(ds, j).ydd /\ PartOf(ds, j) = l /\ h.nnn = NumberOf(ds, j)
  BY DEF InPart, Positions
<1>3. /\ (IF A(ds, i).replace THEN None ELSE e.dlc) = (IF A(ds, j).replace THEN None ELSE h.dlc)
      /\ A(ds, i).gender = A(ds, j).gender /\ A(ds, i).slot = A(ds, j).slot /\ NumberOf(ds, i) = NumberOf(ds, j)
  <2>1. f.dlc = (IF A(ds, i).replace THEN None ELSE e.dlc) /\ f.gender = A(ds, i).gender /\ f.slot = A(ds, i).slot
        /\ f.nnn = NumberOf(ds, i)
    BY <1>1, FileFacts
  <2>2. f.dlc = (IF A(ds, j).replace THEN None ELSE h.dlc) /\ f.gender = A(ds, j).gender /\ f.slot = A(ds, j).slot
        /\ f.nnn = NumberOf(ds, j)
    BY <1>2, FileFacts
  <2> QED BY <2>1, <2>2
<1>4. (~A(ds, i).replace => e.dlc = Suffix(ds, k)) /\ (~A(ds, j).replace => h.dlc = Suffix(ds, l))
  BY <1>1, <1>2 DEF InPart
<1>5. None # Suffix(ds, k) /\ None # Suffix(ds, l)
  BY ExportAssumption DEF Suffix
<1>6. A(ds, i).replace \in BOOLEAN /\ A(ds, j).replace \in BOOLEAN
  BY AttrType
<1>7. CASE A(ds, i).replace /\ A(ds, j).replace
  <2>1. A(ds, i).target = A(ds, j).target
    BY <1>3, <1>7 DEF NumberOf
  <2> QED BY <1>1, <1>2, <1>3, <1>7, <2>1 DEF Alone
<1>8. CASE ~A(ds, i).replace /\ ~A(ds, j).replace
  <2>1. k = l
    BY <1>3, <1>4, <1>8, SuffixFacts
  <2>2. NumberOf(ds, i) \in Nat
    <3>1. Before(ds, i) \subseteq 1 .. i - 1
      BY DEF Before
    <3>2. i \in Nat
      BY DEF Buildable
    <3>3. 1 \in Int /\ i - 1 \in Int
      BY <3>2
    <3>4. IsFiniteSet(1 .. i - 1)
      BY <3>3, FS_Interval
    <3>5. \A S \in SUBSET Before(ds, i) : Cardinality(S) \in Nat
      BY <3>1, <3>4, FS_Subset, FS_CardinalityType
    <3> QED BY <1>8, <3>5 DEF NumberOf
  <2>3. ~(i < j)
    <3> SUFFICES ASSUME i < j PROVE FALSE
      OBVIOUS
    <3>1. NumberOf(ds, i) < NumberOf(ds, j)
      BY <1>1, <1>2, <1>3, <1>8, <2>1, NumbersGrow
    <3> QED BY <1>3, <2>2, <3>1
  <2>4. ~(j < i)
    <3> SUFFICES ASSUME j < i PROVE FALSE
      OBVIOUS
    <3>1. NumberOf(ds, j) < NumberOf(ds, i)
      BY <1>1, <1>2, <1>3, <1>8, <2>1, NumbersGrow
    <3> QED BY <1>3, <2>2, <3>1
  <2>5. i \in Nat /\ j \in Nat
    BY DEF Buildable
  <2> QED BY <1>1, <1>2, <2>3, <2>4, <2>5
<1>9. CASE A(ds, i).replace # A(ds, j).replace
  BY <1>3, <1>4, <1>5, <1>6, <1>9
<1> QED
  BY <1>6, <1>7, <1>8, <1>9

LEMMA MetaNames ==
  ASSUME NEW ds, Buildable(ds), NEW k \in 1 .. PartCount(ds), NEW l \in 1 .. PartCount(ds),
         NEW g \in GendersOf(ds, k), NEW h \in GendersOf(ds, l), MetaName(ds, k, g) = MetaName(ds, l, h)
  PROVE  k = l /\ g = h
<1>1. MetaName(ds, k, g).folder = Suffix(ds, k) /\ MetaName(ds, l, h).folder = Suffix(ds, l)
  BY DEF MetaName
<1>2. k = l
  BY <1>1, SuffixFacts
<1>3. /\ MetaName(ds, k, g).gender = IF GendersOf(ds, k) = {g} THEN None ELSE g
      /\ MetaName(ds, l, h).gender = IF GendersOf(ds, l) = {h} THEN None ELSE h
  BY DEF MetaName
<1>4. g = h
  <2>1. CASE GendersOf(ds, k) = {g}
    BY <1>2, <2>1
  <2>2. CASE GendersOf(ds, k) # {g} /\ GendersOf(ds, k) # {h}
    BY <1>2, <1>3, <2>2
  <2>3. CASE GendersOf(ds, k) = {h}
    BY <2>3
  <2> QED BY <2>1, <2>2, <2>3
<1> QED
  BY <1>2, <1>4

-----------------------------------------------------------------------------
(* The build, step by step.                                                *)

LEMMA EntrySets ==
  ASSUME NEW ds, Buildable(ds), NEW k \in Nat \ {0}
  PROVE  /\ EntriesOf(ds, k) \in Seq(PlanEntry)
         /\ \A e \in ToSet(EntriesOf(ds, k)) : InPart(ds, e, k) /\ k \in 1 .. PartCount(ds)
<1>1. EntriesOf(ds, k) \in Seq(PlanEntry)
  BY EntriesFacts
<1>2. ASSUME NEW e \in ToSet(EntriesOf(ds, k)) PROVE InPart(ds, e, k)
  <2>1. Has(EntriesOf(ds, k), e)
    BY DEF ToSet, Has
  <2> QED BY <2>1, EntriesFacts
<1>3. ASSUME NEW e \in ToSet(EntriesOf(ds, k)) PROVE k \in 1 .. PartCount(ds)
  <2>1. e.pos \in Positions(ds) /\ PartOf(ds, e.pos) = k
    BY <1>2 DEF InPart
  <2> QED BY <2>1, PartsFacts
<1> QED
  BY <1>1, <1>2, <1>3

LEMMA HeadAndTail ==
  ASSUME NEW E, NEW l \in Seq(E), l # <<>>
  PROVE  Tail(l) \in Seq(E) /\ ToSet(l) = {Head(l)} \cup ToSet(Tail(l))
<1>1. PICK n \in Nat \ {0} : n = Len(l) /\ DOMAIN l = 1 .. n
  OBVIOUS
<1>2. PICK r : r = Tail(l)
  OBVIOUS
<1>3. r \in Seq(E) /\ Len(r) = n - 1 /\ DOMAIN r = 1 .. n - 1 /\ \A i \in 1 .. n - 1 : r[i] = l[i + 1]
  BY <1>1, <1>2
<1>4. Head(l) = l[1]
  OBVIOUS
<1>5. ASSUME NEW i \in 1 .. n PROVE l[i] = Head(l) \/ l[i] \in ToSet(r)
  <2>1. CASE i = 1
    BY <1>4, <2>1
  <2>2. CASE i # 1
    <3>1. i - 1 \in 1 .. n - 1 /\ (i - 1) + 1 = i
      BY <2>2
    <3> QED BY <1>3, <3>1 DEF ToSet
  <2> QED BY <2>1, <2>2
<1>6. ASSUME NEW i \in 1 .. n - 1 PROVE r[i] \in ToSet(l)
  <2>1. i + 1 \in 1 .. n
    OBVIOUS
  <2> QED BY <1>1, <1>3, <2>1 DEF ToSet
<1>7. Head(l) \in ToSet(l)
  BY <1>1, <1>4 DEF ToSet
<1>8. ToSet(l) \subseteq {Head(l)} \cup ToSet(r)
  BY <1>1, <1>5 DEF ToSet
<1>9. ToSet(r) \subseteq ToSet(l)
  BY <1>3, <1>6 DEF ToSet
<1> QED
  BY <1>2, <1>3, <1>7, <1>8, <1>9

LEMMA OverFacts ==
  ASSUME NEW w, NEW files
  PROVE  /\ DOMAIN Over(w, files) = DOMAIN w \cup DOMAIN files
         /\ \A f \in DOMAIN w : Over(w, files)[f] = w[f]
         /\ \A f \in DOMAIN files \ DOMAIN w : Over(w, files)[f] = files[f]
BY DEF Over

LEMMA ShippingBuild ==
  ASSUME Stored(project), Build
  PROVE  Shipping'
<1> SUFFICES ASSUME revision' # None PROVE (PlanKept /\ OwnFiles /\ YddsWritten /\ MetasWritten)'
  BY DEF Shipping
<1>1. PICK ds : ds = revision' /\ Buildable(ds)
  BY StoredBuildable DEF Build
<1>2. part' = 1 /\ todo' = EntriesOf(ds, 1) /\ zip' = <<>> /\ metas' = <<>> /\ gone' = {}
  BY <1>1 DEF Build
<1>3. PlanKept'
  BY <1>1, <1>2, EntrySets DEF PlanKept
<1>4. OwnFiles'
  BY <1>2 DEF OwnFiles
<1>5. YddsWritten'
  <2>1. \A k \in 1 .. 1 : k = 1
    OBVIOUS
  <2> QED BY <1>1, <1>2, <2>1 DEF YddsWritten
<1>6. MetasWritten'
  <2>1. \A k \in 1 .. PartCount(ds) : ~(k < 1)
    OBVIOUS
  <2> QED BY <1>1, <1>2, <2>1 DEF MetasWritten
<1> QED
  BY <1>3, <1>4, <1>5, <1>6

LEMMA ShippingWrite ==
  ASSUME Shipping, WriteEntry
  PROVE  Shipping'
<1> SUFFICES ASSUME revision' # None PROVE (PlanKept /\ OwnFiles /\ YddsWritten /\ MetasWritten)'
  BY DEF Shipping
<1>1. PICK ds : ds = revision /\ ds = revision' /\ ds # None
  BY DEF WriteEntry
<1>2. PlanKept /\ OwnFiles /\ YddsWritten /\ MetasWritten
  BY <1>1 DEF Shipping
<1>3. PICK k \in Nat \ {0} : k = part /\ k = part'
  BY <1>2 DEF PlanKept, WriteEntry
<1>4. PICK l \in Seq(PlanEntry) : l = todo /\ l # <<>>
  BY <1>2 DEF PlanKept, WriteEntry
<1>5. PICK h : h = Head(l)
  OBVIOUS
<1>6. PICK r \in Seq(PlanEntry) : r = todo' /\ ToSet(l) = {h} \cup ToSet(r)
  BY <1>4, <1>5, HeadAndTail DEF WriteEntry
<1>7. Buildable(ds) /\ ToSet(l) \subseteq ToSet(EntriesOf(ds, k))
  BY <1>1, <1>2, <1>3, <1>4 DEF PlanKept
<1>8. h \in ToSet(EntriesOf(ds, k)) /\ k \in 1 .. PartCount(ds)
  <2>1. h \in ToSet(EntriesOf(ds, k))
    BY <1>6, <1>7
  <2> QED BY <1>7, <2>1, EntrySets
<1>9. PICK present \in SUBSET FilesOf(ds, h) :
          IF Ydd(ds, h) \in present THEN zip' = Over([f \in present |-> h.pos], zip) /\ gone' = gone
          ELSE zip' = zip /\ gone' = gone \cup {h.pos}
  BY <1>1, <1>4, <1>5 DEF WriteEntry
<1>10. PlanKept'
  BY <1>1, <1>3, <1>6, <1>7 DEF PlanKept
<1>11. /\ \A f \in DOMAIN zip' :
             (f \in DOMAIN zip /\ zip'[f] = zip[f]) \/ (f \in FilesOf(ds, h) /\ zip'[f] = h.pos)
       /\ DOMAIN zip \subseteq DOMAIN zip' /\ gone \subseteq gone'
       /\ h.pos \in gone' \/ Ydd(ds, h) \in DOMAIN zip'
  <2>1. CASE Ydd(ds, h) \in present
    <3>1. PICK files : files = [f \in present |-> h.pos]
      OBVIOUS
    <3>2. PICK old, new : old = zip /\ new = zip' /\ new = Over(files, old) /\ gone' = gone
      BY <1>9, <2>1, <3>1
    <3>3. /\ DOMAIN new = DOMAIN files \cup DOMAIN old
          /\ \A f \in DOMAIN files : new[f] = files[f]
          /\ \A f \in DOMAIN old \ DOMAIN files : new[f] = old[f]
      <4>1. /\ DOMAIN Over(files, old) = DOMAIN files \cup DOMAIN old
            /\ \A f \in DOMAIN files : Over(files, old)[f] = files[f]
            /\ \A f \in DOMAIN old \ DOMAIN files : Over(files, old)[f] = old[f]
        BY OverFacts
      <4>2. new = Over(files, old)
        BY <3>2
      <4> QED BY <4>1, <4>2
    <3>4. DOMAIN files = present /\ \A f \in present : files[f] = h.pos
      BY <3>1
    <3>5. \A f \in DOMAIN new : (f \in DOMAIN old /\ new[f] = old[f]) \/ (f \in FilesOf(ds, h) /\ new[f] = h.pos)
      BY <3>3, <3>4
    <3> QED BY <2>1, <3>2, <3>3, <3>4, <3>5
  <2>2. CASE Ydd(ds, h) \notin present
    BY <1>9, <2>2
  <2> QED BY <2>1, <2>2
<1>12. OwnFiles'
  <2> SUFFICES ASSUME NEW f \in DOMAIN zip'
               PROVE  \E m \in 1 .. PartCount(ds) : \E e \in ToSet(EntriesOf(ds, m)) :
                         f \in FilesOf(ds, e) /\ zip'[f] = e.pos
    BY <1>1 DEF OwnFiles
  <2>1. CASE f \in DOMAIN zip /\ zip'[f] = zip[f]
    BY <1>1, <1>2, <2>1 DEF OwnFiles
  <2>2. CASE f \in FilesOf(ds, h) /\ zip'[f] = h.pos
    BY <1>8, <2>2
  <2> QED BY <1>11, <2>1, <2>2
<1>13. YddsWritten'
  <2> SUFFICES ASSUME NEW m \in 1 .. k, NEW e \in ToSet(EntriesOf(ds, m)), m = k => e \notin ToSet(r), e.pos \notin gone'
               PROVE  Ydd(ds, e) \in DOMAIN zip'
    BY <1>1, <1>3, <1>6 DEF YddsWritten
  <2>1. CASE e = h
    BY <1>11, <2>1
  <2>2. CASE e # h
    <3>1. (m = k => e \notin ToSet(l)) /\ e.pos \notin gone
      BY <1>6, <1>11, <2>2
    <3>2. Ydd(ds, e) \in DOMAIN zip
      BY <1>1, <1>2, <1>3, <1>4, <3>1 DEF YddsWritten
    <3> QED BY <1>11, <3>2
  <2> QED BY <2>1, <2>2
<1>14. MetasWritten'
  BY <1>1, <1>2, <1>3 DEF MetasWritten, WriteEntry
<1> QED
  BY <1>10, <1>12, <1>13, <1>14

LEMMA ShippingClose ==
  ASSUME Shipping, ClosePart
  PROVE  Shipping'
<1> SUFFICES ASSUME revision' # None PROVE (PlanKept /\ OwnFiles /\ YddsWritten /\ MetasWritten)'
  BY DEF Shipping
<1>1. PICK ds : ds = revision /\ ds = revision' /\ ds # None
  BY DEF ClosePart
<1>2. PlanKept /\ OwnFiles /\ YddsWritten /\ MetasWritten
  BY <1>1 DEF Shipping
<1>3. PICK k \in Nat \ {0} : k = part /\ k + 1 = part' /\ k <= PartCount(ds)
  BY <1>1, <1>2 DEF PlanKept, ClosePart
<1>4. Buildable(ds) /\ k + 1 \in Nat \ {0} /\ todo = <<>> /\ todo' = EntriesOf(ds, k + 1) /\ zip' = zip /\ gone' = gone
  BY <1>1, <1>2, <1>3 DEF PlanKept, ClosePart
<1>5. PICK c \in Nat \ {0} : c = PartCount(ds)
  BY <1>4, PartCountFacts
<1>6. PlanKept'
  BY <1>1, <1>3, <1>4, EntrySets DEF PlanKept
<1>7. OwnFiles'
  BY <1>1, <1>2, <1>4 DEF OwnFiles
<1>8. YddsWritten'
  <2> SUFFICES ASSUME NEW m \in 1 .. k + 1, NEW e \in ToSet(EntriesOf(ds, m)),
                      m = k + 1 => e \notin ToSet(EntriesOf(ds, k + 1)), e.pos \notin gone
               PROVE  Ydd(ds, e) \in DOMAIN zip
    BY <1>1, <1>3, <1>4 DEF YddsWritten
  <2>1. m # k + 1
    OBVIOUS
  <2>2. m \in 1 .. k
    BY <2>1
  <2>3. e \notin ToSet(todo)
    BY <1>4 DEF ToSet
  <2> QED BY <1>1, <1>2, <1>3, <2>2, <2>3 DEF YddsWritten
<1>9. MetasWritten'
  <2>1. PICK wm : wm = [n \in {MetaName(ds, k, h) : h \in GendersOf(ds, k) \cap {"male"}} |-> MetaOf(ds, k, "male")]
    OBVIOUS
  <2>2. PICK wf : wf = [n \in {MetaName(ds, k, h) : h \in GendersOf(ds, k) \cap {"female"}} |-> MetaOf(ds, k, "female")]
    OBVIOUS
  <2>3. PICK old, mid, new : old = metas /\ mid = Over(wm, old) /\ new = Over(wf, mid) /\ new = metas'
    BY <1>1, <1>3, <2>1, <2>2 DEF ClosePart
  <2>4. /\ DOMAIN Over(wm, old) = DOMAIN wm \cup DOMAIN old
        /\ \A n \in DOMAIN wm : Over(wm, old)[n] = wm[n]
        /\ \A n \in DOMAIN old \ DOMAIN wm : Over(wm, old)[n] = old[n]
    BY OverFacts
  <2>5. /\ DOMAIN Over(wf, mid) = DOMAIN wf \cup DOMAIN mid
        /\ \A n \in DOMAIN wf : Over(wf, mid)[n] = wf[n]
        /\ \A n \in DOMAIN mid \ DOMAIN wf : Over(wf, mid)[n] = mid[n]
    BY OverFacts
  <2>6. /\ DOMAIN new = DOMAIN wf \cup DOMAIN wm \cup DOMAIN old
        /\ \A n \in DOMAIN wf : new[n] = wf[n]
        /\ \A n \in DOMAIN wm \ DOMAIN wf : new[n] = wm[n]
        /\ \A n \in (DOMAIN old \ DOMAIN wm) \ DOMAIN wf : new[n] = old[n]
    BY <2>3, <2>4, <2>5
  <2>7. k \in 1 .. c
    BY <1>3, <1>5
  <2>8. ASSUME NEW m \in 1 .. c, m < k + 1, NEW g \in GendersOf(ds, m)
        PROVE  MetaName(ds, m, g) \in DOMAIN new /\ new[MetaName(ds, m, g)] = MetaOf(ds, m, g)
    <3>1. PICK n : n = MetaName(ds, m, g)
      OBVIOUS
    <3>2. \A h \in GendersOf(ds, k) : MetaName(ds, k, h) = n => k = m /\ h = g
      BY <1>4, <1>5, <2>7, <2>8, <3>1, MetaNames
    <3>3. (n \in DOMAIN wm => k = m /\ g = "male") /\ (n \in DOMAIN wf => k = m /\ g = "female")
      BY <2>1, <2>2, <3>2
    <3>4. CASE m # k
      <4>1. m < k
        BY <1>3, <2>8, <3>4
      <4>2. n \in DOMAIN old /\ old[n] = MetaOf(ds, m, g)
        BY <1>1, <1>2, <1>3, <1>5, <2>3, <2>8, <3>1, <4>1 DEF MetasWritten
      <4> QED BY <2>6, <3>1, <3>3, <3>4, <4>2
    <3>5. CASE m = k /\ g = "male"
      <4>1. n \in DOMAIN wm /\ wm[n] = MetaOf(ds, k, "male")
        BY <2>1, <2>8, <3>1, <3>5
      <4> QED BY <2>6, <3>1, <3>3, <3>5, <4>1
    <3>6. CASE m = k /\ g = "female"
      <4>1. n \in DOMAIN wf /\ wf[n] = MetaOf(ds, k, "female")
        BY <2>2, <2>8, <3>1, <3>6
      <4> QED BY <2>6, <3>1, <3>6, <4>1
    <3>7. g \in {"male", "female"}
      BY <2>8 DEF GendersOf, Genders
    <3> QED BY <3>4, <3>5, <3>6, <3>7
  <2> QED BY <1>1, <1>3, <1>5, <2>3, <2>8 DEF MetasWritten
<1> QED
  BY <1>6, <1>7, <1>8, <1>9

(* At every step of buildFivemResourceZip the ZIP agrees with the plan.    *)
THEOREM ShippingTheorem == Spec => []Shipping
<1>1. Init => Shipping
  BY DEF Init, Shipping
<1>2. ASSUME Stored(project), Shipping, [Next]_vars PROVE Shipping'
  <2>1. CASE Edit
    BY <2>1 DEF Edit, Shipping
  <2>2. CASE Build
    BY <1>2, <2>2, ShippingBuild
  <2>3. CASE WriteEntry
    BY <1>2, <2>3, ShippingWrite
  <2>4. CASE ClosePart
    BY <1>2, <2>4, ShippingClose
  <2>5. CASE Deliver
    BY <2>5 DEF Deliver, Shipping
  <2>6. CASE UNCHANGED vars
    BY <1>2, <2>6 DEF vars, Shipping, PlanKept, OwnFiles, YddsWritten, MetasWritten
  <2> QED BY <1>2, <2>1, <2>2, <2>3, <2>4, <2>5, <2>6 DEF Next
<1> QED
  BY <1>1, <1>2, ProjectStored, PTL DEF Spec

LEMMA MetaFacts ==
  ASSUME NEW ds, Buildable(ds), NEW k \in Nat \ {0}, NEW e, InPart(ds, e, k), ~A(ds, e.pos).replace
  PROVE  /\ A(ds, e.pos).gender \in GendersOf(ds, k)
         /\ MetaOf(ds, k, A(ds, e.pos).gender).gender = A(ds, e.pos).gender
         /\ ~A(ds, e.pos).prop => <<A(ds, e.pos).slot, e.nnn>> \in MetaOf(ds, k, A(ds, e.pos).gender).components
         /\ A(ds, e.pos).creature => MetaOf(ds, k, A(ds, e.pos).gender).creature
<1>1. PICK i \in Positions(ds) : i = e.pos /\ PartOf(ds, i) = k /\ e.nnn = NumberOf(ds, i) /\ ~A(ds, i).replace
  BY DEF InPart
<1>2. PICK g \in Genders : g = A(ds, i).gender
  BY AttrType DEF Positions
<1>3. i \in AddonSet(ds, g)
  BY <1>1, <1>2 DEF AddonSet
<1>4. PICK P \in Seq(PlanEntry) : P = Planned(ds, k, g)
  BY PlannedFacts
<1>5. PICK x : Has(P, x) /\ x.pos = i
  BY <1>1, <1>3, <1>4, PlannedFacts
<1>6. InPart(ds, x, k)
  BY <1>4, <1>5, PlannedFacts
<1>7. x.nnn = e.nnn
  BY <1>1, <1>5, <1>6 DEF InPart
<1>8. PICK n \in DOMAIN P : P[n].pos = i /\ P[n].nnn = e.nnn
  BY <1>5, <1>7 DEF Has
<1>9. g \in GendersOf(ds, k)
  BY <1>4, <1>8 DEF GendersOf
<1>10. /\ MetaOf(ds, k, g).gender = g
       /\ MetaOf(ds, k, g).components =
             {<<A(ds, P[m].pos).slot, P[m].nnn>> : m \in {l \in DOMAIN P : ~A(ds, P[l].pos).prop}}
       /\ MetaOf(ds, k, g).creature = \E m \in DOMAIN P : A(ds, P[m].pos).creature
  BY <1>4 DEF MetaOf
<1>11. ~A(ds, i).prop => <<A(ds, i).slot, e.nnn>> \in MetaOf(ds, k, g).components
  BY <1>8, <1>10
<1>12. A(ds, i).creature => MetaOf(ds, k, g).creature
  BY <1>8, <1>10
<1> QED
  BY <1>1, <1>2, <1>9, <1>10, <1>11, <1>12

(* What buildFivemResourceZip delivers has every planned file that could   *)
(* be read, from its own drawable, and the metas that list it.             *)
THEOREM ShippedAsPlannedTheorem == Spec => []ShippedAsPlanned
<1>1. Shipping => ShippedAsPlanned
  <2> SUFFICES ASSUME Shipping, Complete, NEW k \in 1 .. PartCount(revision), NEW n \in DOMAIN EntriesOf(revision, k)
               PROVE  LET e == EntriesOf(revision, k)[n]
                          a == A(revision, e.pos)
                      IN /\ Alone(revision, e.pos) =>
                               /\ e.pos \notin gone => Ydd(revision, e) \in DOMAIN zip
                               /\ \A f \in FilesOf(revision, e) \cap DOMAIN zip : zip[f] = e.pos
                         /\ ~a.replace =>
                               \E m \in DOMAIN metas :
                                  /\ m.folder = Suffix(revision, k) /\ metas[m].gender = a.gender
                                  /\ ~a.prop => <<a.slot, e.nnn>> \in metas[m].components
                                  /\ a.creature => metas[m].creature
    BY DEF ShippedAsPlanned
  <2>1. PICK ds : ds = revision /\ ds # None
    BY DEF Complete
  <2>2. PlanKept /\ OwnFiles /\ YddsWritten /\ MetasWritten
    BY <2>1 DEF Shipping, Complete
  <2>3. PICK c \in Nat \ {0} : c = PartCount(ds)
    BY <2>1, <2>2, PartCountFacts DEF PlanKept
  <2>4. Buildable(ds) /\ k \in 1 .. c /\ k \in Nat \ {0} /\ part \in Nat /\ c < part
    BY <2>1, <2>2, <2>3 DEF PlanKept, Complete
  <2>5. PICK e : e = EntriesOf(ds, k)[n] /\ e \in ToSet(EntriesOf(ds, k))
    BY <2>1 DEF ToSet
  <2>6. InPart(ds, e, k)
    BY <2>4, <2>5, EntrySets
  <2>7. e.pos \notin gone => Ydd(ds, e) \in DOMAIN zip
    <3>1. k \in 1 .. part /\ k # part
      BY <2>4
    <3> QED BY <2>1, <2>2, <2>5, <3>1 DEF YddsWritten
  <2>8. ASSUME Alone(ds, e.pos), NEW f \in FilesOf(ds, e) \cap DOMAIN zip PROVE zip[f] = e.pos
    <3>1. PICK l \in 1 .. c : \E h \in ToSet(EntriesOf(ds, l)) : f \in FilesOf(ds, h) /\ zip[f] = h.pos
      BY <2>1, <2>2, <2>3 DEF OwnFiles
    <3>2. PICK h \in ToSet(EntriesOf(ds, l)) : f \in FilesOf(ds, h) /\ zip[f] = h.pos
      BY <3>1
    <3>3. l \in Nat \ {0}
      OBVIOUS
    <3>4. InPart(ds, h, l)
      BY <2>4, <3>3, EntrySets
    <3>5. e.pos = h.pos
      BY <2>3, <2>4, <2>6, <2>8, <3>2, <3>4, OwnNames
    <3> QED BY <3>2, <3>5
  <2>9. ASSUME ~A(ds, e.pos).replace
        PROVE  \E m \in DOMAIN metas :
                  /\ m.folder = Suffix(ds, k) /\ metas[m].gender = A(ds, e.pos).gender
                  /\ ~A(ds, e.pos).prop => <<A(ds, e.pos).slot, e.nnn>> \in metas[m].components
                  /\ A(ds, e.pos).creature => metas[m].creature
    <3>1. PICK g : g = A(ds, e.pos).gender /\ g \in GendersOf(ds, k)
      BY <2>4, <2>6, <2>9, MetaFacts
    <3>2. PICK meta : meta = MetaOf(ds, k, g)
      OBVIOUS
    <3>3. /\ meta.gender = g
          /\ ~A(ds, e.pos).prop => <<A(ds, e.pos).slot, e.nnn>> \in meta.components
          /\ A(ds, e.pos).creature => meta.creature
      BY <2>4, <2>6, <2>9, <3>1, <3>2, MetaFacts
    <3>a. MetaName(ds, k, g).folder = Suffix(ds, k)
      BY DEF MetaName
    <3>4. PICK m : m = MetaName(ds, k, g) /\ m.folder = Suffix(ds, k)
      BY <3>a
    <3>5. k < part
      BY <2>4
    <3>6. m \in DOMAIN metas /\ metas[m] = meta
      BY <2>1, <2>2, <2>3, <2>4, <3>1, <3>2, <3>4, <3>5 DEF MetasWritten
    <3> QED BY <3>1, <3>3, <3>4, <3>6
  <2> QED BY <2>1, <2>5, <2>7, <2>8, <2>9
<1> QED
  BY <1>1, ShippingTheorem, PTL
=============================================================================
