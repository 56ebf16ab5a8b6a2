---------------------------- MODULE PacksProofs ----------------------------
(***************************************************************************)
(* Proofs about Packs, for any users, packs, names and requests.           *)
(*                                                                         *)
(* Requests only remember what they read, so the invariant IInv says what  *)
(* of it stays true until they write: a revision that was found stays, a   *)
(* head that was moved belongs to one request until its revision is        *)
(* written, and a slug found free stays free unless the request knows that *)
(* another took it.                                                        *)
(***************************************************************************)
EXTENDS Packs, TLAPS

-----------------------------------------------------------------------------
(* Requests.                                                               *)

LEMMA IdleIsRequest == Idle \in Request /\ Shape(Idle) /\ Idle.pc = "idle"
BY PacksAssumption DEF Idle, Request, Steps, Shape

(* A request goes over to r; no pack disappears.                           *)
LEMMA RequestStep ==
  ASSUME IInv, NEW q \in Requests, NEW r \in Request,
         req' = [req EXCEPT ![q] = r],
         packs' \in [Packs -> Pack],
         \A p \in Packs : packs[p].state # "none" => packs'[p].state # "none",
         Shape(r)'
  PROVE  /\ req' \in [Requests -> Request]
         /\ req'[q] = r /\ \A x \in Requests \ {q} : req'[x] = req[x]
         /\ (\A x \in Requests : Shape(req[x]))'
<1>1. req \in [Requests -> Request]
  BY DEF IInv, TypeOK
<1>2. /\ req' \in [Requests -> Request]
      /\ req'[q] = r /\ \A x \in Requests \ {q} : req'[x] = req[x]
  BY <1>1
<1>3. ASSUME NEW x \in Requests PROVE Shape(req[x])'
  <2>1. CASE x = q
    BY <2>1, <1>2 DEF Shape
  <2>2. CASE x # q
    <3>1. Shape(req[x])
      BY DEF IInv
    <3>2. req'[x] = req[x]
      BY <2>2, <1>2
    <3> QED BY <3>1, <3>2 DEF Shape
  <2> QED BY <2>1, <2>2
<1> QED BY <1>2, <1>3

LEMMA Pc ==
  ASSUME IInv, NEW q \in Requests, NEW pc \in Steps
  PROVE  LET r == [req[q] EXCEPT !.pc = pc] IN
         /\ r \in Request /\ req[q] \in Request
         /\ r.pc = pc /\ r.user = req[q].user /\ r.pack = req[q].pack /\ r.target = req[q].target
         /\ r.role = req[q].role /\ r.number = req[q].number /\ r.slug = req[q].slug
BY DEF IInv, TypeOK, Request

(* A request moves on, and nothing else changes: what it will write next   *)
(* must be known.                                                          *)
LEMMA RequestOnly ==
  ASSUME IInv, NEW q \in Requests, NEW r \in Request,
         req' = [req EXCEPT ![q] = r], UNCHANGED <<packs, revisions, built, history>>,
         served' \in 0 .. MaxServed, Shape(r),
         {r.pc, req[q].pc} \cap {"push", "insertRev"} = {},
         r.pc = "insert" /\ r.alone => ~SlugTaken(r.slug),
         r.pc \in {"publish", "build"} => <<r.pack, r.number>> \in revisions
  PROVE  IInv'
<1> USE DEF history
<1>1. packs' \in [Packs -> Pack] /\ Shape(r)'
  BY DEF IInv, TypeOK, Shape
<1>2. /\ req' \in [Requests -> Request]
      /\ req'[q] = r /\ \A x \in Requests \ {q} : req'[x] = req[x]
      /\ (\A x \in Requests : Shape(req[x]))'
  BY <1>1, RequestStep
<1>3. TypeOK'
  BY <1>2 DEF IInv, TypeOK
<1>4. NothingBefore' /\ SlugsDistinct'
  BY DEF IInv, NothingBefore, SlugsDistinct, Active
<1>5. \A p, n : Writing(p, n)' = Writing(p, n) /\ Pushing(p, n)' = Pushing(p, n)
  BY <1>2 DEF Writing, Pushing
<1>6. RevisionsUpToHead'
  BY <1>5 DEF IInv, RevisionsUpToHead
<1>7. SlugsFreeUnlessRaced'
  BY <1>2 DEF IInv, SlugsFreeUnlessRaced, SlugTaken, Active
<1>8. RolesAsGrantedUnlessTorn'
  BY <1>5 DEF IInv, RolesAsGrantedUnlessTorn, Active
<1>9. ListedAndBuiltExist'
  BY <1>2 DEF IInv, ListedAndBuiltExist
<1> QED BY <1>2, <1>3, <1>4, <1>6, <1>7, <1>8, <1>9 DEF IInv

LEMMA FindSlugKeeps ==
  ASSUME IInv, NEW q \in Requests, NEW u \in Users, NEW b \in Bases, NEW head \in {0, 1}, NEW s \in Slugs,
         FindSlug(q, u, b, head, s)
  PROVE  IInv'
<1> DEFINE r == [pc |-> "insert", user |-> u, pack |-> None, target |-> None, role |-> "none",
                 number |-> head, listed |-> FALSE, slug |-> s, alone |-> TRUE]
<1>1. r \in Request /\ Shape(r)
  BY PacksAssumption DEF Request, Steps, Shape
<1>2. ~SlugTaken(s)
  BY DEF FindSlug, NextSlug
<1>3. /\ req' = [req EXCEPT ![q] = r] /\ req[q].pc = "idle"
      /\ served < MaxServed /\ served' = served + 1 /\ UNCHANGED <<packs, revisions, built, history>>
  BY DEF FindSlug, Arrive
<1>4. served' \in 0 .. MaxServed
  BY <1>3, PacksAssumption DEF IInv, TypeOK
<1>5. r.pc = "insert" /\ r.slug = s
  OBVIOUS
<1> HIDE DEF r
<1> QED BY <1>1, <1>2, <1>3, <1>4, <1>5, RequestOnly

LEMMA LoadKeeps ==
  ASSUME IInv, NEW q \in Requests, NEW u \in Users \cup {None}, NEW p \in Packs,
         NEW pc \in {"pull", "remove", "archive", "publishable", "bump", "buildable", "build"},
         NEW t \in Users \cup {None}, NEW role \in Grants \cup {"none"}, NEW n \in 0 .. MaxRev,
         NEW listed \in BOOLEAN,
         Active(p),
         Arrive(q, [pc |-> pc, user |-> u, pack |-> p, target |-> t, role |-> role,
                    number |-> n, listed |-> listed, slug |-> <<>>, alone |-> FALSE]),
         UNCHANGED <<packs, revisions, built, history>>,
         pc \in {"pull", "remove"} => t \in Users,
         pc = "pull" => role \in Grants,
         pc = "bump" => n < MaxRev,
         pc \in {"publishable", "buildable"} => n > 0,
         pc = "build" => <<p, n>> \in revisions
  PROVE  IInv'
<1> DEFINE r == [pc |-> pc, user |-> u, pack |-> p, target |-> t, role |-> role,
                 number |-> n, listed |-> listed, slug |-> <<>>, alone |-> FALSE]
<1>1. r \in Request
  BY DEF Request, Steps
<1>2. pc = "build" => n > 0
  BY DEF IInv, TypeOK
<1>3. Shape(r)
  BY <1>2 DEF Shape, Active
<1>4. /\ req' = [req EXCEPT ![q] = r] /\ req[q].pc = "idle"
      /\ served < MaxServed /\ served' = served + 1
  BY DEF Arrive
<1>5. served' \in 0 .. MaxServed
  BY <1>4, PacksAssumption DEF IInv, TypeOK
<1>6. r.pc = pc /\ r.pack = p /\ r.number = n
  OBVIOUS
<1> HIDE DEF r
<1>7. r.pc # "publish" /\ r.pc \notin {"insert", "push", "insertRev"}
  BY <1>6
<1> QED BY <1>1, <1>3, <1>4, <1>5, <1>6, <1>7, RequestOnly

LEMMA ReceiveKeeps ==
  ASSUME IInv, NEW q \in Requests, Receive(q)
  PROVE  IInv'
<1>0. 0 \in 0 .. MaxRev /\ None \in Users \cup {None} /\ FALSE \in BOOLEAN
  BY PacksAssumption
<1>1. CASE \E u \in Users, b \in Bases, head \in {0, 1}, s \in Slugs : FindSlug(q, u, b, head, s)
  BY <1>1, FindSlugKeeps
<1>2. ASSUME NEW u \in Users, NEW p \in Packs, NEW t \in Users, LoadForRemoval(q, u, p, t)
      PROVE IInv'
  BY <1>2, <1>0, LoadKeeps DEF LoadForRemoval, Load
<1>3. ASSUME NEW u \in Users, NEW p \in Packs, NEW t \in Users, NEW g \in Grants, LoadForMember(q, u, p, t, g)
      PROVE IInv'
  BY <1>3, <1>0, LoadKeeps DEF LoadForMember, Load
<1>4. ASSUME NEW u \in Users, NEW p \in Packs, NEW n \in 0 .. MaxRev, LoadForCommit(q, u, p, n)
      PROVE IInv'
  BY <1>4, <1>0, LoadKeeps DEF LoadForCommit, Load
<1>5. ASSUME NEW u \in Users, NEW p \in Packs, NEW n \in 0 .. MaxRev, LoadForBuild(q, u, p, n)
      PROVE IInv'
  BY <1>5, <1>0, LoadKeeps DEF LoadForBuild, Load
<1>6. ASSUME NEW u \in Users, NEW p \in Packs, NEW n \in 0 .. MaxRev, NEW l \in BOOLEAN,
             LoadForPublish(q, u, p, n, l)
      PROVE IInv'
  BY <1>6, <1>0, LoadKeeps DEF LoadForPublish, Load
<1>7. ASSUME NEW u \in Users, NEW p \in Packs, Load(q, u, p, "archive", None, "none", 0, FALSE)
      PROVE IInv'
  BY <1>7, <1>0, LoadKeeps DEF Load
<1>8. ASSUME NEW p \in Packs, RegistryDownload(q, p)
      PROVE IInv'
  <2>1. <<p, packs[p].published>> \in revisions /\ Active(p)
    BY <1>8 DEF RegistryDownload, Listed, IInv, ListedAndBuiltExist
  <2>2. packs[p].published \in 0 .. MaxRev
    BY DEF IInv, TypeOK, Pack
  <2> QED BY <1>8, <1>0, <2>1, <2>2, LoadKeeps DEF RegistryDownload
<1> QED BY <1>1, <1>2, <1>3, <1>4, <1>5, <1>6, <1>7, <1>8 DEF Receive

-----------------------------------------------------------------------------
(* Steps within a request.                                                 *)

LEMMA InsertRefusedKeeps ==
  ASSUME IInv, NEW q \in Requests, InsertRefused(q)
  PROVE  IInv'
<1>1. /\ req[q].pc = "insert" /\ req' = [req EXCEPT ![q] = Idle]
      /\ UNCHANGED <<packs, revisions, built, served, history>>
  BY DEF InsertRefused, Finish
<1>2. served' \in 0 .. MaxServed
  BY <1>1 DEF IInv, TypeOK
<1> QED BY <1>1, <1>2, IdleIsRequest, RequestOnly

LEMMA FindRevisionKeeps ==
  ASSUME IInv, NEW q \in Requests, FindRevision(q)
  PROVE  IInv'
<1>1. /\ req[q].pc \in {"publishable", "buildable"}
      /\ UNCHANGED <<packs, revisions, built, served, history>>
  BY DEF FindRevision
<1>2. served' \in 0 .. MaxServed
  BY <1>1 DEF IInv, TypeOK
<1>3. ASSUME NEW pc \in {"publish", "build"}, GoOn(q, pc), Committed(req[q].pack, req[q].number)
      PROVE IInv'
  <2> DEFINE r == [req[q] EXCEPT !.pc = pc]
  <2>1. pc \in Steps
    BY DEF Steps
  <2>2. /\ r \in Request /\ r.pc = pc /\ r.pack = req[q].pack /\ r.number = req[q].number
        /\ r.target = req[q].target /\ r.role = req[q].role
    BY <2>1, Pc
  <2>3. req' = [req EXCEPT ![q] = r]
    BY <1>3 DEF GoOn
  <2> HIDE DEF r
  <2>4. Shape(req[q])
    BY DEF IInv
  <2>5. Shape(r)
    BY <2>2, <2>4, <1>1 DEF Shape
  <2>6. <<r.pack, r.number>> \in revisions
    BY <2>2, <1>3 DEF Committed
  <2> QED BY <1>1, <1>2, <2>2, <2>3, <2>5, <2>6, RequestOnly
<1>4. CASE Finish(q)
  BY <1>1, <1>2, <1>4, IdleIsRequest, RequestOnly DEF Finish
<1> QED BY <1>1, <1>3, <1>4 DEF FindRevision

(* A new pack: nothing refers to it yet.                                   *)
LEMMA InsertPackKeeps ==
  ASSUME IInv, NEW q \in Requests, NEW p \in Packs, InsertPack(q, p)
  PROVE  IInv'
<1> DEFINE new == [NoPack EXCEPT !.state = "active", !.slug = req[q].slug,
                                 !.owner = req[q].user, !.head = req[q].number]
<1>1. /\ req[q].pc = "insert" /\ packs[p].state = "none" /\ ~SlugTaken(req[q].slug)
      /\ packs' = [packs EXCEPT ![p] = new]
      /\ UNCHANGED <<revisions, built, served, granted, torn, lost>>
  BY DEF InsertPack, history
<1>2. /\ packs \in [Packs -> Pack] /\ req \in [Requests -> Request] /\ req[q] \in Request
  BY DEF IInv, TypeOK
<1>3. req[q].user \in Users /\ req[q].slug \in Slugs /\ req[q].number \in {0, 1}
  BY <1>1 DEF IInv, Shape
<1>4. /\ new.state = "active" /\ new.slug = req[q].slug /\ new.head = req[q].number
      /\ new.members = NoPack.members /\ new.published = 0 /\ new.listed = FALSE
      /\ NoPack.head = 0 /\ NoPack.published = 0 /\ NoPack.listed = FALSE
  BY DEF NoPack
<1>5. new \in Pack
  <2>1. 0 \in 0 .. MaxRev /\ req[q].number \in 0 .. MaxRev
    BY <1>3, PacksAssumption
  <2>2. [u \in Users |-> "none"] \in [Users -> Grants \cup {"none"}]
    OBVIOUS
  <2>3. NoPack \in Pack
    BY <2>1, <2>2 DEF NoPack, Pack
  <2> QED BY <2>1, <2>3, <1>3 DEF Pack
<1> HIDE DEF new
<1>6. /\ packs' \in [Packs -> Pack] /\ packs'[p] = new
      /\ \A x \in Packs \ {p} : packs'[x] = packs[x]
  BY <1>1, <1>2, <1>5
<1>7. packs[p] = NoPack /\ granted[p] = NoPack.members /\ \A u \in Users : <<p, u>> \notin torn
  BY <1>1 DEF IInv, NothingBefore
<1> DEFINE r == IF req[q].number = 0 THEN Idle ELSE [req[q] EXCEPT !.pc = "insertRev", !.pack = p]
<1>8. /\ r \in Request /\ r.pc = IF req[q].number = 0 THEN "idle" ELSE "insertRev"
      /\ req[q].number # 0 => r.pack = p /\ r.number = 1
  <2>1. CASE req[q].number = 0
    <3>1. r = Idle
      BY <2>1
    <3> HIDE DEF r
    <3> QED BY <2>1, <3>1, IdleIsRequest
  <2>2. CASE req[q].number # 0
    <3>1. r = [req[q] EXCEPT !.pc = "insertRev", !.pack = p]
      BY <2>2
    <3>2. req[q].number = 1 /\ "insertRev" \in Steps
      BY <2>2, <1>3 DEF Steps
    <3>3. [req[q] EXCEPT !.pc = "insertRev", !.pack = p] \in Request
      BY <3>2, <1>2 DEF Request
    <3>4. /\ [req[q] EXCEPT !.pc = "insertRev", !.pack = p].pc = "insertRev"
          /\ [req[q] EXCEPT !.pc = "insertRev", !.pack = p].pack = p
          /\ [req[q] EXCEPT !.pc = "insertRev", !.pack = p].number = req[q].number
      BY <1>2 DEF Request
    <3> QED BY <2>2, <3>1, <3>2, <3>3, <3>4
  <2> QED BY <2>1, <2>2
<1>9. /\ req' \in [Requests -> Request] /\ req'[q] = r
      /\ \A x \in Requests \ {q} :
            /\ req'[x].pc = req[x].pc /\ req'[x].user = req[x].user /\ req'[x].pack = req[x].pack
            /\ req'[x].target = req[x].target /\ req'[x].role = req[x].role
            /\ req'[x].number = req[x].number /\ req'[x].slug = req[x].slug
            /\ req'[x].alone => req[x].alone /\ req[x].slug # req[q].slug
  <2>1. req' = [x \in Requests |->
                  IF x = q THEN r
                  ELSE IF req[x].slug = req[q].slug THEN [req[x] EXCEPT !.alone = FALSE] ELSE req[x]]
    BY DEF InsertPack
  <2>2. \A x \in Requests : /\ req[x] \in Request
                            /\ [req[x] EXCEPT !.alone = FALSE] \in Request
                            /\ [req[x] EXCEPT !.alone = FALSE].alone = FALSE
    BY <1>2 DEF Request
  <2> HIDE DEF r
  <2>3. req' \in [Requests -> Request] /\ req'[q] = r
    BY <2>1, <2>2, <1>8
  <2>4. ASSUME NEW x \in Requests \ {q}
        PROVE /\ req'[x].pc = req[x].pc /\ req'[x].user = req[x].user /\ req'[x].pack = req[x].pack
              /\ req'[x].target = req[x].target /\ req'[x].role = req[x].role
              /\ req'[x].number = req[x].number /\ req'[x].slug = req[x].slug
              /\ req'[x].alone => req[x].alone /\ req[x].slug # req[q].slug
    <3>1. CASE req[x].slug = req[q].slug
      BY <3>1, <2>1, <2>2 DEF Request
    <3>2. CASE req[x].slug # req[q].slug
      BY <3>2, <2>1
    <3> QED BY <3>1, <3>2
  <2> QED BY <2>3, <2>4
<1> HIDE DEF r
<1>10. TypeOK'
  BY <1>1, <1>6, <1>9 DEF IInv, TypeOK
<1>11. (\A x \in Requests : Shape(req[x]))'
  <2>1. \A x \in Packs : packs[x].state # "none" => packs'[x].state # "none"
    BY <1>1, <1>6
  <2>2. ASSUME NEW x \in Requests \ {q} PROVE Shape(req[x])'
    BY <2>1, <1>9 DEF IInv, Shape
  <2>3. Shape(req[q])'
    BY <1>3, <1>4, <1>6, <1>8, <1>9 DEF Shape
  <2> QED BY <2>2, <2>3
<1>12. NothingBefore'
  BY <1>1, <1>4, <1>6 DEF IInv, NothingBefore
<1>13. SlugsDistinct'
  <2>1. \A x \in Packs \ {p} : Active(x) => packs[x].slug # req[q].slug
    BY <1>1 DEF SlugTaken
  <2> QED BY <2>1, <1>4, <1>6 DEF IInv, SlugsDistinct, Active
<1>14. SlugsFreeUnlessRaced'
  <2> SUFFICES ASSUME NEW x \in Requests, req'[x].pc = "insert", req'[x].alone,
                      NEW y \in Packs, packs'[y].state = "active", packs'[y].slug = req'[x].slug
               PROVE  FALSE
    BY DEF SlugsFreeUnlessRaced, SlugTaken, Active
  <2>1. x # q
    BY <1>8, <1>9
  <2>2. /\ req[x].pc = "insert" /\ req[x].alone /\ req[x].slug # req[q].slug
        /\ req'[x].slug = req[x].slug
    BY <2>1, <1>9
  <2>3. y # p
    BY <2>2, <1>4, <1>6
  <2>4. packs[y].state = "active" /\ packs[y].slug = req[x].slug
    BY <2>2, <2>3, <1>6
  <2> QED BY <2>2, <2>4 DEF IInv, SlugsFreeUnlessRaced, SlugTaken, Active
<1>15. \A x \in Packs, n \in 1 .. MaxRev :
          /\ x # p \/ n # 1 \/ req[q].number = 0 => Writing(x, n)' = Writing(x, n)
          /\ x = p /\ n = 1 /\ req[q].number # 0 => Writing(x, n)' = Writing(x, n) \cup {q}
  BY <1>1, <1>3, <1>8, <1>9 DEF Writing
<1>16. \A n \in 1 .. MaxRev : <<p, n>> \notin revisions \cup lost /\ Writing(p, n) = {}
  BY <1>4, <1>7 DEF IInv, RevisionsUpToHead
<1>17. RevisionsUpToHead'
  <2>1. ASSUME NEW x \in Packs \ {p}, NEW n \in 1 .. MaxRev
        PROVE  Writing(x, n)' = Writing(x, n) /\ packs'[x].head = packs[x].head
    BY <1>15, <1>6
  <2>2. ASSUME NEW n \in 1 .. MaxRev
        PROVE /\ \A q1, q2 \in Writing(p, n)' : q1 = q2
              /\ n > new.head => Writing(p, n)' = {}
              /\ n <= new.head => Writing(p, n)' # {}
    <3>1. Writing(p, n) = {}
      BY <1>16
    <3>2. n \in Nat /\ n > 0 /\ new.head \in {0, 1} /\ new.head = req[q].number
      BY <1>3, <1>4, PacksAssumption
    <3>3. CASE new.head = 0 \/ n # 1
      <4>1. Writing(p, n)' = {}
        BY <3>1, <3>2, <3>3, <1>15
      <4> QED BY <4>1, <3>2, <3>3
    <3>4. CASE new.head = 1 /\ n = 1
      <4>1. Writing(p, n)' = {} \cup {q}
        BY <3>1, <3>2, <3>4, <1>15
      <4> QED BY <4>1, <3>2, <3>4
    <3> QED BY <3>2, <3>3, <3>4
  <2>3. ASSUME NEW n \in 1 .. MaxRev
        PROVE  /\ \A q1, q2 \in Writing(p, n)' : q1 = q2
               /\ n > packs'[p].head => <<p, n>> \notin (revisions \cup lost)' /\ Writing(p, n)' = {}
               /\ n <= packs'[p].head => <<p, n>> \in (revisions \cup lost)' \/ Writing(p, n)' # {}
               /\ Writing(p, n)' # {} => <<p, n>> \notin (revisions \cup lost)'
    BY <2>2, <1>1, <1>6, <1>16
  <2>4. ASSUME NEW x \in Packs \ {p}, NEW n \in 1 .. MaxRev
        PROVE  /\ \A q1, q2 \in Writing(x, n)' : q1 = q2
               /\ n > packs'[x].head => <<x, n>> \notin (revisions \cup lost)' /\ Writing(x, n)' = {}
               /\ n <= packs'[x].head => <<x, n>> \in (revisions \cup lost)' \/ Writing(x, n)' # {}
               /\ Writing(x, n)' # {} => <<x, n>> \notin (revisions \cup lost)'
    BY <2>1, <1>1 DEF IInv, RevisionsUpToHead
  <2> QED BY <2>3, <2>4 DEF RevisionsUpToHead
<1>18. RolesAsGrantedUnlessTorn'
  <2>1. \A x, u : Pushing(x, u)' = Pushing(x, u)
    BY <1>1, <1>8, <1>9 DEF Pushing
  <2>2. \A u \in Users : Pushing(p, u) = {}
    BY <1>1 DEF IInv, Shape, Pushing
  <2>3. ASSUME NEW u \in Users PROVE packs'[p].members[u] = granted'[p][u]
    BY <1>1, <1>4, <1>6, <1>7
  <2> QED BY <2>1, <2>2, <2>3, <1>1, <1>6 DEF IInv, RolesAsGrantedUnlessTorn, Active
<1>19. ListedAndBuiltExist'
  <2>1. \A x \in Requests : req'[x].pc \in {"publish", "build"} => x # q
    BY <1>8, <1>9
  <2>2. \A x \in Packs : packs'[x].listed \/ packs'[x].published > 0 => x # p
    BY <1>4, <1>6
  <2> QED BY <2>1, <2>2, <1>1, <1>6, <1>9 DEF IInv, ListedAndBuiltExist
<1> QED BY <1>10, <1>11, <1>12, <1>13, <1>14, <1>17, <1>18, <1>19 DEF IInv

-----------------------------------------------------------------------------
(* The writes of a request that found its pack.  What they have in common: *)
(* no slug changes and no pack appears.                                    *)

LEMMA WriteKeeps ==
  ASSUME IInv, NEW q \in Requests, NEW r \in Request,
         req' = [req EXCEPT ![q] = r], Shape(r)', r.pc \notin {"insert", "publish", "build"},
         packs' \in [Packs -> Pack],
         \A p \in Packs : /\ packs'[p].slug = packs[p].slug
                          /\ packs[p].state # "none" => packs'[p].state # "none"
                          /\ packs'[p].state = "active" => packs[p].state = "active"
                          /\ packs[p].state = "none" =>
                                /\ packs'[p] = packs[p] /\ granted'[p] = granted[p]
                                /\ \A u \in Users : <<p, u>> \in torn' => <<p, u>> \in torn,
         revisions \subseteq revisions', built' \subseteq revisions',
         \A p \in Packs : packs'[p].listed \/ packs'[p].published > 0
                             => <<p, packs'[p].published>> \in revisions'
  PROVE  /\ req' \in [Requests -> Request]
         /\ req'[q] = r /\ \A x \in Requests \ {q} : req'[x] = req[x]
         /\ (\A x \in Requests : Shape(req[x]))'
         /\ NothingBefore' /\ SlugsDistinct' /\ SlugsFreeUnlessRaced' /\ ListedAndBuiltExist'
<1>1. /\ req' \in [Requests -> Request]
      /\ req'[q] = r /\ \A x \in Requests \ {q} : req'[x] = req[x]
      /\ (\A x \in Requests : Shape(req[x]))'
  BY RequestStep
<1>2. NothingBefore'
  BY DEF IInv, NothingBefore
<1>3. SlugsDistinct'
  BY DEF IInv, SlugsDistinct, Active
<1>4. SlugsFreeUnlessRaced'
  <2>1. \A s : SlugTaken(s)' => SlugTaken(s)
    BY DEF SlugTaken, Active
  <2> QED BY <2>1, <1>1 DEF IInv, SlugsFreeUnlessRaced
<1>5. ListedAndBuiltExist'
  BY <1>1 DEF IInv, ListedAndBuiltExist
<1> QED BY <1>1, <1>2, <1>3, <1>4, <1>5

(* A request that writes no revision and does not change a role.           *)
LEMMA OtherRolesKept ==
  ASSUME IInv, NEW q \in Requests, NEW r \in Request,
         req'[q] = r, \A x \in Requests \ {q} : req'[x] = req[x],
         {r.pc, req[q].pc} \cap {"push"} = {},
         UNCHANGED <<granted, torn>>,
         \A p \in Packs : /\ packs'[p].members = packs[p].members
                          /\ packs'[p].state = "active" => packs[p].state = "active"
  PROVE  RolesAsGrantedUnlessTorn'
<1>1. \A p, u : Pushing(p, u)' = Pushing(p, u)
  BY DEF Pushing
<1> QED BY <1>1 DEF IInv, RolesAsGrantedUnlessTorn, Active

LEMMA OtherHeadsKept ==
  ASSUME IInv, NEW q \in Requests, NEW r \in Request,
         req'[q] = r, \A x \in Requests \ {q} : req'[x] = req[x],
         {r.pc, req[q].pc} \cap {"insertRev"} = {},
         UNCHANGED <<revisions, lost>>,
         \A p \in Packs : packs'[p].head = packs[p].head
  PROVE  RevisionsUpToHead'
<1>1. \A p, n : Writing(p, n)' = Writing(p, n)
  BY DEF Writing
<1> QED BY <1>1 DEF IInv, RevisionsUpToHead

(* What Shape and TypeOK say of the pack and the target of a request.      *)
LEMMA AboutPack ==
  ASSUME IInv, NEW q \in Requests, req[q].pc \notin {"idle", "insert"}
  PROVE  /\ req[q] \in Request /\ req[q].pack \in Packs /\ packs[req[q].pack].state # "none"
         /\ req[q].pc \in {"pull", "push", "remove"} => req[q].target \in Users
         /\ req[q].pc \in {"pull", "push"} => req[q].role \in Grants
         /\ req[q].pc = "bump" => req[q].number < MaxRev
         /\ req[q].pc \in {"insertRev", "publish", "build"} => req[q].number > 0
         /\ req[q].number \in 0 .. MaxRev
         /\ packs[req[q].pack] \in Pack /\ packs \in [Packs -> Pack] /\ req \in [Requests -> Request]
BY DEF IInv, TypeOK, Shape, Request

LEMMA PullKeeps ==
  ASSUME IInv, NEW q \in Requests, Pull(q)
  PROVE  IInv'
<1>0. PICK p, t, r, new : /\ p = req[q].pack /\ t = req[q].target /\ r = [req[q] EXCEPT !.pc = "push"]
                          /\ new = [packs[p] EXCEPT !.members[t] = "none"]
  OBVIOUS
<1>1. /\ req[q].pc = "pull" /\ req' = [req EXCEPT ![q] = r] /\ packs' = [packs EXCEPT ![p] = new]
      /\ torn' = IF Pushing(p, t) = {} THEN torn \ {<<p, t>>} ELSE torn \cup {<<p, t>>}
      /\ UNCHANGED <<revisions, built, served, granted, lost>>
  BY <1>0 DEF Pull, GoOn, Pulled
<1>2. /\ req[q] \in Request /\ p \in Packs /\ t \in Users /\ packs[p].state # "none" /\ packs[p] \in Pack
      /\ req[q].role \in Grants /\ packs \in [Packs -> Pack] /\ req \in [Requests -> Request]
  BY <1>0, <1>1, AboutPack
<1>3. r \in Request /\ r.pc = "push" /\ r.pack = p /\ r.target = t /\ r.role = req[q].role
  BY <1>0, <1>2 DEF Request, Steps
<1>4. /\ new \in Pack /\ new.state = packs[p].state /\ new.slug = packs[p].slug /\ new.head = packs[p].head
      /\ new.published = packs[p].published /\ new.listed = packs[p].listed
      /\ new.members[t] = "none" /\ \A u \in Users \ {t} : new.members[u] = packs[p].members[u]
  BY <1>0, <1>2 DEF Pack
<1>5. packs' \in [Packs -> Pack] /\ packs'[p] = new /\ \A x \in Packs \ {p} : packs'[x] = packs[x]
  BY <1>1, <1>2, <1>4
<1>6. Shape(r)'
  BY <1>2, <1>3, <1>4, <1>5 DEF Shape
<1>7. \A x \in Packs : /\ packs'[x].slug = packs[x].slug /\ packs'[x].state = packs[x].state
                       /\ packs'[x].head = packs[x].head /\ packs'[x].published = packs[x].published
                       /\ packs'[x].listed = packs[x].listed
                       /\ packs[x].state = "none" => x # p
  BY <1>2, <1>4, <1>5
<1>8. /\ req' \in [Requests -> Request] /\ req'[q] = r /\ \A x \in Requests \ {q} : req'[x] = req[x]
      /\ (\A x \in Requests : Shape(req[x]))'
      /\ NothingBefore' /\ SlugsDistinct' /\ SlugsFreeUnlessRaced' /\ ListedAndBuiltExist'
  <2>1. \A x \in Packs, u \in Users : packs[x].state = "none" /\ <<x, u>> \in torn' => <<x, u>> \in torn
    BY <1>1, <1>7
  <2>2. \A x \in Packs : packs[x].state = "none" => packs'[x] = packs[x]
    BY <1>5, <1>7
  <2>3. /\ built' \subseteq revisions'
        /\ \A x \in Packs : packs'[x].listed \/ packs'[x].published > 0 => <<x, packs'[x].published>> \in revisions'
    BY <1>1, <1>7 DEF IInv, ListedAndBuiltExist
  <2> QED BY <2>1, <2>2, <2>3, <1>1, <1>3, <1>5, <1>6, <1>7, WriteKeeps
<1>9. TypeOK'
  BY <1>1, <1>2, <1>5, <1>8 DEF IInv, TypeOK
<1>10. RevisionsUpToHead'
  BY <1>1, <1>3, <1>7, <1>8, OtherHeadsKept
<1>11. RolesAsGrantedUnlessTorn'
  <2>1. \A x \in Packs, u \in Users : x # p \/ u # t => Pushing(x, u)' = Pushing(x, u)
    BY <1>1, <1>3, <1>8 DEF Pushing
  <2>2. Pushing(p, t)' = Pushing(p, t) \cup {q}
    BY <1>1, <1>3, <1>8 DEF Pushing
  <2>3. ASSUME NEW x \in Packs, NEW u \in Users, x # p \/ u # t, Active(x)', <<x, u>> \notin torn'
        PROVE  /\ packs'[x].members[u] = IF Pushing(x, u)' = {} THEN granted'[x][u] ELSE "none"
               /\ \A q1, q2 \in Pushing(x, u)' : q1 = q2
    <3>1. Active(x) /\ <<x, u>> \notin torn
      BY <2>3, <1>1, <1>7 DEF Active
    <3>2. packs'[x].members[u] = packs[x].members[u]
      BY <2>3, <1>4, <1>5
    <3> QED BY <2>1, <2>3, <3>1, <3>2, <1>1 DEF IInv, RolesAsGrantedUnlessTorn
  <2>4. ASSUME <<p, t>> \notin torn'
        PROVE  /\ packs'[p].members[t] = IF Pushing(p, t)' = {} THEN granted'[p][t] ELSE "none"
               /\ \A q1, q2 \in Pushing(p, t)' : q1 = q2
    <3>1. Pushing(p, t) = {}
      BY <2>4, <1>1
    <3>2. Pushing(p, t)' = {} \cup {q}
      BY <2>2, <3>1
    <3> QED BY <3>2, <1>4, <1>5
  <2>5. ASSUME NEW x \in Packs, NEW u \in Users, Active(x)', <<x, u>> \notin torn'
        PROVE  /\ packs'[x].members[u] = IF Pushing(x, u)' = {} THEN granted'[x][u] ELSE "none"
               /\ \A q1, q2 \in Pushing(x, u)' : q1 = q2
    <3>1. CASE x # p \/ u # t
      BY <3>1, <2>5, <2>3
    <3>2. CASE x = p /\ u = t
      BY <3>2, <2>5, <2>4
    <3> QED BY <3>1, <3>2
  <2> QED BY <2>5 DEF RolesAsGrantedUnlessTorn
<1> QED BY <1>8, <1>9, <1>10, <1>11 DEF IInv

LEMMA PushKeeps ==
  ASSUME IInv, NEW q \in Requests, Push(q)
  PROVE  IInv'
<1>0. PICK p, t, g, new : /\ p = req[q].pack /\ t = req[q].target /\ g = req[q].role
                          /\ new = [packs[p] EXCEPT !.members[t] = IF @ = "none" THEN g ELSE @]
  OBVIOUS
<1>1. /\ req[q].pc = "push" /\ req' = [req EXCEPT ![q] = Idle]
      /\ \/ /\ Active(p) /\ packs' = [packs EXCEPT ![p] = new]
            /\ granted' = [granted EXCEPT ![p][t] = g]
         \/ ~Active(p) /\ UNCHANGED <<packs, granted>>
      /\ UNCHANGED <<revisions, built, served, torn, lost>>
  BY <1>0 DEF Push, Finish
<1>2. /\ req[q] \in Request /\ p \in Packs /\ t \in Users /\ packs[p].state # "none" /\ packs[p] \in Pack
      /\ g \in Grants /\ packs \in [Packs -> Pack] /\ req \in [Requests -> Request]
      /\ granted \in [Packs -> [Users -> Grants \cup {"none"}]]
  BY <1>0, <1>1, AboutPack DEF IInv, TypeOK
<1>3. /\ new \in Pack /\ new.state = packs[p].state /\ new.slug = packs[p].slug /\ new.head = packs[p].head
      /\ new.published = packs[p].published /\ new.listed = packs[p].listed
      /\ packs[p].members[t] = "none" => new.members[t] = g
      /\ \A u \in Users \ {t} : new.members[u] = packs[p].members[u]
  BY <1>0, <1>2 DEF Pack
<1>4. packs' \in [Packs -> Pack] /\ \A x \in Packs \ {p} : packs'[x] = packs[x]
  BY <1>1, <1>2, <1>3
<1>5. \A x \in Packs : /\ packs'[x].slug = packs[x].slug /\ packs'[x].state = packs[x].state
                       /\ packs'[x].head = packs[x].head /\ packs'[x].published = packs[x].published
                       /\ packs'[x].listed = packs[x].listed
                       /\ packs[x].state = "none" => x # p
  BY <1>1, <1>2, <1>3, <1>4
<1>6. /\ granted' \in [Packs -> [Users -> Grants \cup {"none"}]]
      /\ \A x \in Packs, u \in Users : x # p \/ u # t => granted'[x][u] = granted[x][u]
      /\ \A x \in Packs \ {p} : granted'[x] = granted[x]
  <2>1. CASE UNCHANGED granted
    BY <2>1, <1>2
  <2>2. CASE granted' = [granted EXCEPT ![p][t] = g]
    <3>1. PICK row : row = [granted[p] EXCEPT ![t] = g]
      OBVIOUS
    <3>2. /\ row \in [Users -> Grants \cup {"none"}]
          /\ \A u \in Users \ {t} : row[u] = granted[p][u]
      BY <3>1, <1>2
    <3>3. granted' = [granted EXCEPT ![p] = row]
      BY <2>2, <3>1
    <3> QED BY <3>2, <3>3, <1>2
  <2> QED BY <2>1, <2>2, <1>1
<1>7. /\ req' \in [Requests -> Request] /\ req'[q] = Idle /\ \A x \in Requests \ {q} : req'[x] = req[x]
      /\ (\A x \in Requests : Shape(req[x]))'
      /\ NothingBefore' /\ SlugsDistinct' /\ SlugsFreeUnlessRaced' /\ ListedAndBuiltExist'
  <2>1. Idle \in Request /\ Shape(Idle)' /\ Idle.pc = "idle"
    BY PacksAssumption DEF Idle, Request, Steps, Shape
  <2>2. \A x \in Packs : packs[x].state = "none" => packs'[x] = packs[x] /\ granted'[x] = granted[x]
    BY <1>4, <1>5, <1>6
  <2>3. /\ built' \subseteq revisions'
        /\ \A x \in Packs : packs'[x].listed \/ packs'[x].published > 0 => <<x, packs'[x].published>> \in revisions'
    BY <1>1, <1>5 DEF IInv, ListedAndBuiltExist
  <2> QED BY <2>1, <2>2, <2>3, <1>1, <1>4, <1>5, WriteKeeps
<1>8. TypeOK'
  BY <1>1, <1>4, <1>6, <1>7 DEF IInv, TypeOK
<1>9. RevisionsUpToHead'
  BY <1>1, <1>5, <1>7, IdleIsRequest, OtherHeadsKept
<1>10. RolesAsGrantedUnlessTorn'
  <2>1. \A x \in Packs, u \in Users : Pushing(x, u)' = Pushing(x, u) \ {q}
    BY <1>1, <1>7, IdleIsRequest DEF Pushing
  <2>2. \A x \in Packs, u \in Users : q \in Pushing(x, u) <=> x = p /\ u = t
    BY <1>0, <1>1 DEF Pushing
  <2>3. ASSUME NEW x \in Packs, NEW u \in Users, x # p \/ u # t, Active(x)', <<x, u>> \notin torn'
        PROVE  /\ packs'[x].members[u] = IF Pushing(x, u)' = {} THEN granted'[x][u] ELSE "none"
               /\ \A q1, q2 \in Pushing(x, u)' : q1 = q2
    <3>1. Active(x) /\ <<x, u>> \notin torn
      BY <2>3, <1>1, <1>5 DEF Active
    <3>2. packs'[x].members[u] = packs[x].members[u]
      BY <2>3, <1>1, <1>2, <1>3, <1>4
    <3>3. Pushing(x, u)' = Pushing(x, u) /\ granted'[x][u] = granted[x][u]
      BY <2>1, <2>2, <2>3, <1>6
    <3> QED BY <3>1, <3>2, <3>3 DEF IInv, RolesAsGrantedUnlessTorn
  <2>4. ASSUME Active(p)', <<p, t>> \notin torn'
        PROVE  /\ packs'[p].members[t] = IF Pushing(p, t)' = {} THEN granted'[p][t] ELSE "none"
               /\ \A q1, q2 \in Pushing(p, t)' : q1 = q2
    <3>1. Active(p) /\ <<p, t>> \notin torn
      BY <2>4, <1>1, <1>2, <1>5 DEF Active
    <3>2. q \in Pushing(p, t) /\ \A q1, q2 \in Pushing(p, t) : q1 = q2
      BY <2>2, <3>1, <1>2 DEF IInv, RolesAsGrantedUnlessTorn
    <3>3. Pushing(p, t)' = {}
      BY <2>1, <3>2, <1>2
    <3>4. packs[p].members[t] = "none"
      BY <3>1, <3>2, <1>2 DEF IInv, RolesAsGrantedUnlessTorn
    <3>5. packs'[p].members[t] = g /\ granted'[p][t] = g
      BY <3>1, <3>4, <1>1, <1>2, <1>3
    <3> QED BY <3>3, <3>5
  <2>5. ASSUME NEW x \in Packs, NEW u \in Users, Active(x)', <<x, u>> \notin torn'
        PROVE  /\ packs'[x].members[u] = IF Pushing(x, u)' = {} THEN granted'[x][u] ELSE "none"
               /\ \A q1, q2 \in Pushing(x, u)' : q1 = q2
    <3>1. CASE x # p \/ u # t
      BY <3>1, <2>5, <2>3
    <3>2. CASE x = p /\ u = t
      BY <3>2, <2>5, <2>4
    <3> QED BY <3>1, <3>2
  <2> QED BY <2>5 DEF RolesAsGrantedUnlessTorn
<1> QED BY <1>7, <1>8, <1>9, <1>10 DEF IInv

LEMMA RemoveKeeps ==
  ASSUME IInv, NEW q \in Requests, Remove(q)
  PROVE  IInv'
<1>0. PICK p, t, new : /\ p = req[q].pack /\ t = req[q].target
                       /\ new = [packs[p] EXCEPT !.members[t] = "none"]
  OBVIOUS
<1>1. /\ req[q].pc = "remove" /\ req' = [req EXCEPT ![q] = Idle]
      /\ \/ /\ Active(p) /\ packs' = [packs EXCEPT ![p] = new]
            /\ granted' = [granted EXCEPT ![p][t] = "none"]
            /\ torn' = IF Pushing(p, t) = {} THEN torn \ {<<p, t>>} ELSE torn
         \/ ~Active(p) /\ UNCHANGED <<packs, granted, torn>>
      /\ UNCHANGED <<revisions, built, served, lost>>
  BY <1>0 DEF Remove, Finish, Pulled
<1>2. /\ req[q] \in Request /\ p \in Packs /\ t \in Users /\ packs[p].state # "none" /\ packs[p] \in Pack
      /\ packs \in [Packs -> Pack] /\ req \in [Requests -> Request]
      /\ granted \in [Packs -> [Users -> Grants \cup {"none"}]]
  BY <1>0, <1>1, AboutPack DEF IInv, TypeOK
<1>3. /\ new \in Pack /\ new.state = packs[p].state /\ new.slug = packs[p].slug /\ new.head = packs[p].head
      /\ new.published = packs[p].published /\ new.listed = packs[p].listed
      /\ new.members[t] = "none" /\ \A u \in Users \ {t} : new.members[u] = packs[p].members[u]
  BY <1>0, <1>2 DEF Pack
<1>4. packs' \in [Packs -> Pack] /\ \A x \in Packs \ {p} : packs'[x] = packs[x]
  BY <1>1, <1>2, <1>3
<1>5. \A x \in Packs : /\ packs'[x].slug = packs[x].slug /\ packs'[x].state = packs[x].state
                       /\ packs'[x].head = packs[x].head /\ packs'[x].published = packs[x].published
                       /\ packs'[x].listed = packs[x].listed
                       /\ packs[x].state = "none" => x # p
  BY <1>1, <1>2, <1>3, <1>4
<1>6. /\ granted' \in [Packs -> [Users -> Grants \cup {"none"}]]
      /\ \A x \in Packs, u \in Users : x # p \/ u # t => granted'[x][u] = granted[x][u]
      /\ \A x \in Packs \ {p} : granted'[x] = granted[x]
      /\ torn' \subseteq torn
  BY <1>1, <1>2
<1>7. /\ req' \in [Requests -> Request] /\ req'[q] = Idle /\ \A x \in Requests \ {q} : req'[x] = req[x]
      /\ (\A x \in Requests : Shape(req[x]))'
      /\ NothingBefore' /\ SlugsDistinct' /\ SlugsFreeUnlessRaced' /\ ListedAndBuiltExist'
  <2>1. Idle \in Request /\ Shape(Idle)' /\ Idle.pc = "idle"
    BY PacksAssumption DEF Idle, Request, Steps, Shape
  <2>2. \A x \in Packs : packs[x].state = "none" => packs'[x] = packs[x] /\ granted'[x] = granted[x]
    BY <1>4, <1>5, <1>6
  <2>3. /\ built' \subseteq revisions'
        /\ \A x \in Packs : packs'[x].listed \/ packs'[x].published > 0 => <<x, packs'[x].published>> \in revisions'
    BY <1>1, <1>5 DEF IInv, ListedAndBuiltExist
  <2> QED BY <2>1, <2>2, <2>3, <1>1, <1>4, <1>5, <1>6, WriteKeeps
<1>8. TypeOK'
  BY <1>1, <1>4, <1>6, <1>7 DEF IInv, TypeOK
<1>9. RevisionsUpToHead'
  BY <1>1, <1>5, <1>7, IdleIsRequest, OtherHeadsKept
<1>10. RolesAsGrantedUnlessTorn'
  <2>1. \A x \in Packs, u \in Users : Pushing(x, u)' = Pushing(x, u)
    BY <1>1, <1>7, IdleIsRequest DEF Pushing
  <2>2. ASSUME NEW x \in Packs, NEW u \in Users, Active(x)', <<x, u>> \notin torn'
        PROVE  /\ packs'[x].members[u] = IF Pushing(x, u)' = {} THEN granted'[x][u] ELSE "none"
               /\ \A q1, q2 \in Pushing(x, u)' : q1 = q2
    <3>1. Active(x)
      BY <2>2, <1>5 DEF Active
    <3>2. CASE (x # p \/ u # t) \/ ~Active(p)
      <4>1. <<x, u>> \notin torn
        BY <2>2, <3>2, <1>1
      <4>2. packs'[x].members[u] = packs[x].members[u] /\ granted'[x][u] = granted[x][u]
        BY <3>1, <3>2, <1>1, <1>2, <1>3, <1>4, <1>6
      <4> QED BY <2>1, <3>1, <4>1, <4>2 DEF IInv, RolesAsGrantedUnlessTorn
    <3>3. CASE x = p /\ u = t /\ Active(p)
      <4>1. packs'[p].members[t] = "none" /\ granted'[p][t] = "none"
        BY <3>3, <1>1, <1>2, <1>3
      <4>2. \A q1, q2 \in Pushing(p, t) : q1 = q2
        <5>1. CASE Pushing(p, t) = {}
          BY <5>1
        <5>2. CASE Pushing(p, t) # {}
          <6>1. <<p, t>> \notin torn
            BY <5>2, <2>2, <3>3, <1>1
          <6> QED BY <6>1, <3>3, <1>2 DEF IInv, RolesAsGrantedUnlessTorn
        <5> QED BY <5>1, <5>2
      <4> QED BY <2>1, <3>3, <4>1, <4>2
    <3> QED BY <3>2, <3>3
  <2> QED BY <2>2 DEF RolesAsGrantedUnlessTorn
<1> QED BY <1>7, <1>8, <1>9, <1>10 DEF IInv

LEMMA ArchiveKeeps ==
  ASSUME IInv, NEW q \in Requests, Archive(q)
  PROVE  IInv'
<1>0. PICK p, new : p = req[q].pack /\ new = [packs[p] EXCEPT !.state = "archived"]
  OBVIOUS
<1>1. /\ req[q].pc = "archive" /\ req' = [req EXCEPT ![q] = Idle]
      /\ \/ Active(p) /\ packs' = [packs EXCEPT ![p] = new]
         \/ UNCHANGED packs
      /\ UNCHANGED <<revisions, built, served, granted, torn, lost>>
  BY <1>0 DEF Archive, Finish, history
<1>2. /\ p \in Packs /\ packs[p].state # "none" /\ packs[p] \in Pack /\ packs \in [Packs -> Pack]
  BY <1>0, <1>1, AboutPack
<1>3. /\ new \in Pack /\ new.state = "archived" /\ new.slug = packs[p].slug /\ new.head = packs[p].head
      /\ new.published = packs[p].published /\ new.listed = packs[p].listed /\ new.members = packs[p].members
  BY <1>0, <1>2 DEF Pack
<1>4. packs' \in [Packs -> Pack] /\ \A x \in Packs \ {p} : packs'[x] = packs[x]
  BY <1>1, <1>2, <1>3
<1>5. \A x \in Packs : /\ packs'[x].slug = packs[x].slug /\ packs'[x].members = packs[x].members
                       /\ packs'[x].head = packs[x].head /\ packs'[x].published = packs[x].published
                       /\ packs'[x].listed = packs[x].listed
                       /\ packs[x].state # "none" => packs'[x].state # "none"
                       /\ packs[x].state = "none" => packs'[x] = packs[x]
                       /\ packs'[x].state = "active" => packs[x].state = "active"
  BY <1>1, <1>2, <1>3, <1>4
<1>6. /\ req' \in [Requests -> Request] /\ req'[q] = Idle /\ \A x \in Requests \ {q} : req'[x] = req[x]
      /\ (\A x \in Requests : Shape(req[x]))'
      /\ NothingBefore' /\ SlugsDistinct' /\ SlugsFreeUnlessRaced' /\ ListedAndBuiltExist'
  <2>1. Idle \in Request /\ Shape(Idle)' /\ Idle.pc = "idle"
    BY PacksAssumption DEF Idle, Request, Steps, Shape
  <2>2. /\ built' \subseteq revisions'
        /\ \A x \in Packs : packs'[x].listed \/ packs'[x].published > 0 => <<x, packs'[x].published>> \in revisions'
    BY <1>1, <1>5 DEF IInv, ListedAndBuiltExist
  <2> QED BY <2>1, <2>2, <1>1, <1>4, <1>5, WriteKeeps
<1>7. TypeOK'
  BY <1>1, <1>4, <1>6 DEF IInv, TypeOK
<1>8. RevisionsUpToHead'
  BY <1>1, <1>5, <1>6, IdleIsRequest, OtherHeadsKept
<1>9. RolesAsGrantedUnlessTorn'
  BY <1>1, <1>5, <1>6, IdleIsRequest, OtherRolesKept
<1> QED BY <1>6, <1>7, <1>8, <1>9 DEF IInv

-----------------------------------------------------------------------------
(* Revisions.                                                              *)

LEMMA BumpKeeps ==
  ASSUME IInv, NEW q \in Requests, Bump(q)
  PROVE  IInv'
<1>0. PICK p, n : p = req[q].pack /\ n = req[q].number
  OBVIOUS
<1>1. req[q].pc = "bump" /\ UNCHANGED <<revisions, built, served, granted, torn, lost>>
  BY DEF Bump, history
<1>2. /\ p \in Packs /\ packs[p].state # "none" /\ packs[p] \in Pack /\ packs \in [Packs -> Pack]
      /\ n \in 0 .. MaxRev /\ n < MaxRev /\ req[q] \in Request /\ req \in [Requests -> Request]
  BY <1>0, <1>1, AboutPack
<1>3. CASE Bumpable(p, n)
  <2>0. PICK r, new : /\ r = [req[q] EXCEPT !.pc = "insertRev", !.number = n + 1]
                      /\ new = [packs[p] EXCEPT !.head = n + 1]
    OBVIOUS
  <2>1. req' = [req EXCEPT ![q] = r] /\ packs' = [packs EXCEPT ![p] = new] /\ packs[p].head = n
    BY <2>0, <1>0, <1>3 DEF Bump, Bumpable
  <2>2. n + 1 \in 1 .. MaxRev /\ n + 1 \in 0 .. MaxRev
    BY <1>2, PacksAssumption
  <2>3. r \in Request /\ r.pc = "insertRev" /\ r.pack = p /\ r.number = n + 1
    BY <2>0, <2>2, <1>0, <1>2 DEF Request, Steps
  <2>4. /\ new \in Pack /\ new.state = packs[p].state /\ new.slug = packs[p].slug /\ new.head = n + 1
        /\ new.published = packs[p].published /\ new.listed = packs[p].listed /\ new.members = packs[p].members
    BY <2>0, <2>2, <1>2 DEF Pack
  <2>5. packs' \in [Packs -> Pack] /\ packs'[p] = new /\ \A x \in Packs \ {p} : packs'[x] = packs[x]
    BY <2>1, <2>4, <1>2
  <2>6. \A x \in Packs : /\ packs'[x].slug = packs[x].slug /\ packs'[x].members = packs[x].members
                         /\ packs'[x].published = packs[x].published /\ packs'[x].listed = packs[x].listed
                         /\ packs'[x].state = packs[x].state
                         /\ packs[x].state = "none" => packs'[x] = packs[x]
    BY <1>2, <2>4, <2>5
  <2>7. Shape(r)'
    BY <1>2, <2>2, <2>3, <2>6 DEF Shape
  <2>8. /\ req' \in [Requests -> Request] /\ req'[q] = r /\ \A x \in Requests \ {q} : req'[x] = req[x]
        /\ (\A x \in Requests : Shape(req[x]))'
        /\ NothingBefore' /\ SlugsDistinct' /\ SlugsFreeUnlessRaced' /\ ListedAndBuiltExist'
    <3>1. /\ built' \subseteq revisions'
          /\ \A x \in Packs : packs'[x].listed \/ packs'[x].published > 0 => <<x, packs'[x].published>> \in revisions'
      BY <1>1, <2>6 DEF IInv, ListedAndBuiltExist
    <3> QED BY <3>1, <1>1, <2>1, <2>3, <2>5, <2>6, <2>7, WriteKeeps
  <2>9. TypeOK'
    BY <1>1, <2>5, <2>8 DEF IInv, TypeOK
  <2>10. RolesAsGrantedUnlessTorn'
    BY <1>1, <2>3, <2>6, <2>8, OtherRolesKept
  <2>11. RevisionsUpToHead'
    <3>1. <<p, n + 1>> \notin revisions \cup lost /\ Writing(p, n + 1) = {}
      BY <1>2, <2>1, <2>2, PacksAssumption DEF IInv, RevisionsUpToHead
    <3>2. \A x \in Packs, i \in 1 .. MaxRev : x # p \/ i # n + 1 => Writing(x, i)' = Writing(x, i)
      BY <1>1, <2>3, <2>8 DEF Writing
    <3>3. Writing(p, n + 1)' = Writing(p, n + 1) \cup {q}
      BY <1>1, <2>3, <2>8 DEF Writing
    <3>4. Writing(p, n + 1)' = {} \cup {q}
      BY <3>1, <3>3
    <3>5. ASSUME NEW x \in Packs, NEW i \in 1 .. MaxRev
          PROVE  /\ \A q1, q2 \in Writing(x, i)' : q1 = q2
                 /\ i > packs'[x].head => <<x, i>> \notin (revisions \cup lost)' /\ Writing(x, i)' = {}
                 /\ i <= packs'[x].head => <<x, i>> \in (revisions \cup lost)' \/ Writing(x, i)' # {}
                 /\ Writing(x, i)' # {} => <<x, i>> \notin (revisions \cup lost)'
      <4>1. CASE x # p
        <5>1. packs'[x] = packs[x] /\ Writing(x, i)' = Writing(x, i)
          BY <4>1, <2>5, <3>2
        <5> QED BY <5>1, <1>1 DEF IInv, RevisionsUpToHead
      <4>2. CASE x = p /\ i # n + 1
        <5>1. Writing(x, i)' = Writing(x, i)
          BY <4>2, <3>2
        <5>2. (i > packs'[x].head => i > packs[x].head) /\ (i <= packs'[x].head => i <= packs[x].head)
          BY <4>2, <1>2, <2>1, <2>4, <2>5, PacksAssumption
        <5> QED BY <5>1, <5>2, <1>1 DEF IInv, RevisionsUpToHead
      <4>3. CASE x = p /\ i = n + 1
        <5>1. packs'[x].head = i /\ i \in Nat
          BY <4>3, <2>2, <2>4, <2>5, PacksAssumption
        <5> QED BY <4>3, <5>1, <3>1, <3>4, <1>1
      <4> QED BY <4>1, <4>2, <4>3
    <3> QED BY <3>5 DEF RevisionsUpToHead
  <2> QED BY <2>8, <2>9, <2>10, <2>11 DEF IInv
<1>4. CASE ~Bumpable(p, n)
  <2>1. req' = [req EXCEPT ![q] = Idle] /\ UNCHANGED packs
    BY <1>0, <1>4 DEF Bump, Finish
  <2>2. served' \in 0 .. MaxServed
    BY <1>1 DEF IInv, TypeOK
  <2> QED BY <2>1, <2>2, <1>1, IdleIsRequest, RequestOnly DEF history
<1> QED BY <1>3, <1>4

(* A request that ends and owed its revision to the head: it is written,   *)
(* or lost with the request.                                               *)
LEMMA WrittenOrLost ==
  ASSUME IInv, NEW q \in Requests, NEW p, NEW n, req[q].pc = "insertRev",
         p = req[q].pack, n = req[q].number,
         req'[q] = Idle, \A x \in Requests \ {q} : req'[x] = req[x],
         UNCHANGED packs,
         \/ revisions' = revisions \cup {<<p, n>>} /\ UNCHANGED lost
         \/ lost' = lost \cup {<<p, n>>} /\ UNCHANGED revisions
  PROVE  RevisionsUpToHead'
<1>1. p \in Packs /\ n \in 1 .. MaxRev /\ packs[p].head \in 0 .. MaxRev
  <2>1. p \in Packs /\ n > 0 /\ n \in 0 .. MaxRev /\ packs[p] \in Pack
    BY AboutPack
  <2> QED BY <2>1, PacksAssumption DEF Pack
<1>2. \A x \in Packs, i \in 1 .. MaxRev : x # p \/ i # n => Writing(x, i)' = Writing(x, i)
  BY IdleIsRequest DEF Writing
<1>3. q \in Writing(p, n) /\ Writing(p, n)' = Writing(p, n) \ {q}
  BY IdleIsRequest DEF Writing
<1>4. Writing(p, n)' = {}
  BY <1>1, <1>3 DEF IInv, RevisionsUpToHead
<1>5. n <= packs[p].head
  <2>1. ~(n > packs[p].head)
    BY <1>1, <1>3 DEF IInv, RevisionsUpToHead
  <2>2. n \in Nat /\ packs[p].head \in Nat
    BY <1>1, PacksAssumption
  <2> QED BY <2>1, <2>2
<1>6. ASSUME NEW x \in Packs, NEW i \in 1 .. MaxRev
      PROVE  /\ \A q1, q2 \in Writing(x, i)' : q1 = q2
             /\ i > packs'[x].head => <<x, i>> \notin (revisions \cup lost)' /\ Writing(x, i)' = {}
             /\ i <= packs'[x].head => <<x, i>> \in (revisions \cup lost)' \/ Writing(x, i)' # {}
             /\ Writing(x, i)' # {} => <<x, i>> \notin (revisions \cup lost)'
  <2>1. CASE x # p \/ i # n
    <3>1. Writing(x, i)' = Writing(x, i)
      BY <2>1, <1>2
    <3>2. <<x, i>> \in (revisions \cup lost)' <=> <<x, i>> \in revisions \cup lost
      BY <2>1
    <3> QED BY <3>1, <3>2 DEF IInv, RevisionsUpToHead
  <2>2. CASE x = p /\ i = n
    <3>1. <<x, i>> \in (revisions \cup lost)'
      BY <2>2
    <3>2. ~(i > packs'[x].head)
      BY <2>2, <1>1, <1>5, PacksAssumption
    <3> QED BY <2>2, <3>1, <3>2, <1>4
  <2> QED BY <2>1, <2>2
<1> QED BY <1>6 DEF RevisionsUpToHead

LEMMA InsertRevKeeps ==
  ASSUME IInv, NEW q \in Requests, InsertRev(q)
  PROVE  IInv'
<1>0. PICK p, n : p = req[q].pack /\ n = req[q].number
  OBVIOUS
<1>1. /\ req[q].pc = "insertRev" /\ req' = [req EXCEPT ![q] = Idle]
      /\ revisions' = revisions \cup {<<p, n>>}
      /\ UNCHANGED <<packs, built, served, granted, torn, lost>>
  BY <1>0 DEF InsertRev, Finish, history
<1>2. p \in Packs /\ n \in 1 .. MaxRev
  <2>1. p \in Packs /\ n > 0 /\ n \in 0 .. MaxRev
    BY <1>0, <1>1, AboutPack
  <2> QED BY <2>1, PacksAssumption
<1>3. /\ req' \in [Requests -> Request] /\ req'[q] = Idle /\ \A x \in Requests \ {q} : req'[x] = req[x]
      /\ (\A x \in Requests : Shape(req[x]))'
      /\ NothingBefore' /\ SlugsDistinct' /\ SlugsFreeUnlessRaced' /\ ListedAndBuiltExist'
  <2>1. Idle \in Request /\ Shape(Idle)' /\ Idle.pc = "idle"
    BY PacksAssumption DEF Idle, Request, Steps, Shape
  <2>2. /\ built' \subseteq revisions' /\ packs' \in [Packs -> Pack] /\ revisions \subseteq revisions'
        /\ \A x \in Packs : packs'[x].listed \/ packs'[x].published > 0 => <<x, packs'[x].published>> \in revisions'
    BY <1>1 DEF IInv, ListedAndBuiltExist, TypeOK
  <2> QED BY <2>1, <2>2, <1>1, WriteKeeps
<1>4. TypeOK'
  BY <1>1, <1>2, <1>3 DEF IInv, TypeOK
<1>5. RevisionsUpToHead'
  BY <1>0, <1>1, <1>3, WrittenOrLost
<1>6. RolesAsGrantedUnlessTorn'
  BY <1>1, <1>3, IdleIsRequest, OtherRolesKept
<1> QED BY <1>3, <1>4, <1>5, <1>6 DEF IInv

LEMMA PublishKeeps ==
  ASSUME IInv, NEW q \in Requests, Publish(q)
  PROVE  IInv'
<1>0. PICK p, n, new : /\ p = req[q].pack /\ n = req[q].number
                       /\ new = [packs[p] EXCEPT !.published = n, !.listed = req[q].listed]
  OBVIOUS
<1>1. /\ req[q].pc = "publish" /\ req' = [req EXCEPT ![q] = Idle]
      /\ \/ packs' = [packs EXCEPT ![p] = new]
         \/ UNCHANGED packs
      /\ UNCHANGED <<revisions, built, served, granted, torn, lost>>
  BY <1>0 DEF Publish, Finish, history
<1>2. /\ p \in Packs /\ packs[p].state # "none" /\ packs[p] \in Pack /\ packs \in [Packs -> Pack]
      /\ n \in 0 .. MaxRev /\ req[q].listed \in BOOLEAN /\ <<p, n>> \in revisions
  BY <1>0, <1>1, AboutPack DEF Request, IInv, ListedAndBuiltExist
<1>3. /\ new \in Pack /\ new.state = packs[p].state /\ new.slug = packs[p].slug /\ new.head = packs[p].head
      /\ new.published = n /\ new.members = packs[p].members
  BY <1>0, <1>2 DEF Pack
<1>4. packs' \in [Packs -> Pack] /\ \A x \in Packs \ {p} : packs'[x] = packs[x]
  BY <1>1, <1>2, <1>3
<1>5. \A x \in Packs : /\ packs'[x].slug = packs[x].slug /\ packs'[x].members = packs[x].members
                       /\ packs'[x].head = packs[x].head /\ packs'[x].state = packs[x].state
                       /\ packs[x].state = "none" => packs'[x] = packs[x]
  BY <1>1, <1>2, <1>3, <1>4
<1>6. /\ req' \in [Requests -> Request] /\ req'[q] = Idle /\ \A x \in Requests \ {q} : req'[x] = req[x]
      /\ (\A x \in Requests : Shape(req[x]))'
      /\ NothingBefore' /\ SlugsDistinct' /\ SlugsFreeUnlessRaced' /\ ListedAndBuiltExist'
  <2>1. Idle \in Request /\ Shape(Idle)' /\ Idle.pc = "idle"
    BY PacksAssumption DEF Idle, Request, Steps, Shape
  <2>2. built' \subseteq revisions'
    BY <1>1 DEF IInv, ListedAndBuiltExist
  <2>3. ASSUME NEW x \in Packs, packs'[x].listed \/ packs'[x].published > 0
        PROVE  <<x, packs'[x].published>> \in revisions'
    <3>1. CASE packs'[x] = packs[x]
      BY <3>1, <2>3, <1>1 DEF IInv, ListedAndBuiltExist
    <3>2. CASE x = p /\ packs'[p] = new
      BY <3>2, <1>1, <1>2, <1>3
    <3> QED BY <3>1, <3>2, <1>1, <1>2, <1>4
  <2> QED BY <2>1, <2>2, <2>3, <1>1, <1>4, <1>5, WriteKeeps
<1>7. TypeOK'
  BY <1>1, <1>4, <1>6 DEF IInv, TypeOK
<1>8. RevisionsUpToHead'
  BY <1>1, <1>5, <1>6, IdleIsRequest, OtherHeadsKept
<1>9. RolesAsGrantedUnlessTorn'
  BY <1>1, <1>5, <1>6, IdleIsRequest, OtherRolesKept
<1> QED BY <1>6, <1>7, <1>8, <1>9 DEF IInv

LEMMA BuildKeeps ==
  ASSUME IInv, NEW q \in Requests, Build(q)
  PROVE  IInv'
<1>1. /\ req[q].pc = "build" /\ req' = [req EXCEPT ![q] = Idle]
      /\ built' = built \cup {<<req[q].pack, req[q].number>>}
      /\ UNCHANGED <<packs, revisions, served, granted, torn, lost>>
  BY DEF Build, Finish, history
<1>2. <<req[q].pack, req[q].number>> \in revisions
  BY <1>1 DEF IInv, ListedAndBuiltExist
<1>3. /\ req' \in [Requests -> Request] /\ req'[q] = Idle /\ \A x \in Requests \ {q} : req'[x] = req[x]
      /\ (\A x \in Requests : Shape(req[x]))'
      /\ NothingBefore' /\ SlugsDistinct' /\ SlugsFreeUnlessRaced' /\ ListedAndBuiltExist'
  <2>1. Idle \in Request /\ Shape(Idle)' /\ Idle.pc = "idle"
    BY PacksAssumption DEF Idle, Request, Steps, Shape
  <2>2. /\ built' \subseteq revisions' /\ packs' \in [Packs -> Pack]
        /\ \A x \in Packs : packs'[x].listed \/ packs'[x].published > 0 => <<x, packs'[x].published>> \in revisions'
    BY <1>1, <1>2 DEF IInv, ListedAndBuiltExist, TypeOK
  <2> QED BY <2>1, <2>2, <1>1, WriteKeeps
<1>4. TypeOK'
  BY <1>1, <1>2, <1>3 DEF IInv, TypeOK
<1>5. RevisionsUpToHead'
  BY <1>1, <1>3, IdleIsRequest, OtherHeadsKept
<1>6. RolesAsGrantedUnlessTorn'
  BY <1>1, <1>3, IdleIsRequest, OtherRolesKept
<1> QED BY <1>3, <1>4, <1>5, <1>6 DEF IInv

(* A request dies: a grant may be torn, a revision lost.                   *)
LEMMA DieKeeps ==
  ASSUME IInv, NEW q \in Requests, Die(q)
  PROVE  IInv'
<1>0. PICK p, t, n : p = req[q].pack /\ t = req[q].target /\ n = req[q].number
  OBVIOUS
<1>1. /\ req[q].pc # "idle" /\ req' = [req EXCEPT ![q] = Idle]
      /\ torn' = IF req[q].pc = "push" THEN torn \cup {<<p, t>>} ELSE torn
      /\ lost' = IF req[q].pc = "insertRev" THEN lost \cup {<<p, n>>} ELSE lost
      /\ UNCHANGED <<packs, revisions, built, served, granted>>
  BY <1>0 DEF Die, Finish
<1>2. /\ req[q].pc = "push" => p \in Packs /\ t \in Users /\ packs[p].state # "none"
      /\ req[q].pc = "insertRev" => p \in Packs /\ n \in 1 .. MaxRev
  <2>1. CASE req[q].pc = "push"
    BY <2>1, <1>0, AboutPack
  <2>2. CASE req[q].pc = "insertRev"
    <3>1. p \in Packs /\ n > 0 /\ n \in 0 .. MaxRev
      BY <2>2, <1>0, AboutPack
    <3> QED BY <2>2, <3>1, PacksAssumption
  <2> QED BY <2>1, <2>2
<1>3. /\ req' \in [Requests -> Request] /\ req'[q] = Idle /\ \A x \in Requests \ {q} : req'[x] = req[x]
      /\ (\A x \in Requests : Shape(req[x]))'
      /\ NothingBefore' /\ SlugsDistinct' /\ SlugsFreeUnlessRaced' /\ ListedAndBuiltExist'
  <2>1. Idle \in Request /\ Shape(Idle)' /\ Idle.pc = "idle"
    BY PacksAssumption DEF Idle, Request, Steps, Shape
  <2>2. /\ built' \subseteq revisions' /\ packs' \in [Packs -> Pack]
        /\ \A x \in Packs : packs'[x].listed \/ packs'[x].published > 0 => <<x, packs'[x].published>> \in revisions'
    BY <1>1 DEF IInv, ListedAndBuiltExist, TypeOK
  <2>3. \A x \in Packs, u \in Users : packs[x].state = "none" /\ <<x, u>> \in torn' => <<x, u>> \in torn
    BY <1>1, <1>2
  <2> QED BY <2>1, <2>2, <2>3, <1>1, WriteKeeps
<1>4. TypeOK'
  BY <1>1, <1>2, <1>3 DEF IInv, TypeOK
<1>5. RevisionsUpToHead'
  <2>1. CASE req[q].pc = "insertRev"
    BY <2>1, <1>0, <1>1, <1>3, WrittenOrLost
  <2>2. CASE req[q].pc # "insertRev"
    BY <2>2, <1>1, <1>3, IdleIsRequest, OtherHeadsKept
  <2> QED BY <2>1, <2>2
<1>6. RolesAsGrantedUnlessTorn'
  <2>1. CASE req[q].pc = "push"
    <3>1. \A x \in Packs, u \in Users : x # p \/ u # t => Pushing(x, u)' = Pushing(x, u)
      BY <1>0, <1>3, IdleIsRequest DEF Pushing
    <3>2. \A x \in Packs, u \in Users : <<x, u>> \notin torn' => <<x, u>> \notin torn /\ (x # p \/ u # t)
      BY <2>1, <1>1
    <3> QED BY <3>1, <3>2, <1>1 DEF IInv, RolesAsGrantedUnlessTorn, Active
  <2>2. CASE req[q].pc # "push"
    BY <2>2, <1>1, <1>3, IdleIsRequest, OtherRolesKept
  <2> QED BY <2>1, <2>2
<1> QED BY <1>3, <1>4, <1>5, <1>6 DEF IInv

-----------------------------------------------------------------------------
LEMMA InitHolds == Init => IInv
<1> SUFFICES ASSUME Init PROVE IInv
  OBVIOUS
<1>1. Idle \in Request /\ Shape(Idle) /\ Idle.pc = "idle"
  BY IdleIsRequest
<1>2. NoPack \in Pack /\ NoPack.state = "none" /\ NoPack.head = 0 /\ NoPack.published = 0 /\ NoPack.listed = FALSE
      /\ NoPack.members = [u \in Users |-> "none"]
  BY PacksAssumption DEF NoPack, Pack
<1>3. /\ \A p \in Packs : packs[p] = NoPack /\ granted[p] = NoPack.members
      /\ \A q \in Requests : req[q] = Idle
      /\ packs \in [Packs -> Pack] /\ req \in [Requests -> Request]
      /\ granted \in [Packs -> [Users -> Grants \cup {"none"}]]
      /\ revisions = {} /\ built = {} /\ torn = {} /\ lost = {} /\ served = 0
  BY <1>1, <1>2 DEF Init
<1>4. TypeOK
  BY <1>3, PacksAssumption DEF TypeOK
<1>5. NothingBefore /\ SlugsDistinct /\ SlugsFreeUnlessRaced /\ RolesAsGrantedUnlessTorn
  BY <1>1, <1>2, <1>3 DEF NothingBefore, SlugsDistinct, SlugsFreeUnlessRaced, RolesAsGrantedUnlessTorn, Active
<1>6. RevisionsUpToHead
  <2>1. \A p, n : Writing(p, n) = {}
    BY <1>1, <1>3 DEF Writing
  <2>2. \A p \in Packs : \A n \in 1 .. MaxRev : ~(n <= packs[p].head)
    BY <1>2, <1>3, PacksAssumption
  <2> QED BY <2>1, <2>2, <1>3 DEF RevisionsUpToHead
<1>7. ListedAndBuiltExist
  BY <1>1, <1>2, <1>3 DEF ListedAndBuiltExist
<1> QED BY <1>1, <1>3, <1>4, <1>5, <1>6, <1>7 DEF IInv

LEMMA StepKeeps == IInv /\ [Next]_vars => IInv'
<1> SUFFICES ASSUME IInv, [Next]_vars PROVE IInv'
  OBVIOUS
<1>1. ASSUME NEW q \in Requests, Continue(q) PROVE IInv'
  BY <1>1, InsertPackKeeps, InsertRefusedKeeps, PullKeeps, PushKeeps, RemoveKeeps, ArchiveKeeps, BumpKeeps,
     InsertRevKeeps, FindRevisionKeeps, PublishKeeps, BuildKeeps, DieKeeps DEF Continue
<1>2. CASE UNCHANGED vars
  BY <1>2 DEF vars, IInv, TypeOK, Shape, NothingBefore, SlugsDistinct, RevisionsUpToHead, Writing, Pushing,
              SlugsFreeUnlessRaced, SlugTaken, RolesAsGrantedUnlessTorn, ListedAndBuiltExist, Active
<1> QED BY <1>1, <1>2, ReceiveKeeps DEF Next

(* The inductive invariant of packs: what requests remember is still true  *)
(* when they write (routes/packs.ts).                                      *)
THEOREM Invariance == Spec => []IInv
BY InitHolds, StepKeeps, PTL DEF Spec

(* Outside torn changes a member has the role that was granted last        *)
(* (POST and DELETE members, packRoleFor).                                 *)
THEOREM RolesKept == Spec => []RolesAsGrantedUnlessTorn
<1>1. IInv => RolesAsGrantedUnlessTorn
  BY DEF IInv
<1> QED BY <1>1, Invariance, PTL

(* What is listed, published or built was committed, also while commits    *)
(* are between the move of the head and the revision (POST publish,        *)
(* POST builds, GET download).                                             *)
THEOREM NothingDangling == Spec => []ListedAndBuiltExist
<1>1. IInv => ListedAndBuiltExist
  BY DEF IInv
<1> QED BY <1>1, Invariance, PTL

(* No two active packs have one slug, and a creation fails for its slug    *)
(* only if another one took it meanwhile (uniqueActiveSlug).               *)
THEOREM SlugsFit == Spec => [](SlugsDistinct /\ SlugsFreeUnlessRaced)
<1>1. IInv => SlugsDistinct /\ SlugsFreeUnlessRaced
  BY DEF IInv
<1> QED BY <1>1, Invariance, PTL

(* Every number up to the head of a pack has its revision, one request     *)
(* that is about to write it, or a writer that died (POST revisions).      *)
THEOREM HistoryAccounted == Spec => []RevisionsUpToHead
<1>1. IInv => RevisionsUpToHead
  BY DEF IInv
<1> QED BY <1>1, Invariance, PTL
=============================================================================
