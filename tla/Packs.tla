------------------------------- MODULE Packs -------------------------------
(***************************************************************************)
(* Packs: their creation and import, members, revisions, publishing,       *)
(* archive and builds (routes/packs.ts, models/atelierPack.ts,             *)
(* routes/registry.ts, routes/builds.ts, routes/import-creative.ts, the    *)
(* pack routes of routes/admin-web.ts).                                    *)
(*                                                                         *)
(* A request reads the pack, decides, and then writes in one or two        *)
(* updates; other requests run between its steps and it may die there.     *)
(* Who may call at all is Accounts' matter, the assets of a revision are   *)
(* AssetStore's, and what becomes of a build is BuildQueue's.              *)
(***************************************************************************)
EXTENDS Naturals, Sequences, FiniteSets

CONSTANTS
    Users, Admins,
    Packs,              \* documents that may come to exist
    Requests,           \* requests in flight at once
    Bases,              \* slugs of names, a number for each part
    None,
    MaxNumber,          \* bound of the number after a slug
    MaxRev,             \* bound of the revisions of a pack
    MaxServed           \* bound of the requests that are sent

ASSUME PacksAssumption ==
    /\ Admins \subseteq Users /\ None \notin Users \cup Packs
    /\ Bases \subseteq Seq(Nat)
    /\ MaxNumber \in Nat \ {0} /\ MaxRev \in Nat \ {0} /\ MaxServed \in Nat

VARIABLES
    packs,       \* atelierPacks
    revisions,   \* atelierRevisions, as pairs of a pack and a number
    built,       \* revisions that a build was asked for
    req,         \* requests in flight
    served,      \* requests so far
    granted,     \* history: the last role written for a user of a pack
    torn,        \* history: grants that died half-way or overlapped
    lost         \* history: revisions whose writer died after the head moved

vars == <<packs, revisions, built, req, served, granted, torn, lost>>
history == <<granted, torn, lost>>

Grants == {"editor", "viewer"}
Steps == {"idle", "insert", "insertRev", "pull", "push", "remove", "archive",
          "bump", "publishable", "publish", "buildable", "build"}

(* base, base-2, base-3, ...                                               *)
Numbered(b, i) == IF i = 1 THEN b ELSE Append(b, i)
Slugs == {Numbered(b, i) : b \in Bases, i \in 1 .. MaxNumber}

(* members: the role of a user's first entry, the one packRoleFor reads;   *)
(* entries behind it are only ever pulled together with it.                *)
Pack == [state : {"none", "active", "archived"}, slug : Slugs \cup {<<>>},
         owner : Users \cup {None}, members : [Users -> Grants \cup {"none"}],
         head : 0 .. MaxRev, published : 0 .. MaxRev, listed : BOOLEAN]

Request == [pc : Steps, user : Users \cup {None}, pack : Packs \cup {None},
            target : Users \cup {None}, role : Grants \cup {"none"},
            number : 0 .. MaxRev, listed : BOOLEAN, slug : Slugs \cup {<<>>}, alone : BOOLEAN]

NoPack == [state |-> "none", slug |-> <<>>, owner |-> None, members |-> [u \in Users |-> "none"],
           head |-> 0, published |-> 0, listed |-> FALSE]
Idle == [pc |-> "idle", user |-> None, pack |-> None, target |-> None, role |-> "none",
         number |-> 0, listed |-> FALSE, slug |-> <<>>, alone |-> FALSE]

Init ==
    /\ packs = [p \in Packs |-> NoPack]
    /\ revisions = {} /\ built = {}
    /\ req = [q \in Requests |-> Idle]
    /\ served = 0
    /\ granted = [p \in Packs |-> [u \in Users |-> "none"]]
    /\ torn = {} /\ lost = {}

-----------------------------------------------------------------------------
Arrive(q, r) ==
    /\ req[q].pc = "idle" /\ served < MaxServed /\ served' = served + 1
    /\ req' = [req EXCEPT ![q] = r]

GoOn(q, pc) == req' = [req EXCEPT ![q].pc = pc]
Finish(q) == req' = [req EXCEPT ![q] = Idle]

Active(p) == packs[p].state = "active"
SlugTaken(s) == \E p \in Packs : Active(p) /\ packs[p].slug = s

(* uniqueActiveSlug: the first of base, base-2, ... that is free.          *)
SlugByCount(b, s) ==
    s = Numbered(b, 1 + Cardinality({p \in Packs : Active(p) /\ \E i \in 1 .. MaxNumber :
                                                       packs[p].slug = Numbered(b, i)}))
NextSlug(b, s) ==
    \E i \in 1 .. MaxNumber :
        /\ s = Numbered(b, i) /\ ~SlugTaken(s)
        /\ \A j \in 1 .. i - 1 : SlugTaken(Numbered(b, j))

(* POST /packs (head 0) and the end of an import by an admin (head 1).     *)
FindSlug(q, u, b, head, s) ==
    /\ head \in {0, 1} /\ head = 1 => u \in Admins
    /\ NextSlug(b, s)
    /\ Arrive(q, [pc |-> "insert", user |-> u, pack |-> None, target |-> None, role |-> "none",
                  number |-> head, listed |-> FALSE, slug |-> s, alone |-> TRUE])
    /\ UNCHANGED <<packs, revisions, built, history>>

(* insertOne, refused by the index on the slugs of active packs.           *)
InsertPack(q, p) ==
    LET r == req[q] IN
    /\ r.pc = "insert" /\ packs[p].state = "none" /\ ~SlugTaken(r.slug)
    /\ packs' = [packs EXCEPT ![p] = [NoPack EXCEPT !.state = "active", !.slug = r.slug,
                                                    !.owner = r.user, !.head = r.number]]
    /\ req' = [x \in Requests |->
                 IF x = q THEN IF r.number = 0 THEN Idle
                               ELSE [r EXCEPT !.pc = "insertRev", !.pack = p]
                 ELSE IF req[x].slug = r.slug THEN [req[x] EXCEPT !.alone = FALSE] ELSE req[x]]
    /\ UNCHANGED <<revisions, built, served, history>>

InsertRefused(q) ==
    /\ req[q].pc = "insert" /\ SlugTaken(req[q].slug)
    /\ Finish(q)
    /\ UNCHANGED <<packs, revisions, built, served, history>>

-----------------------------------------------------------------------------
(***************************************************************************)
(* Requests about a pack: loadPackForUser and the checks of the role on    *)
(* the document it read.                                                   *)
(***************************************************************************)
RoleFor(p, u) ==
    IF u \in Admins \/ packs[p].owner = u THEN "owner"
    ELSE IF packs[p].members[u] # "none" THEN packs[p].members[u]
    ELSE "editor"

Load(q, u, p, pc, t, role, n, listed) ==
    /\ Active(p)
    /\ pc \in {"pull", "remove", "archive", "publishable"} => RoleFor(p, u) = "owner"
    /\ pc \in {"bump", "buildable"} => RoleFor(p, u) \in {"owner", "editor"}
    /\ Arrive(q, [pc |-> pc, user |-> u, pack |-> p, target |-> t, role |-> role,
                  number |-> n, listed |-> listed, slug |-> <<>>, alone |-> FALSE])
    /\ UNCHANGED <<packs, revisions, built, history>>

LoadForMember(q, u, p, t, role) ==
    t # packs[p].owner /\ Load(q, u, p, "pull", t, role, 0, FALSE)

LoadForRemoval(q, u, p, t) ==
    packs[p].members[t] # "none" /\ Load(q, u, p, "remove", t, "none", 0, FALSE)

LoadForCommit(q, u, p, base) == base < MaxRev /\ Load(q, u, p, "bump", None, "none", base, FALSE)

LoadForPublish(q, u, p, n, listed) == n > 0 /\ Load(q, u, p, "publishable", None, "none", n, listed)

(* A build of a revision or of the head; an admin of the dashboard too.    *)
LoadForBuild(q, u, p, n) == n > 0 /\ Load(q, u, p, "buildable", None, "none", n, FALSE)

Listed(p) == Active(p) /\ packs[p].listed

(* GET /registry/packs/:idOrSlug/download: the published revision of a     *)
(* listed pack is built if need be.                                        *)
RegistryDownload(q, p) ==
    /\ Listed(p)
    /\ Arrive(q, [pc |-> "build", user |-> None, pack |-> p, target |-> None, role |-> "none",
                  number |-> packs[p].published, listed |-> FALSE, slug |-> <<>>, alone |-> FALSE])
    /\ UNCHANGED <<packs, revisions, built, history>>

-----------------------------------------------------------------------------
(***************************************************************************)
(* POST members: $pull, then $push; DELETE members.                        *)
(***************************************************************************)
Pushing(p, t) == {q \in Requests : req[q].pc = "push" /\ req[q].pack = p /\ req[q].target = t}

(* $pull has no filter on archivedAt.                                      *)
PulledNothing(pack, t) == pack
Pulled(pack, t) == [pack EXCEPT !.members[t] = "none"]

Pull(q) ==
    LET p == req[q].pack  t == req[q].target IN
    /\ req[q].pc = "pull"
    /\ packs' = [packs EXCEPT ![p] = Pulled(packs[p], t)]
    /\ torn' = IF Pushing(p, t) = {} THEN torn \ {<<p, t>>} ELSE torn \cup {<<p, t>>}
    /\ GoOn(q, "push")
    /\ UNCHANGED <<revisions, built, served, granted, lost>>

Push(q) ==
    LET p == req[q].pack  t == req[q].target IN
    /\ req[q].pc = "push"
    /\ IF Active(p)
       THEN /\ packs' = [packs EXCEPT ![p].members[t] = IF @ = "none" THEN req[q].role ELSE @]
            /\ granted' = [granted EXCEPT ![p][t] = req[q].role]
       ELSE UNCHANGED <<packs, granted>>
    /\ Finish(q)
    /\ UNCHANGED <<revisions, built, served, torn, lost>>

(* The removed member's sockets are closed next (Rooms).                   *)
Remove(q) ==
    LET p == req[q].pack  t == req[q].target IN
    /\ req[q].pc = "remove"
    /\ IF Active(p)
       THEN /\ packs' = [packs EXCEPT ![p] = Pulled(packs[p], t)]
            /\ granted' = [granted EXCEPT ![p][t] = "none"]
            /\ torn' = IF Pushing(p, t) = {} THEN torn \ {<<p, t>>} ELSE torn
       ELSE UNCHANGED <<packs, granted, torn>>
    /\ Finish(q)
    /\ UNCHANGED <<revisions, built, served, lost>>

Archive(q) ==
    LET p == req[q].pack IN
    /\ req[q].pc = "archive"
    /\ packs' = IF Active(p) THEN [packs EXCEPT ![p].state = "archived"] ELSE packs
    /\ Finish(q)
    /\ UNCHANGED <<revisions, built, served, history>>

-----------------------------------------------------------------------------
(***************************************************************************)
(* Revisions: the head moves first, then the revision is written.          *)
(***************************************************************************)
BumpableFrom(p, base) == Active(p) /\ base <= packs[p].head
Bumpable(p, base) == Active(p) /\ base = packs[p].head

Bump(q) ==
    LET p == req[q].pack  base == req[q].number IN
    /\ req[q].pc = "bump"
    /\ IF Bumpable(p, base)
       THEN /\ packs' = [packs EXCEPT ![p].head = base + 1]
            /\ req' = [req EXCEPT ![q].pc = "insertRev", ![q].number = base + 1]
       ELSE Finish(q) /\ UNCHANGED packs
    /\ UNCHANGED <<revisions, built, served, history>>

InsertRev(q) ==
    /\ req[q].pc = "insertRev"
    /\ revisions' = revisions \cup {<<req[q].pack, req[q].number>>}
    /\ Finish(q)
    /\ UNCHANGED <<packs, built, served, history>>

(* Publishing and builds look the revision up.                             *)
UpToHead(p, n) == n <= packs[p].head
Committed(p, n) == <<p, n>> \in revisions

FindRevision(q) ==
    /\ req[q].pc \in {"publishable", "buildable"}
    /\ IF Committed(req[q].pack, req[q].number)
       THEN GoOn(q, IF req[q].pc = "publishable" THEN "publish" ELSE "build")
       ELSE Finish(q)
    /\ UNCHANGED <<packs, revisions, built, served, history>>

Publish(q) ==
    LET p == req[q].pack IN
    /\ req[q].pc = "publish"
    /\ packs' = IF Active(p) THEN [packs EXCEPT ![p].published = req[q].number, ![p].listed = req[q].listed]
                ELSE packs
    /\ Finish(q)
    /\ UNCHANGED <<revisions, built, served, history>>

(* ensureBuild or forceRebuild.                                            *)
Build(q) ==
    /\ req[q].pc = "build"
    /\ built' = built \cup {<<req[q].pack, req[q].number>>}
    /\ Finish(q)
    /\ UNCHANGED <<packs, revisions, served, history>>

Die(q) ==
    LET r == req[q] IN
    /\ r.pc # "idle"
    /\ Finish(q)
    /\ torn' = IF r.pc = "push" THEN torn \cup {<<r.pack, r.target>>} ELSE torn
    /\ lost' = IF r.pc = "insertRev" THEN lost \cup {<<r.pack, r.number>>} ELSE lost
    /\ UNCHANGED <<packs, revisions, built, served, granted>>

Receive(q) ==
    \/ \E u \in Users, b \in Bases, head \in {0, 1}, s \in Slugs : FindSlug(q, u, b, head, s)
    \/ \E u \in Users, p \in Packs :
          \/ \E t \in Users : LoadForRemoval(q, u, p, t) \/ \E r \in Grants : LoadForMember(q, u, p, t, r)
          \/ \E n \in 0 .. MaxRev :
                LoadForCommit(q, u, p, n) \/ LoadForBuild(q, u, p, n)
                    \/ \E listed \in BOOLEAN : LoadForPublish(q, u, p, n, listed)
          \/ Load(q, u, p, "archive", None, "none", 0, FALSE)
    \/ \E p \in Packs : RegistryDownload(q, p)

Continue(q) ==
    \/ \E p \in Packs : InsertPack(q, p)
    \/ InsertRefused(q) \/ Pull(q) \/ Push(q) \/ Remove(q) \/ Archive(q)
    \/ Bump(q) \/ InsertRev(q) \/ FindRevision(q) \/ Publish(q) \/ Build(q) \/ Die(q)

Next == \E q \in Requests : Receive(q) \/ Continue(q)

Spec == Init /\ [][Next]_vars

-----------------------------------------------------------------------------
(* TypeOK: documents and requests keep their form.                         *)
TypeOK ==
    /\ packs \in [Packs -> Pack]
    /\ revisions \subseteq Packs \X (1 .. MaxRev) /\ built \subseteq Packs \X (1 .. MaxRev)
    /\ req \in [Requests -> Request]
    /\ served \in 0 .. MaxServed
    /\ granted \in [Packs -> [Users -> Grants \cup {"none"}]]
    /\ torn \subseteq Packs \X Users /\ lost \subseteq Packs \X (1 .. MaxRev)

(* What a request knows at each step.                                      *)
Shape(r) ==
    /\ r.pc = "insert" => r.user \in Users /\ r.pack = None /\ r.slug \in Slugs /\ r.number \in {0, 1}
    /\ r.pc \notin {"idle", "insert"} => r.pack \in Packs /\ packs[r.pack].state # "none"
    /\ r.pc \in {"pull", "push", "remove"} => r.target \in Users
    /\ r.pc \in {"pull", "push"} => r.role \in Grants
    /\ r.pc = "bump" => r.number < MaxRev
    /\ r.pc \in {"insertRev", "publishable", "publish", "buildable", "build"} => r.number > 0

(* A pack that is not there has nothing; an archived one stays archived.   *)
NothingBefore ==
    \A p \in Packs : packs[p].state = "none" =>
        packs[p] = NoPack /\ granted[p] = NoPack.members /\ \A u \in Users : <<p, u>> \notin torn

(* RevisionsUpToHead: below a head every revision is written, or is about  *)
(* to be by one request, or was lost with its writer; above it is none.    *)
Writing(p, n) == {q \in Requests : req[q].pc = "insertRev" /\ req[q].pack = p /\ req[q].number = n}

RevisionsUpToHead ==
    \A p \in Packs : \A n \in 1 .. MaxRev :
        /\ \A q1, q2 \in Writing(p, n) : q1 = q2
        /\ n > packs[p].head => <<p, n>> \notin revisions \cup lost /\ Writing(p, n) = {}
        /\ n <= packs[p].head => <<p, n>> \in revisions \cup lost \/ Writing(p, n) # {}
        /\ Writing(p, n) # {} => <<p, n>> \notin revisions \cup lost

(* SlugsFreeUnlessRaced: a creation is never refused for its slug          *)
(* (uniqueActiveSlug, then insertOne) unless another one took that very    *)
(* slug since it looked, however many packs of the name were archived.     *)
SlugsFreeUnlessRaced ==
    \A q \in Requests : req[q].pc = "insert" /\ req[q].alone => ~SlugTaken(req[q].slug)

SlugsDistinct ==
    \A p1, p2 \in Packs : Active(p1) /\ Active(p2) /\ packs[p1].slug = packs[p2].slug => p1 = p2

(* RolesAsGrantedUnlessTorn: the role packRoleFor finds is the one the     *)
(* owner wrote last (POST and DELETE members), also when removals and      *)
(* re-additions interleave, outside the moment between $pull and $push.    *)
(* Excepted are changes that died in that moment, which make a viewer an   *)
(* editor, and two at once for one user, until the next change for it.     *)
RolesAsGrantedUnlessTorn ==
    \A p \in Packs, u \in Users :
        Active(p) /\ <<p, u>> \notin torn =>
            /\ packs[p].members[u] = IF Pushing(p, u) = {} THEN granted[p][u] ELSE "none"
            /\ \A q1, q2 \in Pushing(p, u) : q1 = q2

(* ListedAndBuiltExist: what the registry lists and what is built is a     *)
(* revision that was written, although publish, builds of the head and     *)
(* downloads run between a commit's move of the head and its revision.     *)
ListedAndBuiltExist ==
    /\ built \subseteq revisions
    /\ \A p \in Packs : packs[p].listed \/ packs[p].published > 0 => <<p, packs[p].published>> \in revisions
    /\ \A q \in Requests : req[q].pc \in {"publish", "build"} => <<req[q].pack, req[q].number>> \in revisions

(* IInv: the inductive invariant.                                          *)
IInv ==
    /\ TypeOK
    /\ \A q \in Requests : Shape(req[q])
    /\ NothingBefore /\ SlugsDistinct /\ RevisionsUpToHead
    /\ SlugsFreeUnlessRaced /\ RolesAsGrantedUnlessTorn /\ ListedAndBuiltExist
=============================================================================
