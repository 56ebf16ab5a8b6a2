------------------------------- MODULE Export -------------------------------
(***************************************************************************)
(* A live project that is edited, and the server build of its revisions    *)
(* (cloth/fivem-export.ts): the desktop commits the drawables of the       *)
(* project, the build plans resource parts and stream numbers, reads the   *)
(* assets one drawable after the other and writes the ZIP.  An asset may   *)
(* be gone by the time it is read; what is missing is skipped with a       *)
(* warning.                                                                *)
(*                                                                         *)
(* A file is known by what its name is made of, its content by the         *)
(* drawable it comes from.  Parts are numbers, and 0 is the suffix of the  *)
(* only part and the dlc of a replace.                                     *)
(***************************************************************************)
EXTENDS Project

CONSTANTS
    SplitAt,        \* DEFAULT_SPLIT_AT (256 in the code)
    Attr,           \* what the fields of a drawable say of its export
    Seeds, Frozen,  \* projects to start from: to be edited, to be built only
    MaxEdits        \* bound of the operations applied

Genders == {"male", "female"}
ASSUME ExportAssumption ==
    /\ SplitAt \in Nat \ {0} /\ MaxEdits \in Nat
    /\ Attr \in [Shapes["drawable"] -> [gender : Genders, slot : STRING, prop : BOOLEAN,
                                        creature : BOOLEAN, replace : BOOLEAN, target : Nat,
                                        ydd : BOOLEAN, textures : Nat, physics : BOOLEAN]]
    /\ \A p \in Seeds \cup Frozen : Stored(p)
    /\ None \notin Nat \cup Genders

VARIABLES
    project,   \* the project of the workspace document
    edits,     \* operations that were applied
    revision,  \* the drawables that are built, None when no build runs
    part,      \* the part that is written
    todo,      \* its entries that are still to be written
    zip,       \* stream files written: from names to positions in the revision
    metas,     \* shop metas written: from names to their content
    gone       \* positions whose YDD was missing when it was read

vars == <<project, edits, revision, part, todo, zip, metas, gone>>

A(ds, i) == Attr[ds[i].shape]

(***************************************************************************)
(* planResourceParts, on the positions of the drawables ds that have a     *)
(* YDD.                                                                    *)
(***************************************************************************)
Positions(ds) == {i \in DOMAIN ds : A(ds, i).ydd}
AddonsOf(ds, g) == InOrder({i \in Positions(ds) : ~A(ds, i).replace /\ A(ds, i).gender = g})
ReplacesOf(ds) == InOrder({i \in Positions(ds) : A(ds, i).replace})

Least(a, b) == IF a < b THEN a ELSE b

ChunkOverlapping(list, k) == SubSeq(list, (k - 1) * SplitAt + 1, Least(k * SplitAt + 1, Len(list)))

Chunk(list, k) == SubSeq(list, (k - 1) * SplitAt + 1, Least(k * SplitAt, Len(list)))

Chunks(list) == (Len(list) + SplitAt - 1) \div SplitAt

PartCount(ds) == Max({1} \cup {Chunks(AddonsOf(ds, g)) : g \in Genders})

SuffixNone(ds, k) == 0

Suffix(ds, k) == IF PartCount(ds) > 1 THEN k ELSE 0

\* Numbers count up per part, gender and slot.
Planned(ds, k, g) ==
    LET chunk == Chunk(AddonsOf(ds, g), k)
        before(n) == {m \in 1 .. n - 1 : A(ds, chunk[m]).slot = A(ds, chunk[n]).slot}
    IN [n \in DOMAIN chunk |-> [pos |-> chunk[n], part |-> k, dlc |-> Suffix(ds, k),
                                nnn |-> Cardinality(before(n))]]

\* Replaces ride in part 1 under the name of what they replace.
PlannedReplaces(ds) ==
    LET list == ReplacesOf(ds)
    IN [n \in DOMAIN list |-> [pos |-> list[n], part |-> 1, dlc |-> 0, nnn |-> A(ds, list[n]).target]]

\* What is written of part k; beyond the last part, nothing.
EntriesOf(ds, k) ==
    Planned(ds, k, "male") \o Planned(ds, k, "female") \o (IF k = 1 THEN PlannedReplaces(ds) ELSE <<>>)

GendersOf(ds, k) == {g \in Genders : Planned(ds, k, g) # <<>>}

\* buildShopPedApparelMetaXml: the components and the creature metadata.
MetaOf(ds, k, g) ==
    LET planned == Planned(ds, k, g)
        comps == {n \in DOMAIN planned : ~A(ds, planned[n].pos).prop}
    IN [gender |-> g,
        components |-> {<<A(ds, planned[n].pos).slot, planned[n].nnn>> : n \in comps},
        creature |-> \E n \in DOMAIN planned : A(ds, planned[n].pos).creature]

-----------------------------------------------------------------------------
(***************************************************************************)
(* buildFivemResourceZip.                                                  *)
(***************************************************************************)
\* The name of an entry's .ydd, .yld or n-th .ytd.
FileName(ds, e, ext, n) ==
    [folder |-> Suffix(ds, e.part), dlc |-> IF A(ds, e.pos).replace THEN None ELSE e.dlc,
     gender |-> A(ds, e.pos).gender, slot |-> A(ds, e.pos).slot, nnn |-> e.nnn, ext |-> ext, letter |-> n]

Ydd(ds, e) == FileName(ds, e, "ydd", 0)

FilesOf(ds, e) ==
    {Ydd(ds, e)} \cup {FileName(ds, e, "ytd", n) : n \in 1 .. A(ds, e.pos).textures}
        \cup IF A(ds, e.pos).physics /\ ~A(ds, e.pos).prop THEN {FileName(ds, e, "yld", 0)} ELSE {}

\* One name for the only gender of a part, one per gender when it has both.
MetaName(ds, k, g) ==
    [folder |-> Suffix(ds, k), gender |-> IF GendersOf(ds, k) = {g} THEN None ELSE g]

(* An operation that the parser accepts; what it refuses changes nothing.  *)
\* Edits while a build runs do not reach its revision and are left out.
Edit ==
    /\ revision = None /\ edits < MaxEdits
    /\ edits' = edits + 1
    /\ \E op \in Operations : Accepts(project, op) /\ project' = Apply(project, op)
    /\ UNCHANGED <<revision, part, todo, zip, metas, gone>>

(* The drawables are committed as a revision and its build starts.         *)
Build ==
    /\ revision = None
    /\ revision' = project.drawable
    /\ part' = 1 /\ todo' = EntriesOf(project.drawable, 1)
    /\ zip' = <<>> /\ metas' = <<>> /\ gone' = {}
    /\ UNCHANGED <<project, edits>>

(* writeEntry: what is written last under a name stays (JSZip.file).       *)
(* Without its YDD nothing of a drawable is written; other files may be    *)
(* missing one by one.                                                     *)
WriteEntry ==
    /\ revision # None /\ todo # <<>>
    /\ \E present \in SUBSET FilesOf(revision, Head(todo)) :
          IF Ydd(revision, Head(todo)) \in present
          THEN zip' = Over([f \in present |-> Head(todo).pos], zip) /\ gone' = gone
          ELSE zip' = zip /\ gone' = gone \cup {Head(todo).pos}
    /\ todo' = Tail(todo)
    /\ UNCHANGED <<project, edits, revision, part, metas>>

(* The shop metas of a part, one per gender, male first: they list what    *)
(* was planned.  Then the next part.                                       *)
ClosePart ==
    /\ revision # None /\ todo = <<>> /\ part <= PartCount(revision)
    /\ LET written(g) ==
               [m \in {MetaName(revision, part, h) : h \in GendersOf(revision, part) \cap {g}}
                   |-> MetaOf(revision, part, g)]
       IN metas' = Over(written("female"), Over(written("male"), metas))
    /\ part' = part + 1 /\ todo' = EntriesOf(revision, part + 1)
    /\ UNCHANGED <<project, edits, revision, zip, gone>>

\* Nothing is left to write.
Complete == revision # None /\ part > PartCount(revision)

(* The ZIP is generated and the build is over.                             *)
Deliver ==
    /\ Complete
    /\ revision' = None /\ part' = 0 /\ zip' = <<>> /\ metas' = <<>> /\ gone' = {}
    /\ UNCHANGED <<project, edits, todo>>

Init ==
    /\ \/ project \in Seeds /\ edits = 0
       \/ project \in Frozen /\ edits = MaxEdits
    /\ revision = None /\ part = 0 /\ todo = <<>> /\ zip = <<>> /\ metas = <<>> /\ gone = {}

Next == Edit \/ Build \/ WriteEntry \/ ClosePart \/ Deliver

Spec == Init /\ [][Next]_vars

-----------------------------------------------------------------------------
Idle == revision = None

(* DeletesAccepted: the project parses again, to itself, and every entity  *)
(* with a UUID can be deleted from it: applyLeaf leaves no reference       *)
(* behind that the parser would refuse.                                    *)
DeletesAccepted == Idle => Parses(project) /\ Parsed(project) = project /\ DeletesTaken(project)

(* RetriesHarmless: an operation that is applied a second time (a retry    *)
(* whose receipt was lost, see Workspace) is accepted and changes nothing  *)
(* more.  Excepted are batches, and upserts of an id with blanks, which    *)
(* add a second drawable of that id.                                       *)
RetriesHarmless == Idle => AppliedTwice(project)

(* OnlyTouchedChange: entities whose ids touchedEntityIds does not name,   *)
(* whose locks were therefore not looked at, stay as they are and as many, *)
(* in every list without two entities of one id.  Excepted are the members *)
(* of a deleted group, which leave it, and ids with blanks.                *)
OnlyTouchedChange == Idle => OthersKept(project)

(* IndependentEditsCommute: members who edit at once get the same project  *)
(* in whichever order their operations arrive, up to the order of what     *)
(* both add, when they edit different entities or different fields, or one *)
(* deletes what the other patches.  Excepted are three pairs of which the  *)
(* parser refuses the second: an edit that puts an entity into the group   *)
(* the other deletes, two that add to a list with room for one (Room), and *)
(* patches of one entity that do not go together, as a mode of replace and *)
(* the removal of its target (Fits).  The limit of the whole project's     *)
(* size (workspaceIsTooLarge) is the route's, not the reducer's.           *)
IndependentEditsCommute == Idle => Commuting(project)

\* The rank of addon i among those of its gender, its part and its number.
Before(ds, i) ==
    {j \in 1 .. i - 1 : A(ds, j).ydd /\ ~A(ds, j).replace /\ A(ds, j).gender = A(ds, i).gender}
PartOf(ds, i) == IF A(ds, i).replace THEN 1 ELSE Cardinality(Before(ds, i)) \div SplitAt + 1
NumberOf(ds, i) ==
    IF A(ds, i).replace THEN A(ds, i).target
    ELSE Cardinality({j \in Before(ds, i) : A(ds, j).slot = A(ds, i).slot /\ PartOf(ds, j) = PartOf(ds, i)})

(* PlanMatchesReference: every drawable with a YDD is planned exactly      *)
(* once, and nothing else; the addons of a gender fill the parts in the    *)
(* revision's order and are numbered in it per part and slot, no number    *)
(* reaches SplitAt, and every part is the first or has addons (SPLIT       *)
(* SEMANTICS of cloth/fivem-export.ts).                                    *)
PlanMatchesReference ==
    Idle =>
        LET ds == project.drawable
            plan == [k \in 1 .. PartCount(ds) |-> EntriesOf(ds, k)]
        IN /\ \A i \in Positions(ds) :
                 \E k \in DOMAIN plan : \E n \in DOMAIN plan[k] :
                    \A l \in DOMAIN plan : \A m \in DOMAIN plan[l] :
                       plan[l][m].pos = i <=> l = k /\ m = n
           /\ \A k \in DOMAIN plan : \A n \in DOMAIN plan[k] :
                 LET e == plan[k][n] IN
                 /\ e.pos \in Positions(ds) /\ e.part = k
                 /\ k = PartOf(ds, e.pos) /\ e.nnn = NumberOf(ds, e.pos)
                 /\ A(ds, e.pos).replace \/ e.nnn < SplitAt
           /\ \A k \in 2 .. PartCount(ds) : GendersOf(ds, k) # {}

\* Replaces of one target share their names; the others have their own.
Alone(ds, i) ==
    \A j \in DOMAIN ds \ {i} :
        A(ds, i).replace /\ A(ds, j).replace =>
            <<A(ds, i).gender, A(ds, i).slot, A(ds, i).target>> # <<A(ds, j).gender, A(ds, j).slot, A(ds, j).target>>

(* ShippedAsPlanned: in a finished ZIP no drawable's file was overwritten  *)
(* by another's: each whose YDD could be read has it, and whatever files   *)
(* it has are its own, except for replaces of one target.  Each gender of  *)
(* each part has its meta, under a name of its own, and a component that   *)
(* is listed there and whose YDD could be read has its file.               *)
ShippedAsPlanned ==
    Complete =>
        \A k \in 1 .. PartCount(revision) : \A n \in DOMAIN EntriesOf(revision, k) :
            LET e == EntriesOf(revision, k)[n]
                a == A(revision, e.pos)
            IN /\ Alone(revision, e.pos) =>
                     /\ e.pos \notin gone => Ydd(revision, e) \in DOMAIN zip
                     /\ \A f \in FilesOf(revision, e) \cap DOMAIN zip : zip[f] = e.pos
               /\ ~a.replace =>
                     \E m \in DOMAIN metas :
                        /\ m.folder = Suffix(revision, k) /\ metas[m].gender = a.gender
                        /\ ~a.prop => <<a.slot, e.nnn>> \in metas[m].components
                        /\ a.creature => metas[m].creature

-----------------------------------------------------------------------------
(***************************************************************************)
(* The inductive invariant of a build.                                     *)
(***************************************************************************)
Buildable(ds) == ds \in Seq(Entities("drawable")) /\ \A i \in DOMAIN ds : ds[i].shape \in Shapes["drawable"]
PlanEntry == [pos : Nat, part : Nat, dlc : Nat, nnn : Nat]

\* What is left to write of the part is of its plan.
PlanKept ==
    /\ Buildable(revision) /\ part \in Nat \ {0} /\ todo \in Seq(PlanEntry)
    /\ ToSet(todo) \subseteq ToSet(EntriesOf(revision, part))

\* Files have the names of what they come from.
OwnFiles ==
    \A f \in DOMAIN zip : \E k \in 1 .. PartCount(revision) : \E e \in ToSet(EntriesOf(revision, k)) :
        f \in FilesOf(revision, e) /\ zip[f] = e.pos

\* What is done has its YDD unless that was missing.
YddsWritten ==
    \A k \in 1 .. part : \A e \in ToSet(EntriesOf(revision, k)) :
        (k = part => e \notin ToSet(todo)) /\ e.pos \notin gone => Ydd(revision, e) \in DOMAIN zip

\* The parts before have their metas.
MetasWritten ==
    \A k \in 1 .. PartCount(revision) : k < part =>
        \A g \in GendersOf(revision, k) :
            MetaName(revision, k, g) \in DOMAIN metas /\ metas[MetaName(revision, k, g)] = MetaOf(revision, k, g)

(* Shipping: at every step of a build, what is in the ZIP has the names    *)
(* and the metas that the plan gives it, and what is missing is still to   *)
(* be written or could not be read.                                        *)
Shipping == revision # None => PlanKept /\ OwnFiles /\ YddsWritten /\ MetasWritten
=============================================================================
