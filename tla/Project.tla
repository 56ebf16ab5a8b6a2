------------------------------ MODULE Project ------------------------------
(***************************************************************************)
(* The project of a live workspace and the operations on it: the parsers   *)
(* and the reducer of models/atelierWorkspace.ts, the drawables' parser of *)
(* models/atelierRevision.ts and touchedEntityIds of routes/workspaces.ts. *)
(* How operations reach the reducer one after the other is Workspace's     *)
(* matter; here are the functions, which Export puts to work.              *)
(*                                                                         *)
(* An entity is [id, group, shape]; its shape is a function of its other   *)
(* fields.  A field holds an object without objects in it (flags, the      *)
(* reference of an asset) or another value, which counts as one piece.     *)
(***************************************************************************)
EXTENDS Naturals, Sequences, SequencesExt, FiniteSets

CONSTANTS
    Groups, Drawables, Tattoos,   \* ids that are UUIDs
    Loose,                        \* ids of drawables that are not
    Fields,                       \* of each type: the fields of its shapes
    Parts, Atoms,                 \* fields of objects, and other values
    Shapes,                       \* of each type: what the parser accepts
    Sent, Patches,                \* of each type: shapes and patches clients send
    Limit,                        \* of each type: the longest list accepted
    Names, BadNames,
    None,
    Batches                       \* batches that clients send

Types == {"group", "drawable", "tattoo"}

Objects == UNION {[P -> Atoms] : P \in SUBSET Parts}
AnyShape(t) == [Fields[t] -> Atoms \cup Objects]

ASSUME ProjectAssumption ==
    /\ Names \cap BadNames = {} /\ None \notin Groups
    /\ \A S \in {Groups, Drawables, Tattoos} : IsFiniteSet(S)
    /\ \A t \in Types : Shapes[t] \cup Sent[t] \subseteq AnyShape(t) /\ Limit[t] \in Nat

\* A patch names fields of the type, the group among them.
ASSUME PatchAssumption ==
    \A t \in Types : \A patch \in Patches[t] : \A f \in DOMAIN patch :
        \/ f \in Fields[t] \ {"group"} /\ patch[f] \in Atoms \cup Objects
        \/ t # "group" /\ f = "group" /\ patch[f] \in Groups \cup {None}
ASSUME GroupAssumption == \A t \in Types : "group" \notin Fields[t]

Uuids(t) == CASE t = "group" -> Groups [] t = "drawable" -> Drawables [] t = "tattoo" -> Tattoos

\* An id with blanks around it, which parseDrawable trims.
Padded(id) == <<id>>
Trim(id) == IF id \in Drawables \cup Loose THEN id ELSE id[1]
ASSUME PaddedAssumption == \A id \in Drawables : Padded(id) \notin Drawables \cup Loose

Entity(id, g, s) == [id |-> id, group |-> g, shape |-> s]
IdsOf(list) == {list[i].id : i \in DOMAIN list}
DistinctIds(list) == \A i, j \in DOMAIN list : list[i].id = list[j].id => i = j

-----------------------------------------------------------------------------
(***************************************************************************)
(* parseWorkspaceProject: a project is accepted as a whole or refused; ids *)
(* of groups and tattoos are unique UUIDs, those of drawables anything.    *)
(* What the fields of one entity require of each other (a replace has a    *)
(* target, the slot is of the kind) is in Shapes.                          *)
(***************************************************************************)
Parses(p) ==
    /\ p.name \in Names
    /\ \A t \in Types : Len(p[t]) <= Limit[t] /\ \A i \in DOMAIN p[t] : p[t][i].shape \in Shapes[t]
    /\ \A t \in {"group", "tattoo"} : DistinctIds(p[t]) /\ IdsOf(p[t]) \subseteq Uuids(t)
    /\ \A t \in {"drawable", "tattoo"} : \A i \in DOMAIN p[t] :
          p[t][i].group \in IdsOf(p.group) \cup {None}

Trimmed(list) == [i \in DOMAIN list |-> [list[i] EXCEPT !.id = Trim(@)]]
Parsed(p) == [p EXCEPT !.drawable = Trimmed(@)]

(***************************************************************************)
(* applyLeaf.  Filters and searches of arrays are by the positions kept    *)
(* and found, which the proofs can count.                                  *)
(***************************************************************************)
\* The numbers of a finite set in ascending order, and a filtered list.
Nth(S, k) == CHOOSE n \in S : Cardinality({m \in S : m <= n}) = k
InOrder(S) == [k \in 1 .. Cardinality(S) |-> Nth(S, k)]
Kept(list, S) == [k \in 1 .. Cardinality(S) |-> list[Nth(S, k)]]

\* The first entity with an id, 0 when there is none.
PlacesOf(list, id) == {i \in DOMAIN list : list[i].id = id}
IndexOf(list, id) == IF PlacesOf(list, id) = {} THEN 0 ELSE Min(PlacesOf(list, id))

Ungrouped(list, g) ==
    [i \in DOMAIN list |-> IF list[i].group = g THEN [list[i] EXCEPT !.group = None] ELSE list[i]]

Dropped(list, id) == Kept(list, DOMAIN list \ PlacesOf(list, id))

DeletedForgettingTattoos(p, t, id) ==
    IF t = "group" THEN [p EXCEPT !.group = Dropped(@, id), !.drawable = Ungrouped(@, id)]
    ELSE [p EXCEPT ![t] = Dropped(@, id)]

Deleted(p, t, id) ==
    IF t = "group"
    THEN [p EXCEPT !.group = Dropped(@, id), !.drawable = Ungrouped(@, id), !.tattoo = Ungrouped(@, id)]
    ELSE [p EXCEPT ![t] = Dropped(@, id)]

UpsertedAtEnd(list, e) == Append(list, e)

Upserted(list, e) ==
    IF IndexOf(list, e.id) = 0 THEN Append(list, e) ELSE [list EXCEPT ![IndexOf(list, e.id)] = e]

Over(new, old) ==
    [k \in DOMAIN new \cup DOMAIN old |-> IF k \in DOMAIN new THEN new[k] ELSE old[k]]

\* mergePatch: objects are merged field by field, other values replaced.
Merged(old, new) == IF old \in Objects /\ new \in Objects THEN Over(new, old) ELSE new

MergePatch(e, patch) ==
    [e EXCEPT !.group = IF "group" \in DOMAIN patch THEN patch["group"] ELSE @,
              !.shape = [f \in DOMAIN @ |-> IF f \in DOMAIN patch THEN Merged(@[f], patch[f]) ELSE @[f]]]

PatchedOrAdded(list, id, patch) ==
    IF IndexOf(list, id) = 0
    THEN Append(list, MergePatch(Entity(id, None, <<>>), patch))
    ELSE [list EXCEPT ![IndexOf(list, id)] = MergePatch(@, patch)]

\* "delete wins over a stale edit".
Patched(list, id, patch) ==
    IF IndexOf(list, id) = 0 THEN list ELSE [list EXCEPT ![IndexOf(list, id)] = MergePatch(@, patch)]

\* The ids of an order that the list knows, and the last entity of each, as
\* in a Map.
Known(list, ids) == Kept(ids, {k \in DOMAIN ids : ids[k] \in IdsOf(list)})
LastOf(list, id) == list[Max(PlacesOf(list, id))]

Foremost(list, ids) ==
    [k \in DOMAIN Known(list, ids) |-> LastOf(list, Known(list, ids)[k])]

\* order.set: the known entities first, then those that the sender did not
\* know of.
Ordered(list, ids) ==
    Foremost(list, ids) \o Kept(list, {i \in DOMAIN list : list[i].id \notin ToSet(ids)})

ApplyLeaf(p, op) ==
    CASE op.kind = "project.patch" -> [p EXCEPT !.name = op.name]
      [] op.kind = "entity.delete" -> Deleted(p, op.type, op.id)
      [] op.kind = "entity.upsert" -> [p EXCEPT ![op.type] = Upserted(@, op.entity)]
      [] op.kind = "entity.patch" -> [p EXCEPT ![op.type] = Patched(@, op.id, op.patch)]
      [] op.kind = "order.set" -> [p EXCEPT ![op.type] = Ordered(@, op.ids)]

(* applyWorkspaceOperation: all leaves, then the parser.                   *)
Leaves(op) == IF op.kind = "batch" THEN op.operations ELSE <<op>>
Reduced(p, op) ==
    LET ops == Leaves(op)
        after[k \in 0 .. Len(ops)] == IF k = 0 THEN p ELSE ApplyLeaf(after[k - 1], ops[k])
    IN after[Len(ops)]
Accepts(p, op) == Parses(Reduced(p, op))
Apply(p, op) == IF Accepts(p, op) THEN Parsed(Reduced(p, op)) ELSE p

-----------------------------------------------------------------------------
(***************************************************************************)
(* parseWorkspaceOperation: what clients can send.  Patches, deletions and *)
(* orders name UUIDs; an upserted entity is only looked at by the parser.  *)
(***************************************************************************)
UpsertIds(t) ==
    IF t = "drawable" THEN Drawables \cup Loose \cup {Padded(id) : id \in Drawables} ELSE Uuids(t)

EntityOps(t) ==
    {[kind |-> "entity.delete", type |-> t, id |-> id] : id \in Uuids(t)}
    \cup {[kind |-> "entity.patch", type |-> t, id |-> id, patch |-> patch] :
            id \in Uuids(t), patch \in Patches[t]}
    \cup {[kind |-> "entity.upsert", type |-> t, entity |-> Entity(id, g, s)] :
            id \in UpsertIds(t), s \in Sent[t],
            g \in IF t = "group" THEN {None} ELSE Groups \cup {None}}

\* Repeated ids of an order are dropped on arrival.
OrderOps ==
    UNION {{[kind |-> "order.set", type |-> t, ids |-> ids] :
               ids \in UNION {SetToSeqs(S) : S \in SUBSET Uuids(t)}} : t \in {"drawable", "tattoo"}}

EntityEdits == UNION {EntityOps(t) : t \in Types}
LeafOps == EntityEdits \cup OrderOps \cup {[kind |-> "project.patch", name |-> n] : n \in Names \cup BadNames}
ASSUME BatchAssumption == Batches \subseteq Seq(LeafOps) \ {<<>>}
Operations == LeafOps \cup {[kind |-> "batch", operations |-> ops] : ops \in Batches}

\* touchedEntityIds: the ids whose locks are looked at.
IdOf(op) == IF op.kind = "entity.upsert" THEN op.entity.id ELSE op.id
Edits(op) == {i \in DOMAIN Leaves(op) : Leaves(op)[i].kind \in {"entity.patch", "entity.delete", "entity.upsert"}}
Touched(op) == {IdOf(Leaves(op)[i]) : i \in Edits(op)}

-----------------------------------------------------------------------------
(***************************************************************************)
(* The projects that the reducer works on, and those that are stored: what *)
(* a client initializes a workspace with is parsed, as every result is.    *)
(***************************************************************************)
Entities(t) == [id : UpsertIds(t), group : Groups \cup {None}, shape : AnyShape(t)]

Projects ==
    [name : Names \cup BadNames, group : Seq(Entities("group")), drawable : Seq(Entities("drawable")),
     tattoo : Seq(Entities("tattoo"))]

Stored(p) == p \in Projects /\ Parses(p) /\ Parsed(p) = p

-----------------------------------------------------------------------------
(***************************************************************************)
(* What the reducer owes to clients, of a project p.                       *)
(***************************************************************************)
SendsPadded(op) ==
    \E i \in Edits(op) : Leaves(op)[i].kind = "entity.upsert"
                         /\ Leaves(op)[i].entity.id \in {Padded(id) : id \in Drawables}

GroupsDeleted(op) ==
    {IdOf(Leaves(op)[i]) : i \in {j \in Edits(op) : /\ Leaves(op)[j].kind = "entity.delete"
                                                    /\ Leaves(op)[j].type = "group"}}

DeletesTaken(p) ==
    \A t \in Types : \A id \in Uuids(t) :
        LET op == [kind |-> "entity.delete", type |-> t, id |-> id]
        IN Accepts(p, op) /\ id \notin IdsOf(Apply(p, op)[t])

AppliedTwice(p) ==
    \A op \in LeafOps :
        Accepts(p, op) /\ ~SendsPadded(op) =>
            LET next == Apply(p, op) IN Accepts(next, op) /\ Apply(next, op) = next

\* How often e is in the list, once the groups that op deletes are left.
Seen(list, op, e) ==
    LET plain(x) == IF x.group \in GroupsDeleted(op) THEN [x EXCEPT !.group = None] ELSE x
    IN Cardinality({i \in DOMAIN list : plain(list[i]) = plain(e)})

OthersKept(p) ==
    \A op \in Operations, t \in Types :
        LET next == Apply(p, op)[t]
        IN DistinctIds(p[t]) /\ ~SendsPadded(op) =>
             \A e \in ToSet(p[t] \o next) : e.id \notin Touched(op) => Seen(p[t], op, e) = Seen(next, op, e)

\* Patches of different fields, or of different fields of one object.
Disjoint(q, r) ==
    \A f \in DOMAIN q \cap DOMAIN r :
        f # "group" /\ q[f] \in Objects /\ r[f] \in Objects /\ DOMAIN q[f] \cap DOMAIN r[f] = {}

\* Edits of different entities or of different fields, or a deletion and a
\* patch of one.
Independent(a, b) ==
    \/ a.type # b.type
    \/ a.type = "drawable" /\ Trim(IdOf(a)) # Trim(IdOf(b))
    \/ a.type # "drawable" /\ IdOf(a) # IdOf(b)
    \/ {a.kind, b.kind} = {"entity.patch", "entity.delete"}
    \/ a.kind = "entity.patch" /\ b.kind = "entity.patch" /\ Disjoint(a.patch, b.patch)

PutsInto(op, g) ==
    \/ op.kind = "entity.upsert" /\ op.entity.group = g
    \/ op.kind = "entity.patch" /\ "group" \in DOMAIN op.patch /\ op.patch.group = g

Apart(a, b) == a.kind = "entity.delete" /\ a.type = "group" => ~PutsInto(b, a.id)

\* The list has room for what both add to it.
Adds(p, op) == op.kind = "entity.upsert" /\ IndexOf(p[op.type], op.entity.id) = 0
Room(p, a, b) == a.type = b.type /\ Adds(p, a) /\ Adds(p, b) => Len(p[a.type]) + 2 <= Limit[a.type]

\* The parser accepts what two patches make of one entity together.
Fits(p, a, b) ==
    (/\ a.kind = "entity.patch" /\ b.kind = "entity.patch" /\ a.type = b.type /\ a.id = b.id
     /\ a.id \in IdsOf(p[a.type]))
        => LET e == p[a.type][IndexOf(p[a.type], a.id)]
           IN MergePatch(MergePatch(e, a.patch), b.patch).shape \in Shapes[a.type]

SameEntities(l1, l2) ==
    \A e \in ToSet(l1 \o l2) :
        Cardinality({i \in DOMAIN l1 : l1[i] = e}) = Cardinality({i \in DOMAIN l2 : l2[i] = e})

Commuting(p) ==
    LET mine == {op \in EntityEdits : Accepts(p, op)} IN
    \A a \in mine :
        LET pa == Apply(p, a) IN
        \A b \in mine :
            Independent(a, b) /\ Apart(a, b) /\ Apart(b, a) /\ Room(p, a, b) /\ Fits(p, a, b) =>
                /\ Accepts(pa, b)
                /\ LET ab == Apply(pa, b)  ba == Apply(Apply(p, b), a)
                   IN \A t \in Types : SameEntities(ab[t], ba[t])
=============================================================================
