------------------------------ MODULE MCExport ------------------------------
EXTENDS Export
CONSTANTS
    g1, d1, d2, x1, t1,
    jacket, heels, gown, cap,           \* looks of drawables: gender, slot, textures, ...
    addon, swap, five,                  \* modes and a target
    sha1, sha2, size1, size2, ink, dye,
    junk                                \* what no field may be

MCAtoms == {jacket, heels, gown, cap, addon, swap, five, sha1, sha2, size1, size2, ink, dye, junk, None}

Simple(t) == t # "drawable"
MCFields == [t \in Types |-> IF Simple(t) THEN {"label"} ELSE {"look", "mode", "target", "ydd"}]

File(sha, size) == [sha256 |-> sha, size |-> size]
Labelled(label) == [label |-> label]
Drawn(look, mode, target, ydd) == [look |-> look, mode |-> mode, target |-> target, ydd |-> ydd]

Jacket == Drawn(jacket, addon, None, File(sha1, size1))
Heels == Drawn(heels, addon, None, File(sha1, size1))
Gown == Drawn(gown, addon, None, File(sha1, size1))
Cap == Drawn(cap, addon, None, File(sha1, size1))
Swap == Drawn(jacket, swap, five, File(sha1, size1))
Draft == Drawn(jacket, addon, five, None)

\* What parseDrawable accepts: a replace has a target, an asset is whole.
MCShapes ==
    [t \in Types |->
        IF Simple(t) THEN {Labelled(ink), Labelled(dye)}
        ELSE {Drawn(look, kind[1], kind[2], ydd) :
                 look \in {jacket, heels, gown, cap},
                 kind \in {<<addon, None>>, <<addon, five>>, <<swap, five>>},
                 ydd \in {None} \cup {File(sha, size) : sha \in {sha1, sha2}, size \in {size1, size2}}}]

MCSent ==
    [t \in Types |->
        IF Simple(t) THEN {Labelled(ink), Labelled(junk)} ELSE {Gown, Draft, Drawn(jacket, swap, None, None)}]

MCPatches ==
    [t \in Types |->
        CASE t = "group" -> {[label |-> dye], [label |-> junk]}
          [] t = "tattoo" -> {[label |-> dye], [label |-> junk], [group |-> g1], [group |-> None]}
          [] t = "drawable" ->
               {[mode |-> swap], [target |-> None], [mode |-> swap, target |-> five],
                [ydd |-> [sha256 |-> sha2]], [ydd |-> [size |-> size2]], [group |-> g1], [group |-> None]}]

MCLimit == [t \in Types |-> IF t = "drawable" THEN 7 ELSE 1]

MCAttr ==
    [s \in MCShapes["drawable"] |->
        [gender |-> IF s.look = gown THEN "female" ELSE "male",
         slot |-> IF s.look = heels THEN "feet" ELSE IF s.look = cap THEN "p_head" ELSE "jbib",
         prop |-> s.look = cap, creature |-> s.look \in {heels, cap}, physics |-> s.look = heels,
         textures |-> IF s.look = jacket THEN 1 ELSE 0,
         replace |-> s.mode = swap, target |-> IF s.target = five THEN 5 ELSE 0, ydd |-> s.ydd # None]]

ProjectOf(groups, drawables, tattoos) ==
    [name |-> "ok", group |-> groups, drawable |-> drawables, tattoo |-> tattoos]

\* The last has room for one drawable more.
MCSeeds ==
    {ProjectOf(<<Entity(g1, None, Labelled(ink))>>,
               <<Entity(d1, g1, Jacket), Entity(x1, None, Swap), Entity(d2, None, Gown)>>,
               <<Entity(t1, g1, Labelled(ink))>>),
     ProjectOf(<<>>, <<Entity(d1, None, Jacket), Entity(d1, None, Heels)>>, <<>>),
     ProjectOf(<<>>, [i \in 1 .. 6 |-> Entity(IF i = 3 THEN d1 ELSE x1, None, Draft)], <<>>)}

\* Lists to be built: every one of up to two drawables, of three of three
\* looks and of four of two, and two longer ones.
MCFrozen ==
    {ProjectOf(<<>>, [i \in DOMAIN list |-> Entity(x1, None, list[i])], <<>>) :
        list \in BoundedSeq({Jacket, Heels, Gown, Cap, Swap, Draft}, 2)
                 \cup BoundedSeq({Jacket, Gown, Swap}, 3)
                 \cup BoundedSeq({Jacket, Gown}, 4) \cup BoundedSeq({Jacket, Heels}, 4)
                 \cup {<<Cap, Heels, Draft, Swap, Gown, Cap>>, <<Gown, Jacket, Gown, Heels, Gown, Jacket, Swap>>}}

MCBatches ==
    {<<[kind |-> "entity.upsert", type |-> "group", entity |-> Entity(g1, None, Labelled(ink))],
       [kind |-> "entity.upsert", type |-> "drawable", entity |-> Entity(d1, g1, Gown)]>>,
     <<[kind |-> "entity.delete", type |-> "group", id |-> g1],
       [kind |-> "entity.patch", type |-> "drawable", id |-> d1, patch |-> [group |-> g1]]>>,
     <<[kind |-> "entity.delete", type |-> "drawable", id |-> d1],
       [kind |-> "order.set", type |-> "drawable", ids |-> <<d2, d1>>]>>}
=============================================================================
