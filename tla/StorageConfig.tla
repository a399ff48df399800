--------------------------- MODULE StorageConfig ---------------------------
(* How a storage is made from its section of the configuration file        *)
(* (storage/tile_storage.cpp, tile_storage_factory::create, and the        *)
(* creators of the storages that hold other storages).  An INI section is  *)
(* one level of keys such as "under.a.type"; a creator collects the keys   *)
(* that start with a storage's name and a dot, strips that, and puts the   *)
(* rest into a property tree, where put takes the dots for levels.  The    *)
(* creator of the storage inside finds its part either as a child tree or  *)
(* as dotted keys again.                                                   *)
(*                                                                         *)
(* A key of the tree is a sequence of levels and a level a sequence of     *)
(* names, the parts between its dots.  A value is a word or a list of      *)
(* names.                                                                  *)
EXTENDS Naturals, Sequences

CONSTANTS
    LeafTypes,   \* registered types without a storage inside
    ChildNames   \* names a configuration gives to storages inside

(* The types a section may name are told apart from each other and from    *)
(* what is no type.                                                        *)
InnerTypes == {"union", "per_style", "expiry_overlay", "compositing"}
ASSUME ConfigAssumption ==
    /\ LeafTypes # {}
    /\ LeafTypes \cap (InnerTypes \cup {"none", "NULL", "throws", "not made"}) = {}

VARIABLES
    wanted,  \* the storage the section describes
    section, \* the section, as the INI parser leaves it
    made     \* what the factory returned

configVars == <<wanted, section, made>>

(* Storages as trees: a type, and what is inside under which name.         *)
Leaf(t) == [type |-> t, names |-> <<>>, inside |-> <<>>]
NoType == Leaf("none")       \* a section that gives no registered type
NoStorage == Leaf("NULL")    \* the factory's null pointer
Throws == Leaf("throws")     \* a creator's exception
NotMade == Leaf("not made")

(* The types with storages inside: the names of these, and the key that    *)
(* holds the names when the configuration chooses them.                    *)
ListKey(t) == CASE t = "union" -> "storages" [] t = "per_style" -> "styles"
                [] t = "expiry_overlay" -> "storage" [] OTHER -> "no key"
FixedNames(t) == CASE t = "per_style" -> <<"default">> [] t = "compositing" -> <<"under", "over">>
                   [] OTHER -> <<>>
ChosenNames(t) ==
    CASE t = "union" -> {<<a, b>> : a \in ChildNames, b \in ChildNames}
      [] t = "per_style" -> {<<a>> : a \in ChildNames}
      [] t = "expiry_overlay" -> {<<a>> : a \in ChildNames}
      [] OTHER -> {<<>>}

(* A name that is used twice names the same keys.                          *)
Over(types, kinds) ==
    {[type |-> t, names |-> n \o FixedNames(t), inside |-> [i \in DOMAIN (n \o FixedNames(t)) |->
          f[(n \o FixedNames(t))[i]]]] :
        t \in types, n \in UNION {ChosenNames(u) : u \in types},
        f \in [ChildNames \cup {"default", "under", "over"} -> kinds]}
WellNamed(tree) ==
    \E n \in ChosenNames(tree.type) : tree.names = n \o FixedNames(tree.type)
Leaves == {Leaf(t) : t \in LeafTypes \cup {"none"}}
Flat == {tree \in Over(InnerTypes, Leaves) : WellNamed(tree)}
(* Two levels, the inner ones of one kind so that the names repeat.        *)
Nested ==
    {tree \in UNION {Over(InnerTypes, {inner, Leaf(CHOOSE t \in LeafTypes : TRUE)}) : inner \in Flat} :
        WellNamed(tree)}

Entry(key, value) == [key |-> key, value |-> value]

(* The section that describes a tree, as one level of dotted keys; the     *)
(* reference the creators are compared with.                               *)
Own(tree) ==
    (IF tree.type = "none" THEN {} ELSE {Entry(<<<<"type">>>>, <<tree.type>>)})
    \cup (IF ListKey(tree.type) = "no key" THEN {}
          ELSE {Entry(<<<<ListKey(tree.type)>>>>,
                      SubSeq(tree.names, 1, Len(tree.names) - Len(FixedNames(tree.type))))})
Under(tree, below) ==
    UNION {{Entry(<<<<tree.names[i]>> \o e.key[1]>>, e.value) : e \in below[i]} : i \in DOMAIN tree.names}
WrittenFlat(tree) == Own(tree) \cup Under(tree, [i \in DOMAIN tree.names |-> Own(tree.inside[i])])
Written(tree) == Own(tree) \cup Under(tree, [i \in DOMAIN tree.names |-> WrittenFlat(tree.inside[i])])

(* get_subtree and its copies: the child tree of that name, and the keys   *)
(* of this level with the name as a prefix, put as levels.                 *)
DottedKeysOnly(conf, name) ==                              \* mutant
    {Entry([i \in 1..(Len(e.key[1]) - 1) |-> <<e.key[1][i + 1]>>], e.value) :
        e \in {e \in conf : Len(e.key) = 1 /\ Len(e.key[1]) > 1 /\ e.key[1][1] = name}}
SubTree(conf, name) ==
    {Entry(Tail(e.key), e.value) : e \in {e \in conf : Len(e.key) > 1 /\ e.key[1] = <<name>>}}
    \cup {Entry([i \in 1..(Len(e.key[1]) - 1) |-> <<e.key[1][i + 1]>>], e.value) :
             e \in {e \in conf : Len(e.key) = 1 /\ Len(e.key[1]) > 1 /\ e.key[1][1] = name}}

(* conf.get(key) of this level.                                            *)
Lookup(conf, key) == {e.value : e \in {e \in conf : e.key = <<<<key>>>>}}

(* The names of the storages that each creator makes.                      *)
Listed(conf, key) == IF Lookup(conf, key) = {} THEN <<>> ELSE CHOOSE v \in Lookup(conf, key) : TRUE
create_union_storage(conf) == Listed(conf, "storages")
create_per_style_storage(conf) == Listed(conf, "styles") \o <<"default">>
create_expiry_overlay(conf) == Listed(conf, "storage")
create_compositing_storage(conf) == <<"under", "over">>
TypeIn(conf) == IF Lookup(conf, "type") = {} THEN "none" ELSE (CHOOSE v \in Lookup(conf, "type") : TRUE)[1]
Created(conf) ==
    CASE TypeIn(conf) = "union" -> create_union_storage(conf)
      [] TypeIn(conf) = "per_style" -> create_per_style_storage(conf)
      [] TypeIn(conf) = "expiry_overlay" -> create_expiry_overlay(conf)
      [] TypeIn(conf) = "compositing" -> create_compositing_storage(conf)
      [] OTHER -> <<>>

(* make_subtree: no storage is left out, one that is NULL is an exception. *)
make_subtree(children) == \A i \in DOMAIN children : children[i] \notin {NoStorage, Throws}

(* tile_storage_factory::create, with what it makes of the storages inside *)
(* the section: a missing or unknown type gives NULL.                      *)
create_from(conf, children) ==
    CASE TypeIn(conf) \in LeafTypes -> Leaf(TypeIn(conf))
      [] TypeIn(conf) \in InnerTypes ->
           IF make_subtree(children)
           THEN [type |-> TypeIn(conf), names |-> Created(conf), inside |-> children] ELSE Throws
      [] OTHER -> NoStorage

(* It is called again for each of these, at two levels of nesting for the  *)
(* sections here; none of them describes a third.                         *)
create_inmost(conf) == create_from(conf, [i \in DOMAIN Created(conf) |-> NoStorage])
create_inner(conf) ==
    create_from(conf, [i \in DOMAIN Created(conf) |-> create_inmost(SubTree(conf, Created(conf)[i]))])
create(conf) ==
    create_from(conf, [i \in DOMAIN Created(conf) |-> create_inner(SubTree(conf, Created(conf)[i]))])

ConfigInit ==
    /\ wanted \in Leaves \cup Flat \cup Nested
    /\ section = Written(wanted)
    /\ made = NotMade

get_tile_storage ==
    /\ made = NotMade
    /\ made' = create(section)
    /\ UNCHANGED <<wanted, section>>

ConfigNext == get_tile_storage
ConfigSpec == ConfigInit /\ [][ConfigNext]_configVars

CompleteFlat(tree) == tree.type # "none" /\ \A i \in DOMAIN tree.inside : tree.inside[i].type # "none"
Complete(tree) == tree.type # "none" /\ \A i \in DOMAIN tree.inside : CompleteFlat(tree.inside[i])

(* The factory makes the storage the section describes, with storages      *)
(* inside storages and names used again at another level, and refuses a    *)
(* section in which a storage at any depth has no type rather than leave   *)
(* that storage out.  The comments in create_union_storage expect "a bunch *)
(* of trouble" from nested unions; the two ways a creator looks for its    *)
(* part make them work.                                                    *)
MadeAsDescribed ==
    made # NotMade =>
        made = IF wanted = NoType THEN NoStorage ELSE IF Complete(wanted) THEN wanted ELSE Throws
====
