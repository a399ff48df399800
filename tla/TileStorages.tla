--------------------------- MODULE TileStorages ----------------------------
(* The storages that are made of other storages: union_storage,            *)
(* per_style_storage and compositing_storage (storage/*.cpp), composed as  *)
(* a compositing storage over a union of two leaves and a per-style pair   *)
(* of leaves.  A leaf answers as disk_storage does: expire is refused for  *)
(* a tile it does not have, and a put may fail and leave it as it was.     *)
(* One tile per style.  A copy is the version put and its time: the        *)
(* version, as if no two puts came in the same second, or 0, the epoch,    *)
(* once it is expired.                                                     *)
EXTENDS Naturals, Sequences, FiniteSets, FiniteSetsExt

CONSTANTS
    TileStyles,  \* styles of tiles
    OwnStyle,    \* the style the per-style storage has a leaf of its own for
    TileFormats, \* single formats
    MaxStoragePuts  \* bound: metatiles put

ASSUME StoragesAssumption == OwnStyle \in TileStyles /\ MaxStoragePuts \in Nat

VARIABLES
    copies,     \* what each leaf holds
    config,     \* the compositing storage's configuration
    composed,   \* the last tile that a get of the compositing storage returned
    putCount,   \* metatiles put so far
    whole,      \* history: the version of the union's last put if it returned true
    owed        \* history: the layers an expire that returned true has expired,
                \* and that no put has refreshed

storageVars == <<copies, config, composed, putCount, whole, owed>>

Union == <<"u1", "u2">>                  \* m_storages of the union
UnionLeaves == {"u1", "u2"}
StyleLeaves == {"own", "default"}
StoreOf(style) == IF style = OwnStyle THEN "own" ELSE "default"  \* m_storages.find(tile.style)

Epoch == 0
NoCopy == [version |-> 0, time |-> Epoch]
Copies == [version : 0..MaxStoragePuts, time : 0..MaxStoragePuts]
Has(leaf, style) == copies[leaf][style] # NoCopy
Layers == {"under", "over"}
NoHandle == [exists |-> FALSE, style |-> OwnStyle, last_modified |-> 0, expired |-> FALSE,
             under |-> 0, over |-> 0, settled |-> FALSE]
LeafHandle(c) == [exists |-> c # NoCopy, version |-> c.version,
                  last_modified |-> c.time, expired |-> c.time = Epoch]

(* The configurations that create_compositing_storage accepts: some layer  *)
(* formats, an optional style for each layer, the two expire flags, and at *)
(* least one format to generate.                                           *)
OptionalStyle == {{}} \cup {{s} : s \in TileStyles}
Configs == [under_style : OptionalStyle, over_style : OptionalStyle, expire_under : BOOLEAN,
            expire_over : BOOLEAN, generate : SUBSET TileFormats \ {{}}]

StoragesInit ==
    /\ copies = [leaf \in UnionLeaves \cup StyleLeaves |-> [style \in TileStyles |-> NoCopy]]
    /\ config \in Configs
    /\ composed = NoHandle /\ putCount = 0
    /\ whole = [style \in TileStyles |-> 0]
    /\ owed = [style \in TileStyles |-> {}]

(* put into the leaves that take it.                                       *)
PutInto(leaves, style) ==
    [leaf \in DOMAIN copies |->
        IF leaf \in leaves
        THEN [copies[leaf] EXCEPT ![style] = [version |-> putCount + 1, time |-> putCount + 1]]
        ELSE copies[leaf]]
(* expire in the leaves asked, which overwrite the tile's time; a leaf     *)
(* without the tile returns false.                                         *)
ExpireIn(leaves, style) ==
    [leaf \in DOMAIN copies |->
        IF leaf \in leaves /\ Has(leaf, style)
        THEN [copies[leaf] EXCEPT ![style].time = Epoch]
        ELSE copies[leaf]]

(* union_storage: every storage is asked, and all must succeed; get takes  *)
(* the first copy there is.                                                *)
UnionGet(style) ==
    LET there == {i \in DOMAIN Union : Has(Union[i], style)}
    IN IF there = {} THEN LeafHandle(NoCopy) ELSE LeafHandle(copies[Union[Min(there)]][style])
OneIsEnough(took) == took # {}                             \* mutant
UnionPutResult(took) == took = UnionLeaves
UntilOneSucceeds(style) ==                                 \* mutant
    LET there == {i \in DOMAIN Union : Has(Union[i], style)}
    IN [asked |-> IF there = {} THEN UnionLeaves ELSE {Union[Min(there)]}, ok |-> there # {}]
UnionExpired(style) ==
    [asked |-> UnionLeaves, ok |-> \A leaf \in UnionLeaves : Has(leaf, style)]

UnionPut(style, took) ==
    /\ putCount < MaxStoragePuts
    /\ putCount' = putCount + 1
    /\ copies' = PutInto(took, style)
    /\ whole' = [whole EXCEPT ![style] = IF UnionPutResult(took) THEN putCount + 1 ELSE 0]
    /\ owed' = [owed EXCEPT ![style] = @ \ {"under"}]
    /\ UNCHANGED <<config, composed>>

(* per_style_storage: each call goes to the style's storage or the default.*)
StyleGet(style) == LeafHandle(copies[StoreOf(style)][style])
StylePut(style, took) ==
    /\ putCount < MaxStoragePuts
    /\ putCount' = putCount + 1
    /\ copies' = PutInto(took \cap {StoreOf(style)}, style)
    /\ owed' = [owed EXCEPT ![style] = @ \ {"over"}]
    /\ UNCHANGED <<config, composed, whole>>

(* A leaf drops a tile: eviction, or a disk that was replaced.             *)
Lose(leaf, style) ==
    /\ Has(leaf, style)
    /\ copies' = [copies EXCEPT ![leaf][style] = NoCopy]
    /\ UNCHANGED <<config, composed, putCount, whole, owed>>

(* compositing_storage::can_generate_formats: the formats asked for are to *)
(* include every one configured.                                           *)
can_generate_formats(formats) == formats \cap config.generate = config.generate
StyleOr(configured, style) == IF configured = {} THEN style ELSE CHOOSE s \in configured : TRUE
UnderStyle(style) == StyleOr(config.under_style, style)
OverStyle(style) == StyleOr(config.over_style, style)

(* compositing_storage::get.  Both layers are needed; the later time and   *)
(* either one's expiry are the composite's; an image that cannot be read,  *)
(* or another size, gives no tile; a get without a tile changes nothing.   *)
EarlierTime(style, under, over) ==                         \* mutant
    [exists |-> TRUE, style |-> style, under |-> under.version, over |-> over.version,
     last_modified |-> Min({under.last_modified, over.last_modified}),
     expired |-> under.expired \/ over.expired, settled |-> whole[UnderStyle(style)] # 0]
Composite(style, under, over) ==
    [exists |-> TRUE, style |-> style, under |-> under.version, over |-> over.version,
     last_modified |-> Max({under.last_modified, over.last_modified}),
     expired |-> under.expired \/ over.expired, settled |-> whole[UnderStyle(style)] # 0]
CompositeHandle(style) == Composite(style, UnionGet(UnderStyle(style)), StyleGet(OverStyle(style)))
CompositeThere(style) == UnionGet(UnderStyle(style)).exists /\ StyleGet(OverStyle(style)).exists
CompositeGet(style, format, readable) ==
    /\ can_generate_formats({format}) /\ CompositeThere(style) /\ readable
    /\ composed' = CompositeHandle(style)
    /\ UNCHANGED <<copies, config, putCount, whole, owed>>

(* compositing_storage::expire: the layer above only when the one          *)
(* underneath went well; both with the tile's own style.                   *)
CompositeExpire(style) ==
    LET under == UnionExpired(style)
        under_ok == ~config.expire_under \/ under.ok
        over_ok == ~config.expire_over \/ (under_ok /\ Has(StoreOf(style), style))
        asked == (IF config.expire_under THEN under.asked ELSE {})
                 \cup (IF config.expire_over /\ under_ok THEN {StoreOf(style)} ELSE {})
        layers == {l \in Layers : IF l = "under" THEN config.expire_under ELSE config.expire_over}
    IN /\ copies' = ExpireIn(asked, style)
       /\ owed' = IF under_ok /\ over_ok THEN [owed EXCEPT ![style] = @ \cup layers] ELSE owed
       /\ UNCHANGED <<config, composed, putCount, whole>>

StoragesNext ==
    \/ \E style \in TileStyles, took \in SUBSET UnionLeaves : UnionPut(style, took)
    \/ \E style \in TileStyles, took \in SUBSET StyleLeaves : StylePut(style, took)
    \/ \E style \in TileStyles, leaf \in UnionLeaves \cup StyleLeaves : Lose(leaf, style)
    \/ \E style \in TileStyles, format \in TileFormats, readable \in BOOLEAN :
          CompositeGet(style, format, readable)
    \/ \E style \in TileStyles : CompositeExpire(style)

StoragesSpec == StoragesInit /\ [][StoragesNext]_storageVars

-----------------------------------------------------------------------------
(* The type invariant.                                                     *)
StoragesTypeOK ==
    /\ copies \in [UnionLeaves \cup StyleLeaves -> [TileStyles -> Copies]]
    /\ config \in Configs
    /\ composed.exists \in BOOLEAN /\ composed.expired \in BOOLEAN /\ composed.settled \in BOOLEAN
    /\ composed.style \in TileStyles
    /\ {composed.last_modified, composed.under, composed.over} \subseteq 0..putCount
    /\ putCount \in 0..MaxStoragePuts
    /\ whole \in [TileStyles -> 0..putCount] /\ owed \in [TileStyles -> SUBSET Layers]

(* Once union_storage::put_meta has returned true, the union serves that   *)
(* version or nothing, whichever of its storages lose their copy, until    *)
(* the next put: no storage is left with an older one.                     *)
UnionServesLast ==
    \A style \in TileStyles :
        whole[style] # 0 /\ UnionGet(style).exists => UnionGet(style).version = whole[style]

(* Once compositing_storage::expire has returned true, no composite of the *)
(* tile is called fresh until every layer it expired has been put again,   *)
(* whatever the storages lose in between.  With a style of their own for   *)
(* the layers it expires other tiles than get reads, and nothing is        *)
(* promised.                                                               *)
CompositeExpiryHolds ==
    config.under_style = {} /\ config.over_style = {} =>
        \A style \in TileStyles :
            owed[style] # {} /\ CompositeThere(style) => CompositeHandle(style).expired

(* A composite that is not expired has the last_modified of an earlier one *)
(* only when both are made of the same layers, whichever layers had been   *)
(* expired when the earlier one was made, so that a client that is told    *)
(* 304 has the current tile (comment in compositing_storage::get), while   *)
(* the union's storages agree.  For an expired one this need not be so:    *)
(* the time of the expired layer is gone, and what is left may be the time *)
(* of a layer that has not changed.                                        *)
LastModifiedTells ==
    LET now == CompositeHandle(composed.style)
    IN composed.exists /\ composed.settled
       /\ CompositeThere(composed.style) /\ now.settled /\ ~now.expired
       /\ composed.last_modified = now.last_modified =>
           composed.under = now.under /\ composed.over = now.over

(* What makes them inductive: no copy is newer than the last put, and its  *)
(* time is its own while it is not expired, ...                            *)
NoneNewer ==
    \A leaf \in UnionLeaves \cup StyleLeaves, style \in TileStyles :
        /\ copies[leaf][style].version <= putCount
        /\ copies[leaf][style].time \in {Epoch, copies[leaf][style].version}
(* ... a storage of the union has the version that the last put returned   *)
(* true for or nothing, ...                                                *)
UnionAgrees ==
    \A style \in TileStyles, leaf \in UnionLeaves :
        whole[style] # 0 /\ Has(leaf, style) => copies[leaf][style].version = whole[style]
(* ... a storage of a layer that was expired has nothing fresh, ...        *)
OwedIsExpired ==
    \A style \in TileStyles :
        /\ "under" \in owed[style] =>
              \A leaf \in UnionLeaves : Has(leaf, style) => copies[leaf][style].time = Epoch
        /\ "over" \in owed[style] =>
              (Has(StoreOf(style), style) => copies[StoreOf(style)][style].time = Epoch)
(* ... and a layer of the composite last returned is there as it was, is   *)
(* gone, or is newer than both were.                                       *)
SameOrNewer ==
    composed.exists /\ composed.settled =>
        LET under == UnderStyle(composed.style)  over == OverStyle(composed.style)
        IN /\ whole[under] \in {0, composed.under} \/ whole[under] > composed.last_modified
           /\ Has(StoreOf(over), over) =>
                 \/ copies[StoreOf(over)][over].version = composed.over
                 \/ copies[StoreOf(over)][over].version > composed.last_modified
ComposedInv ==
    /\ StoragesTypeOK /\ NoneNewer /\ UnionAgrees /\ OwedIsExpired /\ SameOrNewer
    /\ UnionServesLast /\ CompositeExpiryHolds /\ LastModifiedTells
====
