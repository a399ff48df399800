----------------------------- MODULE MCStorages -----------------------------
(* The storages and what they are built on, checked side by side: a         *)
(* behaviour is one of a single component, chosen in the initial state,     *)
(* with the others at rest.                                                 *)
EXTENDS LtsStorage, DiskStorage, ExpiryOverlay, TileStorages, StorageConfig, MetaTile,
        TileIndex, HttpConnection, TLC

CONSTANTS clientA, clientB

VARIABLE component

Components == {"lts", "disk", "overlay", "composed", "config", "metatile", "index", "connection"}

(* A metatile of two tiles whose copies lie crosswise on two hosts. One     *)
(* client stores and expires, the other stores and reads.                   *)
MCHost == (1 :> 0) @@ (2 :> 1)
MCFormat == (1 :> "png") @@ (2 :> "png")
MCOperations == (clientA :> {"put", "expire", "special"}) @@ (clientB :> {"put", "get_meta"})

MCFormats == <<"png", "json">>
(* Tiles of one or two bytes, and empty ones at the start, within a row and *)
(* at the end of one.                                                       *)
MCSizeTables ==
    {[f \in {"png", "json"} |->
         [p \in (0..3) \X (0..3) |-> IF <<f, p>> \in empty THEN 0 ELSE 1 + ((p[1] + p[2]) % 2)]] :
     empty \in SUBSET {<<"png", <<0, 0>>>>, <<"png", <<1, 0>>>>, <<"json", <<0, 1>>>>}}

(* The tiles around the edges of a level and of its metatiles, where bits   *)
(* fall off or into each other.                                             *)
IndexZooms == {3, 4, 5, 13, 14, 17, 18}
Edge(z) == {0, 7, 8, TwoTo[z] - 9, TwoTo[z] - 8, TwoTo[z] - 1, TwoTo[z - 1]} \cap 0..(TwoTo[z] - 1)
MCIndexTiles == UNION {[x : Edge(z), y : Edge(z), z : {z}] : z \in IndexZooms}

MCInit ==
    /\ component \in Components
    /\ LtsInit /\ (component # "lts" => ~parallel)
    /\ DiskInit /\ OverlayInit /\ IndexInit /\ ConnectionInit
    /\ StoragesInit /\ (component # "composed" => config = CHOOSE c \in Configs : TRUE)
    /\ IF component = "config" THEN ConfigInit
       ELSE wanted = NoType /\ section = {} /\ made = NotMade
    /\ IF component = "metatile" THEN MetaInit
       ELSE job = <<>> /\ metatile = <<>> /\ got = 0

Rest1 == <<component, diskVars, overlayVars>>
Rest2 == <<storageVars, configVars, metaVars, indexVars, connectionVars>>
MCNext ==
    \/ component = "lts" /\ LtsNext /\ UNCHANGED Rest1 /\ UNCHANGED Rest2
    \/ component = "disk" /\ DiskNext /\ UNCHANGED <<component, ltsVars, overlayVars>> /\ UNCHANGED Rest2
    \/ component = "overlay" /\ OverlayNext /\ UNCHANGED <<component, ltsVars, diskVars>> /\ UNCHANGED Rest2
    \/ component = "composed" /\ StoragesNext /\ UNCHANGED Rest1
       /\ UNCHANGED <<ltsVars, configVars, metaVars, indexVars, connectionVars>>
    \/ component = "config" /\ ConfigNext /\ UNCHANGED Rest1
       /\ UNCHANGED <<ltsVars, storageVars, metaVars, indexVars, connectionVars>>
    \/ component = "metatile" /\ MetaNext /\ UNCHANGED Rest1
       /\ UNCHANGED <<ltsVars, storageVars, configVars, indexVars, connectionVars>>
    \/ component = "index" /\ IndexNext /\ UNCHANGED Rest1
       /\ UNCHANGED <<ltsVars, storageVars, configVars, metaVars, connectionVars>>
    \/ component = "connection" /\ ConnectionNext /\ UNCHANGED Rest1
       /\ UNCHANGED <<ltsVars, storageVars, configVars, metaVars, indexVars>>

allVars == <<component, ltsVars, diskVars, overlayVars, storageVars, configVars, metaVars,
             indexVars, connectionVars>>
MCSpec == MCInit /\ [][MCNext]_allVars

(* What every reachable state of a component satisfies: its types and the   *)
(* parts of its safety that the run does not name one by one. lts_storage   *)
(* combines copies to whole metatiles only, disk_storage keeps whole files  *)
(* and a handle its data, expiry_overlay has stale tiles marked, composed   *)
(* storages expire all that they serve, a metatile is read within its       *)
(* bounds, and an upload by curl is complete.                               *)
StoragesInv ==
    CASE component = "lts" -> LtsInv
      [] component = "disk" -> DiskInv
      [] component = "overlay" -> OverlayInv
      [] component = "composed" -> ComposedInv
      [] component = "metatile" -> MetaInv
      [] component = "connection" -> ConnectionInv
      [] OTHER -> TRUE
=============================================================================
