---------------------------- MODULE MCTileHandler ----------------------------
(* Three clients over two I/O threads, so that lookups queue and overtake  *)
(* each other; every kind of request is among theirs.                      *)
EXTENDS TileHandler, TLC

CONSTANTS base, overlay

MCTiles == {base, overlay}
MCDirtyList == (base :> {overlay}) @@ (overlay :> {})

MCAsks ==
  (1 :> [cmd : {"cmdStatus", "unparsable", "bad"}, tile : {base}]) @@
  (2 :> [cmd : {"cmdDirty"}, tile : {base}]) @@
  (3 :> [cmd : {"cmdRender"}, tile : {overlay}])
=============================================================================
