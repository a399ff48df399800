---------------------------- MODULE MCTileBroker ----------------------------
(***************************************************************************)
(* The brokers under workers that may do anything: two metatiles of two    *)
(* tiles; an interactive and a bulk request that merge, in two formats,    *)
(* and a high priority request for the other metatile.                     *)
(***************************************************************************)
EXTENDS TileBroker

MCRequests ==
  {[x |-> 0, status |-> "cmdRender",     format |-> {"png"}],
   [x |-> 1, status |-> "cmdRenderBulk", format |-> {"jpg"}],
   [x |-> 3, status |-> "cmdRenderPrio", format |-> {"png"}]}
=============================================================================
