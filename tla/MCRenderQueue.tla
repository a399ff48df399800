---------------------------- MODULE MCRenderQueue ----------------------------
(***************************************************************************)
(* Instances of the render queue: requests that merge on one metatile.     *)
(***************************************************************************)
EXTENDS RenderQueue, TLC

\* Two requests that merge into one task.
MCMerging ==
  {[x |-> 0, status |-> "cmdRender", format |-> {"png"}],
   [x |-> 1, status |-> "cmdRender", format |-> {"png"}]}

\* Workers are interchangeable: nothing orders or chooses between them.
WorkerSymmetry == Permutations(Workers)
=============================================================================
