-------------------------- MODULE MCUpdatePipeline --------------------------
(* The update pipeline with a few revisions.                               *)
EXTENDS UpdatePipeline

CONSTANTS p1, p2
=============================================================================
