-------------------------- MODULE MCGlobalScheduler --------------------------
(* The threads of the model-checking runs of GlobalScheduler. *)
EXTENDS GlobalScheduler

CONSTANTS c1, c2, c3
=============================================================================
