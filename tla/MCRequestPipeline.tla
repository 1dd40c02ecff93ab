------------------------- MODULE MCRequestPipeline -------------------------
(***************************************************************************)
(* RequestPipeline on one or two requests, under every startable setting.  *)
(***************************************************************************)
EXTENDS RequestPipeline, TLC

\* Requests differ in their input only.
Symmetric == Permutations(Requests)
=============================================================================
