-------------------------- MODULE MCRequestContext --------------------------
(***************************************************************************)
(* RequestContext on three coroutines, so that two requests and a forked   *)
(* coroutine meet, and three blocks, so that they nest and are shared.     *)
(***************************************************************************)
EXTENDS RequestContext, TLC

\* Coroutines, blocks and values are interchangeable.
Symmetric == Permutations(Tasks) \cup Permutations(Managers) \cup Permutations(Values)
=============================================================================
