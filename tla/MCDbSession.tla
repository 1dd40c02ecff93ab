---------------------------- MODULE MCDbSession ----------------------------
(***************************************************************************)
(* DbSession on small instances: two requests that compete for two         *)
(* connections, and one whose body nests, catches and turns from one       *)
(* tenant to another.                                                      *)
(***************************************************************************)
EXTENDS DbSession

\* One route depends on both sessions, the other on the tenant's only.
BothAndTenant ==
  {[r \in Requests |->
      IF r = "r1" THEN <<"public", "tenant">> ELSE <<"tenant">>]}

\* A route of either kind, for the request that is alone.
BothOrTenant ==
  {[r \in Requests |-> p] : p \in {<<"public", "tenant">>, <<"tenant">>}}
=============================================================================
