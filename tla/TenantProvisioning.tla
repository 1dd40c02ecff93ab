------------------------- MODULE TenantProvisioning -------------------------
(***************************************************************************)
(* backend/database/tenant/provisioner.py: workers that create, look up    *)
(* and drop the schemas of tenants, each call in a transaction of its own, *)
(* while committed sessions of other requests put objects into them.       *)
(*                                                                         *)
(* PostgreSQL is modelled by what these statements do under concurrency:   *)
(* a transaction sees the committed catalog; CREATE ... IF NOT EXISTS that *)
(* sees no schema waits for another transaction that is creating it, and   *)
(* is then refused by the catalog's unique index; DROP waits for another   *)
(* DROP of the same schema and looks again.                                *)
(***************************************************************************)
EXTENDS Naturals, FiniteSets

CONSTANTS
  Workers,
  Tenants,        \* tenant ids as callers write them
  InvalidTenants, \* those build_tenant_schema_name refuses
  SchemaOf,       \* SchemaOf[t]: prefix and id, what it makes of the others
  TenantEnabled   \* TENANT_ENABLED

Schemas == {SchemaOf[t] : t \in Tenants \ InvalidTenants}

ASSUME ConstantAssumption ==
  /\ InvalidTenants \subseteq Tenants
  /\ DOMAIN SchemaOf = Tenants
  /\ TenantEnabled \in BOOLEAN

VARIABLES
  existing, \* the committed schemas
  filled,   \* those of them that contain something
  call,     \* call[w]: the call w makes, or made last
  pc,       \* pc[w]: "idle", "asked", "waiting", "executed", "returned"
  effect,   \* effect[w]: what its transaction did and has not committed
  result    \* result[w]: what the call returned, or why it raised

vars == <<existing, filled, call, pc, effect, result>>

Calls == [op : {"create", "check"}, tenant : Tenants, cascade : {FALSE}]
         \cup [op : {"drop"}, tenant : Tenants, cascade : BOOLEAN]

Results == {"none", "ok", "yes", "no",        \* returned
            "refused",                        \* RuntimeError, ValueError
            "duplicate", "restrict", "lost"}  \* the database's errors

TypeOK ==
  /\ existing \subseteq Schemas
  /\ filled \subseteq existing
  /\ call \in [Workers -> Calls]
  /\ pc \in [Workers -> {"idle", "asked", "waiting", "executed", "returned"}]
  /\ effect \in [Workers -> {"none", "create", "drop"}]
  /\ result \in [Workers -> Results]

Init ==
  /\ existing \in SUBSET Schemas
  /\ filled = {}
  /\ call \in [Workers -> {c \in Calls : c.op = "check"}]
  /\ pc = [w \in Workers |-> "idle"]
  /\ effect = [w \in Workers |-> "none"]
  /\ result = [w \in Workers |-> "none"]

-----------------------------------------------------------------------------
Schema(w) == SchemaOf[call[w].tenant]

\* Another transaction that has done e to w's schema and is not over.
Pending(w, e) == \E v \in Workers \ {w} : effect[v] = e /\ Schema(v) = Schema(w)

Asks(w, op) == pc[w] = "asked" /\ call[w].op = op

\* w's statement is executed: it did e and, if it reads, it read x.
Executes(w, e, x) ==
  /\ pc' = [pc EXCEPT ![w] = "executed"]
  /\ effect' = [effect EXCEPT ![w] = e]
  /\ result' = [result EXCEPT ![w] = x]
  /\ UNCHANGED <<existing, filled, call>>

\* w's statement raises: the transaction is rolled back.
Raises(w, why) ==
  /\ pc' = [pc EXCEPT ![w] = "returned"]
  /\ effect' = [effect EXCEPT ![w] = "none"]
  /\ result' = [result EXCEPT ![w] = why]
  /\ UNCHANGED <<existing, filled, call>>

-----------------------------------------------------------------------------
(* The calls. *)

\* A bug: the id is put into the statement as it is.
BugAccepts(c) == c.op = "check" \/ TenantEnabled

\* Nothing to do for a single tenant, except to look; then the name is built.
Accepts(c) ==
  /\ c.op # "check" => TenantEnabled
  /\ c.tenant \notin InvalidTenants

Call(w, c) ==
  /\ pc[w] \in {"idle", "returned"} /\ Accepts(c)
  /\ call' = [call EXCEPT ![w] = c]
  /\ pc' = [pc EXCEPT ![w] = "asked"]
  /\ result' = [result EXCEPT ![w] = "none"]
  /\ UNCHANGED <<existing, filled, effect>>

CallRefused(w, c) ==
  /\ pc[w] \in {"idle", "returned"} /\ ~Accepts(c)
  /\ pc' = [pc EXCEPT ![w] = "returned"]
  /\ result' = [result EXCEPT ![w] = "refused"]
  /\ UNCHANGED <<existing, filled, call, effect>>

\* CREATE SCHEMA IF NOT EXISTS.
CreateFinds(w) ==
  Asks(w, "create") /\ Schema(w) \in existing /\ Executes(w, "none", "none")

CreateMakes(w) ==
  /\ Asks(w, "create") \/ pc[w] = "waiting"
  /\ Schema(w) \notin existing /\ ~Pending(w, "create")
  /\ Executes(w, "create", "none")

CreateWaits(w) ==
  /\ Asks(w, "create") /\ Schema(w) \notin existing /\ Pending(w, "create")
  /\ pc' = [pc EXCEPT ![w] = "waiting"]
  /\ UNCHANGED <<existing, filled, call, effect, result>>

\* The one it waited for has committed.
CreateCollides(w) ==
  pc[w] = "waiting" /\ Schema(w) \in existing /\ Raises(w, "duplicate")

\* The lookup in information_schema.
Check(w) ==
  /\ Asks(w, "check")
  /\ Executes(w, "none", IF Schema(w) \in existing THEN "yes" ELSE "no")

\* DROP SCHEMA IF EXISTS, with RESTRICT or CASCADE.
DropFindsNothing(w) ==
  Asks(w, "drop") /\ Schema(w) \notin existing /\ Executes(w, "none", "none")

DropReady(w) ==
  Asks(w, "drop") /\ Schema(w) \in existing /\ ~Pending(w, "drop")

DropRestricted(w) ==
  /\ DropReady(w) /\ Schema(w) \in filled /\ ~call[w].cascade
  /\ Raises(w, "restrict")

\* A bug: the clauses are swapped.
BugDropMakes(w) ==
  DropReady(w) /\ (Schema(w) \in filled => ~call[w].cascade) /\ Executes(w, "drop", "none")

DropMakes(w) ==
  DropReady(w) /\ (Schema(w) \in filled => call[w].cascade) /\ Executes(w, "drop", "none")

-----------------------------------------------------------------------------
(* The end of the transaction. *)

After(w) == CASE effect[w] = "create" -> existing \cup {Schema(w)}
              [] effect[w] = "drop" -> existing \ {Schema(w)}
              [] effect[w] = "none" -> existing

\* What the call answers once its block is left.
Answer(w) == IF call[w].op = "check" THEN result[w] ELSE "ok"

Ends(w, exists, x) ==
  /\ existing' = exists
  /\ filled' = filled \cap exists
  /\ pc' = [pc EXCEPT ![w] = "returned"]
  /\ effect' = [effect EXCEPT ![w] = "none"]
  /\ result' = [result EXCEPT ![w] = x]
  /\ UNCHANGED call

\* Bugs: connect() instead of begin(); a transaction that is left open.
BugReturnUncommitted(w) == pc[w] = "executed" /\ Ends(w, existing, Answer(w))
BugNeverReturns(w) == pc[w] = "executed" /\ effect[w] # "create" /\ Ends(w, After(w), Answer(w))

\* The block of engine.begin() commits; the call logs and returns.
Return(w) == pc[w] = "executed" /\ Ends(w, After(w), Answer(w))

\* The connection is lost or the call is cancelled, before the commit or
\* while its answer is on the way.
Lost(w) ==
  /\ pc[w] \in {"asked", "waiting", "executed"}
  /\ \E exists \in {existing, After(w)} : Ends(w, exists, "lost")

\* A session of another request commits objects into a schema; a DROP that is
\* not over keeps it out.
Fill(s) ==
  /\ s \in existing \ filled
  /\ \A w \in Workers : effect[w] = "drop" => Schema(w) # s
  /\ filled' = filled \cup {s}
  /\ UNCHANGED <<existing, call, pc, effect, result>>

-----------------------------------------------------------------------------
Progress(w) ==
  \/ CreateFinds(w) \/ CreateMakes(w) \/ CreateWaits(w) \/ CreateCollides(w)
  \/ Check(w)
  \/ DropFindsNothing(w) \/ DropRestricted(w) \/ DropMakes(w)
  \/ Return(w)

Next ==
  \/ \E w \in Workers : \/ \E c \in Calls : Call(w, c) \/ CallRefused(w, c)
                        \/ Progress(w) \/ Lost(w)
  \/ \E s \in Schemas : Fill(s)

\* Statements that can run do, and locks are granted fairly.
Spec == Init /\ [][Next]_vars /\ \A w \in Workers : SF_vars(Progress(w))

-----------------------------------------------------------------------------
(* What it is for. *)

\* A look happens when it is executed, a change when it is committed.
Stage == [w \in Workers |->
  CASE pc[w] \in {"idle", "returned"} -> "idle"
    [] pc[w] = "executed" /\ effect[w] = "none" -> "settled"
    [] OTHER -> "asked"]

\* What a call asks of the catalog, and what it answers: nothing before it has
\* happened.
Request(c) == [op |-> c.op, schema |-> SchemaOf[c.tenant], cascade |-> c.cascade]
Asked == [w \in Workers |-> Request(call[w])]
Answered == [w \in Workers |->
  CASE Stage[w] = "asked" -> "none"
    [] Stage[w] = "settled" -> Answer(w)
    [] OTHER -> IF result[w] \in {"none", "ok", "yes", "no"} THEN result[w] ELSE "error"]

Catalog == INSTANCE TenantCatalog WITH
  Requests <- {Request(c) : c \in Calls},
  stage <- Stage, ask <- Asked, answer <- Answered

\* Whatever other workers do meanwhile, every call of create, check and drop
\* looks as if it had happened at one moment: its answer is true then, and its
\* effect whole.  The transactions implement the atomic catalog.
CatalogSpec == Catalog!Spec

\* A tenant's objects are destroyed on purpose only: by a drop that asked for
\* cascade, never by one that asked for RESTRICT or by a create.
DestroyedOnPurpose ==
  [][\A s \in filled : s \notin filled' =>
       \E w \in Workers : /\ effect[w] = "drop" /\ effect'[w] = "none"
                          /\ call[w].cascade /\ Schema(w) = s]_vars

\* Calls that wait for each other's transactions are not stuck.
EveryCallReturns ==
  \A w \in Workers : pc[w] = "asked" ~> pc[w] = "returned"

\* create_tenant_schema is atomic and raises RuntimeError or ValueError only,
\* its docstring says: two creates of one tenant at once both succeed.
CreatesDoNotCollide ==
  \A w \in Workers : call[w].op = "create" => result[w] # "duplicate"
=============================================================================
