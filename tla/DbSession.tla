----------------------------- MODULE DbSession -----------------------------
(***************************************************************************)
(* backend/database/session.py: the three ways to a database session, the  *)
(* transaction each one ends on the way out, and the connection pool of    *)
(* backend/database/postgres.py that they share.                           *)
(*                                                                         *)
(* A request is injected the sessions of its plan in order, runs its body, *)
(* which may open more sessions with get_tenant_db_by_id, and leaves the   *)
(* sessions in reverse order.  Every await is a point where other requests *)
(* run and where the request may be cancelled.  What a statement, or a     *)
(* by-id block that is left, raises may be caught by the body, which then  *)
(* goes on: the sessions outside the block are still there.                *)
(*                                                                         *)
(* Left out: a body that ends a session's transaction itself (commit,      *)
(* rollback, a savepoint), a dependency that swallows an exception, and    *)
(* several tasks of one request.                                           *)
(***************************************************************************)
EXTENDS Naturals, Sequences, FiniteSets

CONSTANTS
  Requests,
  Plans,          \* what the requests' routes may depend on, in their order
  Tenants,        \* tenant ids
  InvalidTenants, \* those build_tenant_schema_name refuses
  NoTenant,       \* no tenant bound, or the empty id
  Public,         \* TENANT_DEFAULT_SCHEMA
  TenantEnabled,  \* TENANT_ENABLED
  PoolSize, MaxOverflow,  \* DATABASE_POOL_SIZE, DATABASE_MAX_OVERFLOW
  AnswerFirst,    \* requests whose dependencies exit after the answer is sent
  MaxCatch,       \* bound: exceptions a body catches
  MaxSessions     \* bound: sessions per request

ASSUME ConstantAssumption ==
  /\ Plans \subseteq [Requests -> Seq({"public", "tenant"})]
  /\ InvalidTenants \subseteq Tenants
  /\ NoTenant \notin Tenants /\ Public \notin Tenants /\ NoTenant # Public
  /\ TenantEnabled \in BOOLEAN /\ AnswerFirst \subseteq Requests
  /\ PoolSize \in Nat /\ MaxOverflow \in Nat /\ PoolSize + MaxOverflow > 0
  /\ MaxCatch \in Nat /\ MaxSessions \in Nat

VARIABLES
  plan,    \* plan[r]: the sessions the route of r declares
  pc,      \* pc[r]: "opening", "body", "raising" (within the body), "leaving"
           \* (a by-id block), "exiting" (the injected sessions), "done"
  exc,     \* exc[r]: what is propagating: "none", "error" or "cancel"
  tenant,  \* tenant[r]: the tenant of r's context
  caught,  \* caught[r]: how many exceptions its body has caught
  sess,    \* sess[r]: every session r was given
  want,    \* want[r]: the session that waits for a connection, or 0
  inUse,   \* the pool's checked-out connections
  answer   \* answer[r]: what the client was told: "none", "ok" or "error"

vars == <<plan, pc, exc, tenant, caught, sess, want, inUse, answer>>

Sessions == [kind : {"public", "tenant", "byid"},
             schema : Tenants \cup {Public},
             dirty : BOOLEAN,     \* it was given something to write
             conn : BOOLEAN,      \* it holds a connection
             durable : BOOLEAN,   \* its writes are committed
             spoilt : BOOLEAN,    \* the database keeps nothing of it: one of its
                                  \* statements failed, or its block did
             phase : {"open", "ended", "closed"}]

TypeOK ==
  /\ plan \in Plans
  /\ pc \in [Requests -> {"opening", "body", "raising", "leaving", "exiting", "done"}]
  /\ exc \in [Requests -> {"none", "error", "cancel"}]
  /\ tenant \in [Requests -> Tenants \cup {NoTenant}]
  /\ caught \in [Requests -> 0..MaxCatch]
  /\ sess \in [Requests -> Seq(Sessions)]
  /\ want \in [Requests -> Nat] /\ \A r \in Requests : want[r] <= Len(sess[r])
  /\ inUse \in 0..(PoolSize + MaxOverflow)
  /\ answer \in [Requests -> {"none", "ok", "error"}]

\* ContextMiddleware binds no tenant.
Init ==
  /\ plan \in Plans
  /\ pc = [r \in Requests |-> "opening"]
  /\ exc = [r \in Requests |-> "none"]
  /\ tenant = [r \in Requests |-> NoTenant]
  /\ caught = [r \in Requests |-> 0]
  /\ sess = [r \in Requests |-> <<>>]
  /\ want = [r \in Requests |-> 0]
  /\ inUse = 0
  /\ answer = [r \in Requests |-> "none"]

-----------------------------------------------------------------------------
(* What a request has. *)

\* The sessions r has not closed, and the one it leaves first.
Unclosed(r) == {k \in 1..Len(sess[r]) : sess[r][k].phase # "closed"}
BugTopOldest(r, k) == k \in Unclosed(r) /\ \A j \in Unclosed(r) : k <= j
Top(r, k) == k \in Unclosed(r) /\ \A j \in Unclosed(r) : j <= k

\* What is written to a session of r, or becomes of it.
Update(r, k, s) == sess' = [sess EXCEPT ![r][k] = s]

-----------------------------------------------------------------------------
(* resolve_tenant_schema: given an id, or the context's when it is empty.    *)

Target(r, x) == IF x = NoTenant THEN tenant[r] ELSE x
Resolves(r, x) ==
  TenantEnabled => Target(r, x) \in Tenants \ InvalidTenants

Schema(r, x) == IF TenantEnabled THEN Target(r, x) ELSE Public

-----------------------------------------------------------------------------
(* Dependencies, in the order of the plan. *)

Give(r, kind, schema) ==
  sess' = [sess EXCEPT ![r] = Append(@,
    [kind |-> kind, schema |-> schema, dirty |-> FALSE, conn |-> FALSE,
     durable |-> FALSE, spoilt |-> FALSE, phase |-> "open"])]

Injects(r, kind) ==
  /\ pc[r] = "opening" /\ Len(sess[r]) < Len(plan[r])
  /\ plan[r][Len(sess[r]) + 1] = kind

\* get_public_db: no connection is taken yet.
InjectPublic(r) ==
  /\ Injects(r, "public")
  /\ Give(r, "public", Public)
  /\ UNCHANGED <<plan, pc, exc, tenant, caught, want, inUse, answer>>

\* A bug: without a tenant the public schema, as ctx.schema_name answers.
BugInjectTenantOrPublic(r) ==
  /\ Injects(r, "tenant")
  /\ Give(r, "tenant",
          IF Resolves(r, NoTenant) THEN Schema(r, NoTenant) ELSE Public)
  /\ UNCHANGED <<plan, pc, exc, tenant, caught, want, inUse, answer>>

\* get_tenant_db: the schema is resolved once, when the session is made.
InjectTenant(r) ==
  /\ Injects(r, "tenant") /\ Resolves(r, NoTenant)
  /\ Give(r, "tenant", Schema(r, NoTenant))
  /\ UNCHANGED <<plan, pc, exc, tenant, caught, want, inUse, answer>>

\* RuntimeError without a tenant, ValueError for an invalid one.
InjectTenantFails(r) ==
  /\ Injects(r, "tenant") /\ ~Resolves(r, NoTenant)
  /\ exc' = [exc EXCEPT ![r] = "error"]
  /\ pc' = [pc EXCEPT ![r] = "exiting"]
  /\ UNCHANGED <<plan, tenant, caught, sess, want, inUse, answer>>

StartBody(r) ==
  /\ pc[r] = "opening" /\ Len(sess[r]) = Len(plan[r])
  /\ pc' = [pc EXCEPT ![r] = "body"]
  /\ UNCHANGED <<plan, exc, tenant, caught, sess, want, inUse, answer>>

-----------------------------------------------------------------------------
(* The body. *)

Running(r) == pc[r] = "body" /\ want[r] = 0

\* ctx.set_tenant, by a dependency that authenticates or by the body.
SetTenant(r, x) ==
  /\ pc[r] = "opening" \/ Running(r)
  /\ tenant' = [tenant EXCEPT ![r] = x]
  /\ UNCHANGED <<plan, pc, exc, caught, sess, want, inUse, answer>>

\* Something to write: autoflush is off, so no connection is needed yet.
Add(r, k) ==
  /\ Running(r) /\ k \in Unclosed(r) /\ ~sess[r][k].dirty
  /\ Update(r, k, [sess[r][k] EXCEPT !.dirty = TRUE])
  /\ UNCHANGED <<plan, pc, exc, tenant, caught, want, inUse, answer>>

\* The session's first statement asks the pool for a connection.
Execute(r, k) ==
  /\ Running(r) /\ k \in Unclosed(r) /\ ~sess[r][k].conn /\ ~sess[r][k].spoilt
  /\ want' = [want EXCEPT ![r] = k]
  /\ UNCHANGED <<plan, pc, exc, tenant, caught, sess, inUse, answer>>

\* async with get_tenant_db_by_id(x).
EnterById(r, x) ==
  /\ Running(r) /\ Len(sess[r]) < MaxSessions
  /\ Resolves(r, x)
  /\ Give(r, "byid", Schema(r, x))
  /\ UNCHANGED <<plan, pc, exc, tenant, caught, want, inUse, answer>>

\* Its block ends: the session is left, the body goes on.
LeaveById(r) ==
  /\ Running(r)
  /\ \E k \in Unclosed(r) : Top(r, k) /\ sess[r][k].kind = "byid"
  /\ pc' = [pc EXCEPT ![r] = "leaving"]
  /\ UNCHANGED <<plan, exc, tenant, caught, sess, want, inUse, answer>>

\* The body returns, outside every by-id block.
Return(r) ==
  /\ Running(r)
  /\ \A k \in Unclosed(r) : sess[r][k].kind # "byid"
  /\ pc' = [pc EXCEPT ![r] = "exiting"]
  /\ answer' = [answer EXCEPT ![r] = IF r \in AnswerFirst THEN "ok" ELSE @]
  /\ UNCHANGED <<plan, exc, tenant, caught, sess, want, inUse>>

\* An Exception: of another dependency, or of the body (get_tenant_db_by_id's
\* resolution too), where it may be caught.
Raise(r) ==
  /\ pc[r] = "opening" \/ Running(r)
  /\ exc' = [exc EXCEPT ![r] = "error"]
  /\ pc' = [pc EXCEPT ![r] = IF @ = "body" THEN "raising" ELSE "exiting"]
  /\ UNCHANGED <<plan, tenant, caught, sess, want, inUse, answer>>

\* A statement or a flush of a session raises, or is cancelled on its way: its
\* transaction is aborted, and whatever the body then does, the database keeps
\* nothing of it.  Its connection counts as taken until close().
StatementFails(r, k, e) ==
  /\ Running(r) /\ k \in Unclosed(r) /\ (sess[r][k].conn \/ sess[r][k].dirty)
  /\ exc' = [exc EXCEPT ![r] = e]
  /\ pc' = [pc EXCEPT ![r] = "raising"]
  /\ Update(r, k, [sess[r][k] EXCEPT !.spoilt = TRUE])
  /\ UNCHANGED <<plan, tenant, caught, want, inUse, answer>>

\* CancelledError reaches an await; no Exception, so no rollback of ours.
Cancel(r) ==
  /\ pc[r] # "done" /\ exc[r] # "cancel"
  /\ exc' = [exc EXCEPT ![r] = "cancel"]
  /\ pc' = [pc EXCEPT ![r] = IF @ = "opening" THEN "exiting"
                              ELSE IF @ = "body" THEN "raising" ELSE @]
  /\ want' = [want EXCEPT ![r] = 0]
  /\ UNCHANGED <<plan, tenant, caught, sess, inUse, answer>>

\* The body catches what was raised in it (a cancellation, as asyncio.timeout
\* does) and goes on, inside the by-id blocks it has not left.
Catch(r) ==
  /\ pc[r] = "raising" /\ caught[r] < MaxCatch
  /\ exc' = [exc EXCEPT ![r] = "none"]
  /\ pc' = [pc EXCEPT ![r] = "body"]
  /\ caught' = [caught EXCEPT ![r] = @ + 1]
  /\ UNCHANGED <<plan, tenant, sess, want, inUse, answer>>

\* It does not: the innermost by-id block is left, or the body itself.
Unwind(r) ==
  /\ pc[r] = "raising"
  /\ pc' = [pc EXCEPT ![r] =
       IF \E k \in Unclosed(r) : Top(r, k) /\ sess[r][k].kind = "byid"
         THEN "leaving" ELSE "exiting"]
  /\ UNCHANGED <<plan, exc, tenant, caught, sess, want, inUse, answer>>

-----------------------------------------------------------------------------
(* The pool: PoolSize kept connections and MaxOverflow more. *)

Connect(r) ==
  /\ want[r] # 0 /\ inUse < PoolSize + MaxOverflow
  /\ Update(r, want[r], [sess[r][want[r]] EXCEPT !.conn = TRUE])
  /\ inUse' = inUse + 1
  /\ want' = [want EXCEPT ![r] = 0]
  /\ UNCHANGED <<plan, pc, exc, tenant, caught, answer>>

BugNoTimeout(r) == FALSE

\* DATABASE_POOL_TIMEOUT passes: the statement, or the flush, raises.
PoolTimeout(r) ==
  /\ want[r] # 0 /\ inUse = PoolSize + MaxOverflow
  /\ exc' = [exc EXCEPT ![r] = "error"]
  /\ pc' = [pc EXCEPT ![r] = IF @ = "body" THEN "raising" ELSE @]
  /\ want' = [want EXCEPT ![r] = 0]
  /\ UNCHANGED <<plan, tenant, caught, sess, inUse, answer>>

-----------------------------------------------------------------------------
(* The way out of the innermost session. *)

Leaves(r, k) ==
  /\ pc[r] \in {"leaving", "exiting"} /\ want[r] = 0 /\ Top(r, k)

\* What a commit of s makes durable: after a failed statement COMMIT is a
\* ROLLBACK.
Kept(s) == s.dirty /\ ~s.spoilt

Ended(s, d) == [s EXCEPT !.phase = "ended", !.durable = d]

\* s was given up: a by-id session, to the knowledge of the body around it.
GivenUp(s) == [s EXCEPT !.spoilt = @ \/ s.kind = "byid"]

\* commit() flushes: a session that only collected writes needs a connection.
Flush(r, k) ==
  /\ Leaves(r, k) /\ exc[r] = "none" /\ sess[r][k].phase = "open"
  /\ sess[r][k].dirty /\ ~sess[r][k].conn /\ ~sess[r][k].spoilt
  /\ want' = [want EXCEPT ![r] = k]
  /\ UNCHANGED <<plan, pc, exc, tenant, caught, sess, inUse, answer>>

\* Bugs: a commit that ignores what is propagating; one whose error is lost.
BugCommitAlways(r, k) ==
  /\ Leaves(r, k) /\ sess[r][k].phase = "open"
  /\ sess[r][k].dirty => sess[r][k].conn
  /\ Update(r, k, Ended(sess[r][k], Kept(sess[r][k])))
  /\ UNCHANGED <<plan, pc, exc, tenant, caught, want, inUse, answer>>
BugCommitSwallows(r, k) ==
  /\ Leaves(r, k) /\ exc[r] = "none" /\ sess[r][k].phase = "open"
  /\ \E d \in {FALSE, Kept(sess[r][k])} : Update(r, k, Ended(sess[r][k], d))
  /\ UNCHANGED <<plan, pc, exc, tenant, caught, want, inUse, answer>>

\* The else-path of the try: commit succeeds.
Commit(r, k) ==
  /\ Leaves(r, k) /\ exc[r] = "none" /\ sess[r][k].phase = "open"
  /\ sess[r][k].dirty => sess[r][k].conn
  /\ Update(r, k, Ended(sess[r][k], Kept(sess[r][k])))
  /\ UNCHANGED <<plan, pc, exc, tenant, caught, want, inUse, answer>>

\* commit() raises, refused or with its outcome lost on the way: the writes
\* may be there although an error propagates.
CommitFails(r, k) ==
  /\ Leaves(r, k) /\ exc[r] = "none" /\ sess[r][k].phase = "open"
  /\ sess[r][k].conn
  /\ exc' = [exc EXCEPT ![r] = "error"]
  /\ \E d \in {FALSE, Kept(sess[r][k])} :
       Update(r, k, [sess[r][k] EXCEPT !.durable = d])
  /\ UNCHANGED <<plan, pc, tenant, caught, want, inUse, answer>>

\* The request is cancelled while the commit is on its way.
CommitCancelled(r, k) ==
  /\ Leaves(r, k) /\ exc[r] = "none" /\ sess[r][k].phase = "open"
  /\ sess[r][k].conn
  /\ exc' = [exc EXCEPT ![r] = "cancel"]
  /\ \E d \in {FALSE, Kept(sess[r][k])} :
       Update(r, k, [sess[r][k] EXCEPT !.durable = d])
  /\ UNCHANGED <<plan, pc, tenant, caught, want, inUse, answer>>

\* commit() refuses a session that was spoilt, without asking the database.
CommitRefused(r, k) ==
  /\ Leaves(r, k) /\ exc[r] = "none" /\ sess[r][k].phase = "open"
  /\ sess[r][k].spoilt
  /\ exc' = [exc EXCEPT ![r] = "error"]
  /\ UNCHANGED <<plan, pc, tenant, caught, sess, want, inUse, answer>>

\* except Exception: rollback, and the exception goes on (rollback's own, if
\* it raises).
Rollback(r, k) ==
  /\ Leaves(r, k) /\ exc[r] = "error" /\ sess[r][k].phase = "open"
  /\ Update(r, k, GivenUp(Ended(sess[r][k], sess[r][k].durable)))
  /\ UNCHANGED <<plan, pc, exc, tenant, caught, want, inUse, answer>>

Closed(s) == [s EXCEPT !.phase = "closed", !.conn = FALSE]

\* Back in the body, or on with what is raised there.
Returned(r) ==
  IF pc[r] # "leaving" THEN "exiting"
  ELSE IF exc[r] = "none" THEN "body" ELSE "raising"

\* Bugs: close() only when nothing propagates; a connection returned twice.
BugCloseKeeps(r, k) ==
  /\ Leaves(r, k) /\ (sess[r][k].phase = "ended" \/ exc[r] = "cancel")
  /\ Update(r, k, [sess[r][k] EXCEPT !.phase = "closed",
                                    !.conn = @ /\ exc[r] # "none"])
  /\ inUse' = inUse - (IF sess[r][k].conn /\ exc[r] = "none" THEN 1 ELSE 0)
  /\ pc' = [pc EXCEPT ![r] = Returned(r)]
  /\ UNCHANGED <<plan, exc, tenant, caught, want, answer>>
BugCloseReturnsTwice(r, k) ==
  /\ Leaves(r, k) /\ (sess[r][k].phase = "ended" \/ exc[r] = "cancel")
  /\ Update(r, k, Closed(sess[r][k]))
  /\ inUse' = inUse - (IF sess[r][k].conn THEN 2 ELSE 0)
  /\ pc' = [pc EXCEPT ![r] = Returned(r)]
  /\ UNCHANGED <<plan, exc, tenant, caught, want, answer>>

\* finally: close() returns the connection; the pool rolls back what is open.
Close(r, k) ==
  /\ Leaves(r, k) /\ (sess[r][k].phase = "ended" \/ exc[r] = "cancel")
  /\ Update(r, k, IF sess[r][k].phase = "ended" THEN Closed(sess[r][k])
                  ELSE GivenUp(Closed(sess[r][k])))
  /\ inUse' = inUse - (IF sess[r][k].conn THEN 1 ELSE 0)
  /\ pc' = [pc EXCEPT ![r] = Returned(r)]
  /\ UNCHANGED <<plan, exc, tenant, caught, want, answer>>

\* Everything is left; the client is told what it was not told before.
Finish(r) ==
  /\ pc[r] = "exiting" /\ Unclosed(r) = {}
  /\ pc' = [pc EXCEPT ![r] = "done"]
  /\ answer' = [answer EXCEPT ![r] =
       IF @ # "none" \/ exc[r] = "cancel" THEN @
       ELSE IF exc[r] = "none" THEN "ok" ELSE "error"]
  /\ UNCHANGED <<plan, exc, tenant, caught, sess, want, inUse>>

-----------------------------------------------------------------------------
\* What the event loop, the pool and the database do of themselves.
Progress(r) ==
  \/ InjectPublic(r) \/ InjectTenant(r) \/ InjectTenantFails(r) \/ StartBody(r)
  \/ LeaveById(r) \/ Return(r) \/ Unwind(r)
  \/ Connect(r) \/ PoolTimeout(r)
  \/ \E k \in 1..Len(sess[r]) :
       \/ Flush(r, k) \/ Commit(r, k) \/ CommitRefused(r, k)
       \/ Rollback(r, k) \/ Close(r, k)
  \/ Finish(r)

\* What a handler may choose to do, and what may go wrong.
Choice(r) ==
  \/ \E x \in Tenants : SetTenant(r, x)
  \/ \E k \in 1..Len(sess[r]) : Add(r, k) \/ Execute(r, k)
  \/ \E x \in Tenants \cup {NoTenant} : EnterById(r, x)
  \/ Raise(r) \/ Cancel(r) \/ Catch(r)
  \/ \E k \in 1..Len(sess[r]), e \in {"error", "cancel"} : StatementFails(r, k, e)
  \/ \E k \in 1..Len(sess[r]) : CommitFails(r, k) \/ CommitCancelled(r, k)

\* All requests are answered: the only way to stop.
AllDone ==
  /\ \A r \in Requests : pc[r] = "done"
  /\ UNCHANGED vars

Next == (\E r \in Requests : Progress(r) \/ Choice(r)) \/ AllDone

\* The event loop runs what is ready, the pool's timer fires and handlers
\* return; nothing has to fail or to be cancelled.
Spec == Init /\ [][Next]_vars /\ \A r \in Requests : WF_vars(Progress(r))

-----------------------------------------------------------------------------
(* What it is for. *)

\* Who holds a connection: a request and the position of its session.
Held == UNION {{<<r, k>> : k \in {i \in 1..Len(sess[r]) : sess[r][i].conn}} :
               r \in Requests}

\* Whatever fails, is cancelled or times out, the pool's count is the number
\* of sessions that hold a connection, and a finished request holds none.
ConnectionsReturned ==
  /\ inUse = Cardinality(Held)
  /\ \A h \in Held : pc[h[1]] # "done"

\* Sessions of one request end inside out: an injected session's writes are
\* durable only if those of every session made after it are, but for one the
\* body knows to be given up: a statement of it, or its by-id block, raised and
\* the body caught that.
OuterAfterInner ==
  \A r \in Requests : \A j, k \in 1..Len(sess[r]) :
    /\ j < k /\ j <= Len(plan[r])
    /\ sess[r][j].durable /\ sess[r][k].dirty
    => sess[r][k].durable \/ sess[r][k].spoilt

\* While an exception or a cancellation is on its way, nothing more of the
\* request becomes durable: a failure never commits what is left open.
NoCommitAfterFailure ==
  [][\A r \in Requests : exc[r] # "none" =>
       \A k \in 1..Len(sess[r]) : sess'[r][k].durable = sess[r][k].durable]_vars

\* What a session is to those who only care what becomes of its writes.
Unit(s) == [kind |-> s.kind, schema |-> s.schema, dirty |-> s.dirty,
            durable |-> s.durable, spoilt |-> s.spoilt, over |-> s.phase # "open"]

UnitsOf == [r \in Requests |-> [k \in 1..Len(sess[r]) |-> Unit(sess[r][k])]]

HasFailed == [r \in Requests |-> exc[r] # "none"]

\* The schema of the tenant a request is turned to, if it has a valid one.
OwnSchema ==
  [r \in Requests |-> IF Resolves(r, NoTenant) THEN Schema(r, NoTenant) ELSE NoTenant]

Units == INSTANCE UnitsOfWork
           WITH Shared <- Public, None <- NoTenant,
                Nameable <- IF TenantEnabled THEN Tenants \ InvalidTenants ELSE {Public},
                TellFirst <- AnswerFirst, units <- UnitsOf, failed <- HasFailed,
                told <- answer, own <- OwnSchema

\* Whatever way sessions are left, by commit, rollback or close alone, in the
\* answer's time and while others wait, they behave like nested units of work:
\* each in the schema of the tenant its own request had when it began, whatever
\* tenant this or another request turns to; committed whole and inside out;
\* nothing while a failure is on its way, and after one has reached an injected
\* session nothing at all; and the client hears of success after all of them,
\* or first if that is when answers are sent.
UnitsSpec == Units!AbsSpec

\* An answer of success that is sent last means that everything the request
\* wrote is committed, but for the sessions the body knows to be given up.
SuccessIsDurable ==
  \A r \in Requests \ AnswerFirst : answer[r] = "ok" =>
    \A k \in 1..Len(sess[r]) :
      sess[r][k].dirty => sess[r][k].durable \/ sess[r][k].spoilt

\* Requests that wait for each other's connections are not stuck: every
\* request ends.
EveryRequestEnds == \A r \in Requests : <>(pc[r] = "done")
=============================================================================
