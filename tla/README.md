# Formal model of FastAPI-Services

TLA+ specifications of the backend template in `src/backend`: the request
context, the database sessions and their pool, the request pipeline with its
error handlers, the client's address and region, tenant naming and
provisioning, departments and data rules, ORM instances, log masking, and the
application's start and shutdown with its logging. TLC checks
small instances; TLAPS proves every safety property and refinement that the
runs check, for instances of any size.

## 1. The system

| Component | State it keeps | Operations | Interacts with |
|---|---|---|---|
| Request context (`common/request/context.py`) | one `ContextVar`, a token per binding manager, mutable `RequestContext` objects | `bind_context` enter/exit, `ctx` reads and writes, `get_request_context` | bound by the middleware, read by sessions and the log patcher, copied by reference into forked coroutines |
| Sessions (`database/session.py`) | one session per dependency, its transaction and connection | `get_public_db`, `get_tenant_db`, `get_tenant_db_by_id`, `resolve_tenant_schema` | the context (tenant), naming, the engine's pool |
| Engine (`database/postgres.py`) | global engine and session factory; the pool behind it | create, init, close, health check | sessions, provisioning, lifespan |
| Pipeline (`core/registrar.py`, `middleware/context.py`, `common/exception/handler.py`, `trace_id.py`) | `scope['state']`, response started or not | middleware, four handlers, fallback CORS headers | context, log, settings |
| Tenant naming (`database/tenant/naming.py`) | none | validate, build, extract | sessions, provisioning |
| Provisioning (`database/tenant/provisioner.py`) | the database's schemas | create, check, drop | engine, naming |
| Log (`common/log.py`) | sinks, cached context proxy | patch, mask, sinks, setup, close | everything |
| Lifespan (`core/registrar.py`), Redis (`database/redis.py`) | global engine, pools, sinks | startup, re-initialisation, teardown | engine, Redis, log |
| Client parsing (`common/request/parse.py`) | one region searcher per IP version behind a lock, LRU caches | address, region, user agent | middleware (event loop), services (threads) |
| Departments and data rules (`modules/system/models/dept.py`, `rule.py`) | ancestors' texts, rules' texts | `format_ancestors`, `subtree_condition`, `coerce_value`, `build_expression` | the database |
| ORM base (`common/model/base.py`) | what SQLAlchemy keeps of an instance | `to_dict`, `__repr__` | sessions |
| Settings (`core/config.py`) | one cached object | validate at start | everything |
| Tables, enums, ids (`common/model`, `modules`, `common/enum`, `utils`) | columns, constants | `gen_uid` | the database |

What is hard here:

* **Interleaving.** Every `await` lets another request run; forked coroutines
  and threads share their parent's `RequestContext` object. Correct: each sees
  its innermost block, and no request reads another's context.
* **Failure on the way out.** A session leaves through `commit`, `rollback` or
  `close` alone, and each may raise or be cancelled; what a by-id block raises
  may be caught around it. Correct: the connection comes back, a failure commits
  nothing, and what a success answer leaves out is known to who caught its loss.
* **Waiting.** Requests hold one connection and wait for a second; provisioning
  calls wait for each other's transactions. Correct: everybody ends.
* **Layers.** The handler of last resort runs outside the context and after the
  answer may have started. Correct: one trace id, one answer, no exception
  text outside development.
* **Shutdown.** Teardowns raise, are cancelled, and await while other coroutines
  take, hold and give back connections, and log. Correct: each resource is
  released for itself, the outcome is logged, shutdown ends.
* **Threads.** The event loop and the pool's threads load one searcher and share
  one cache. Correct: one load, nobody is answered from a half-loaded state.
* **Stale instances.** After a rollback or a close an instance's attributes load
  when they are read, which an async session must not do.
* **Boundaries.** Identifiers that the database cuts, prefixes, ids that share
  digits, blank lists, SQL's NULL, shared and cyclic data.

`PROJECT.json` lists every hazard at its line with the property that covers it.

## 2. Modules

| Module | Models | Role |
|---|---|---|
| `ContextScope` | what the context promises: stacks of scopes | abstract specification |
| `RequestContext` | `context.py` as it is: variable, tokens, shared objects | implements `ContextScope` |
| `RequestContextProofs`, `DbSessionProofs`, `TenantProvisioningProofs`, `RegionLookupProofs`, `RequestPipelineProofs`, `LoggingProofs`, `LifecycleProofs` | | theorems about the module each is named after, see 5 |
| `HelperProofs` | | theorems about `TenantNaming`, `Departments`, `DataRules`, `Masking`, `OrmInstance` |
| `UnitsOfWork` | what a request's sessions promise: nested units of work | abstract specification |
| `DbSession` | `session.py`, the pool of `postgres.py` | sessions, failures caught or not, waiting; implements `UnitsOfWork` |
| `RequestPipeline` | middleware, handlers, layer order, settings validator | trace id, answers, masking |
| `TenantNaming` | `naming.py` | pure operators on strings |
| `TenantCatalog` | what provisioning promises: calls that happen at one moment | abstract specification |
| `TenantProvisioning` | `provisioner.py`: concurrent catalog transactions | implements `TenantCatalog` |
| `RegionLookup` | `parse.py` but for user agents, and its call in the middleware | address, cache, double-checked loading |
| `Departments` | `dept.py` | ancestors' texts against a tree of parents |
| `DataRules` | `rule.py` | rules' texts, the rows they select |
| `OrmInstance` | `to_dict`, `create_session_factory`, the columns of `mixins.py` | an instance through its session's life |
| `Masking` | `mask_sensitive_data` | the function's calls on an object graph |
| `Logging` | `setup_logging` to `close_logging` | sinks, queues, the standard library's loggers, SQLAlchemy's own handlers |
| `Lifecycle` | `register_lifespan`, engine and Redis pools | composes `Logging` with the pools |
| `MCHelpers` | | one instance of the five parts that call nobody, with their inputs and properties |
| `MC...` | | instances and bounds |

### RequestContext

`var[t]` is `_request_ctx` as coroutine `t` sees it, `token[m]` is
`_ContextBindingManager._token`, `rc[m]` the object the manager owns,
`frames[t]` the Python stack of with-blocks. `Enter` is
`with bind_context(...)`, `Exit` is `__exit__`, `Set` the four writers, `Refuse`
the `RuntimeError` of `_require` and `get_request_context`, `Spawn` an asyncio
task or a threadpool call, whose context is a copy that holds a reference to the
same object. `root[t]` and `owner[m]` are history: the request a coroutine works
for. A manager is entered once, immediately where `bind_context` makes it, as
every caller does.

### DbSession

`sess[r]` is the list of sessions a request was given: the schema of each, what
was written to it, whether it holds a connection, whether its writes are durable,
and whether it is `spoilt`, so that the database keeps nothing of it. The plan of
a request is its route's dependency list. The actions follow the generators:
`Inject*` up to `yield`; the body (`Add`, `Execute`, `EnterById`, `LeaveById`,
`SetTenant`, `Return`); then for the innermost unclosed session
`Flush`/`Commit`/`CommitFails`/`CommitCancelled`/`CommitRefused`, `Rollback` for an
`Exception` only, and `Close` in any case. `close()` itself is one step.
`CommitFails` and `CommitCancelled` leave open whether the database has the writes.

An exception is not the end of a request. `pc[r]` is "raising" while one is on its
way through the body: from the body's own code (`Raise`), a statement
(`StatementFails`), the pool's timeout, a cancellation, or a by-id block that was
left and raised again (`session.py:103`). The body may `Catch` it and go on, inside
the by-id blocks it has not left yet; or it does not, and `Unwind` leaves the
innermost block ("leaving") or the body ("exiting"). A session a statement of
which failed is refused by `commit()` or rolled back by it, and a by-id session
that was given up is marked `spoilt` too: both mark what the body was told is
lost.

`AnswerFirst` are the requests whose dependencies are left after the answer is
sent (FastAPI's default in the locked version); the others' are left before it
(function scope).

Left out: a body that ends a session's transaction itself (`commit`, `rollback`, a
savepoint), a dependency of the application that swallows an exception, and
several tasks of one request. No route of the repository has any of them.

`UnitsOfWork` knows neither connections nor waiting nor an order of
dependencies. A request is turned to a schema or to none (`Turn`); it begins a unit
in the shared schema, in its own, or in one it names (`Begin`), writes to it, and
ends it by `Commit` or `Abandon`, the innermost first. It may `Fail`, or fail in a
unit of which nothing is kept then (`Spoil`), and commits nothing while the failure
is on its way; it may `Recover` only while no unit is over but named ones, whose
loss it knows of. The client is told at the end or, of a request in `TellFirst`,
before the units end. A session is a unit by `Unit`: over as soon as it is not
open. `Inject*` and `EnterById` are `Begin`, `Add` is `Write`, `SetTenant` is
`Turn`, `Catch` is `Recover`; `Rollback`, and `Close` of a session that a
cancellation left open, are `Abandon`; a commit that fails or is cancelled is a
`Fail` that the database may have heard; `Tell` is `Return` where the answer goes
first, and otherwise `Finish` unless the request was cancelled. All else is a
plain `Fail` or invisible.

### RequestPipeline

One step per layer and handler, from the CORS preflight to the handler of last
resort. Texts are abstract: "own" is the exception's own text, "masked" the
generic one. Requests carry a well-formed, a malformed or no trace header. A
fault is an application exception, an `HTTPException` with a textual, structured
or unencodable detail, a validation error or an unhandled exception, before or
after the answer started. `OuterFails` stands for layers a host application
adds outside these. `logs` are the lines the program writes itself. Behind the
last resort Starlette's outermost layer raises the exception again, and the
server logs it through `InterceptHandler`: the context is reset by then, so that
line, in `reports`, has no trace id. Websockets are not modelled.

### TenantNaming, Masking, Departments, DataRules, OrmInstance

None of them calls another part of the system, so one instance, `MCHelpers`,
holds all five: each behaviour is about one of them, its `subject`, and the
others rest.

`TenantNaming` is pure operators, evaluated on inputs built one character at a
time. `prefix` is any text that `TENANT_SCHEMA_PREFIX` may be, as no code checks
it. `Identifier` is what the database makes of a name: it cuts what is too long.
A character takes one byte; a prefix of wider ones, whose length the code counts
in characters and the database in bytes, is left out.

`Masking` builds a heap one object at a time (`BuildObject`) and then makes the
calls of `_mask_sensitive_data_inner` as steps: `calls` holds those still to
make, each with its path, its memo and its depth, and `MaskInner` makes all of
one depth and leaves the ones they make in turn (`Callees`). `found` is the
result as paths, each with what is left there or what was raised. The calls only
read the heap, so Python's order, depth first, finds the same. Where Python would
stop at the first exception the model goes on, so that `found` has every
exception that can be the first. Objects are dicts, frozen dataclasses, lists,
tuples, sets, frozensets, other `AbstractSet`s ("view", as a dict's items are:
they hash nothing and cannot be copied), ranges, scalars, and objects that cannot
be copied, as locks are. Dataclasses hashed by identity, hashable mappings and
what pydantic's `model_dump` does differently from `asdict` are left out. The
patcher's top-level loop applies the same function to each extra value.

`Departments` inserts departments below others with `format_ancestors` and the
parent's text; the database refuses a text longer than its column. Nothing in
the repository moves a department. `SubtreeCondition` is the `LIKE` of
`subtree_condition`, compared with `Above`, what every set that is closed
towards the root and has the parent must have.

`DataRules` represents a value by its position in its type's order, and a text
by what `split`, `strip` and `int` make of it. `Coerce` is `coerce_value`;
`Raises` is what the building of the condition refuses (`ValueError`, and
SQLAlchemy's error for an order of truth values), `Refused` what the driver or
the database refuses: asyncpg takes no text for a time, and for a decimal or a
uuid ("decimal" stands for both) one that it can read. `Selects` gives SQL's three-valued meaning: a row is
selected when the condition is true. SQLAlchemy turns an empty list into a
condition that is false for `IN` and true for `NOT IN`. The default of
`getattr(column.type, 'python_type', str)` is never used, because SQLAlchemy's
types raise `NotImplementedError` where they have no Python type.

`OrmInstance` follows one instance from its constructor through flush (an UPDATE
sets the columns with an `onupdate`, and the instance gets them back), commit
(which flushes and expires nothing, `expire_on_commit=False`), rollback (which expires
everything, or forgets the row), close and a later `select`. An attribute is
loaded, unset, deferred, expired, or `assigned`: given a value since it expired,
which SQLAlchemy still counts among the expired ones until a flush; `dirty` says
whether a flush has anything to write. `to_dict` leaves such a value out; the
serialisation of values and `__repr__` are left out of the model.
`known` is history: the columns whose values the program gave or saw, which is
what `to_dict` is held against (`ToDictShowsTheKnown`).

### TenantProvisioning

Each call is a statement in a transaction of its own (`Executes`) and a commit
with the return (`Return`). PostgreSQL is external: a statement sees the
committed catalog; a create waits for a concurrent create and then collides; a
drop waits for a concurrent drop and looks again. A call may be lost before or
after its commit. What sessions write into a tenant's schema is one step (`Fill`);
the locks they hold there, for which a drop would wait, are not modelled.

`TenantCatalog` has the same calls as single steps: `Ask`, then one moment at
which `Create`, `Check` or `Drop` happens, then the reply, or a failure with the
whole effect or none. The mapping: a look happens when its statement is
executed, a change when it is committed (`Stage`); `CatalogSpec` is the abstract
specification under it.

### RegionLookup

`pc[t]` is where thread `t` is in `lookup_ip_region`: `missed` the cache,
`locking`/`locked`/`loading` in `_get_searcher`, `searching`, `done` (the result
goes into the cache). `lru_cache` is external: it runs the function outside any
lock and looks again before it stores, so two threads may compute one entry.
The middleware asks on the event loop's thread for the address
`ParseClientIp` chooses, other code on the pool's threads for any text. A load
gives a searcher or nothing and is kept either way; a search may raise. `loads`
and `broken` are history. The user agent's cache is left out: a cached call of a
library.

### Logging, Lifecycle

`sinks` are loguru's handlers, `queue[s]` what waits for the thread of sink `s`,
`handlers` and `propagates` the standard library's loggers. A record is a
number; two levels stand for the order of all. `written[o]` is what the
console, the JSON stream and the two files show. `setup_logging` is one step:
nothing else runs before startup. Rotation, formats and errors inside a sink
(loguru prints them and goes on) are left out. loguru and `logging` are
external: a record is queued for every sink at once; `complete` waits for the
queues. With `DATABASE_ECHO` or `DATABASE_ECHO_POOL` SQLAlchemy attaches a handler
of its own when an engine is made, at import or by `init_db_engine`
(`MakeEngine`), to loggers that are below `sqlalchemy.engine` or beside it
(`EchoLoggers`); `printed` is what such handlers, uvicorn's before the setup
among them, put on stdout.

`Lifecycle` is the lifespan's coroutine: `Start`, `Shutdown` (the generator's
`finally`, whether the server ends it or throws into it), then the teardowns. That
of the engine closes what its pool keeps one connection after the other
(`Drain`), those given back meanwhile too, and swaps the pool when it is empty
(`DisposeEngine`): connections that are out are `Gone`, and what is given back of
them stays open in the pool left behind (`stray`). That of Redis closes the
connections there are, in use or not (`Disconnect`, whose victims are `cut`),
awaits, and keeps the pool (`Disconnected`): a connection taken, or opened again by
a command (`Reopen`), from then on stays. `late` are the kinds of which one was
opened behind their teardown. `close_logging` gives way to nobody. A teardown
raises (`TeardownFails`) or is cancelled in one of its awaits (`Cancel`).
`InitPool` is `init_db_engine` and `init_redis_pool`; `Take` and `GiveBack` are
sessions, health checks and commands. `backend.database.redis_client` stays the
first client, so the first Redis pool can still be used after a replacement.
What the model shows beyond its properties: superseded pools are closed by
nobody, a cancelled shutdown leaves the rest open, and what uvicorn logs after
the lifespan reaches no sink.

## 3. Runs

| Run | Instance | Shows |
|---|---|---|
| `request_context` | 3 coroutines, 3 blocks, 2 values, symmetry | nesting, isolation, implementation of `ContextScope` |
| `request_context_detached` | 2 coroutines | the docstring's "write-strict" does not hold for a task that outlives its block |
| `db_session` | 2 requests of two sessions each, 2 connections, no tenants, one answered first and one last | connections come back, implementation of `UnitsOfWork`, every request ends |
| `db_units` | 1 request with one or two injected sessions and by-id ones, two tenants and a refused id, 2 exceptions caught | implementation of `UnitsOfWork`, outer sessions last, success is durable, connections come back |
| `request_pipeline` | 2 requests, all startable settings, all faults | one trace, one answer, masking, CORS |
| `request_pipeline_detail` | 1 request | a structured 5xx detail is shown in production |
| `provisioning` | 2 workers, 2 tenants, 1 refused id | implementation of `TenantCatalog`, no unasked destruction, calls return |
| `provisioning_race` | 2 workers, 1 tenant | concurrent creates collide |
| `lifecycle` | 3 output and echo settings, 1 user, 2 pools of each kind, 1 further record | sinks show records once where asked, current pools released, teardowns reported, shutdown ends |
| `lifecycle_leftover` | the same | a connection that is out during `dispose` stays open |
| `region_lookup` | 2 threads, 5 texts, 3 addresses, cache of 2 | one load, true regions, lookups return |
| `helpers` | 4 prefixes, pairs of ids up to 3 and names up to 5 of 7 characters; heaps of 3 objects, depth 3; trees of 6 departments; rules of 5 kinds over 11 texts; an instance of 4 columns | which tenants share a schema, which names match the pattern, round trip; secrets hidden, only cycles cut, when masking raises; subtrees; negations and lists of rules; `to_dict` loads nothing and shows what is known |

**Bounds.** Three coroutines are two requests and a fork; three blocks nest and
are inherited at once. In `db_session` each of the two requests can hold one of
the two connections and wait for a second, one between injected sessions, the
other between an injected and a by-id one; `MaxSessions` = 2 is enough for that,
and tenants, which no connection depends on, are switched off to keep it small.
The first is answered before its sessions are left. `db_units` has one request:
what another one does reaches it through the pool only, and that no other
request changes the tenant of its context is what `request_context` shows. It
turns between the two tenants and the refused id at any time, before and after
its sessions are made. Three sessions (`MaxSessions`) are two injected ones with a
by-id block, or one with two blocks that nest; two exceptions (`MaxCatch`) are one
caught inside a block and one around it. It is answered last: with the answer
first a commit may fail after success was told, which is what it means.
`MaxFresh` bounds generated trace ids: two requests can both need one. `MaxId`,
`MaxName` scale 50 and 63 down so that ids and names pass both; characters of one
class behave alike; the prefixes are none, an ordinary one, one that begins with a
digit and one with a capital, and `MaxTyped` lets two ids differ behind the cut.
Three objects give sharing, a cycle through a third object, and a dataclass
inside a set inside another; depth three is reached. Department ids share digits
(1, 11, 112, ...) and `MaxText` refuses a fourth level. The rules' texts have
blanks, blank items, padding, a truth value and a word that is no number. In
`RegionLookup` a cache of two overflows with five texts, one address is spelt in
two ways, and the requests take their address from the first header, the second,
the peer, and nowhere. In `Lifecycle` one user holds a
connection before, within, across and after a teardown; two pools make one
superseded; one record (`MaxOthers`, or one replacement) falls at any moment
between the lifespan's own four or five. The three settings have each mode, files
on and off, either stream's level above the other, and each echo; where there are
files their level is the highest, so that the sinks' threads interleave over
errors only, while the other two settings show every outcome of a teardown. The two provisioning
workers repeat calls without bound.

**Symmetry** is used where no liveness is checked and the permuted values are
interchangeable.

**Fairness.** `DbSession`: weak fairness of each request's `Progress` - the event
loop runs what is ready, the pool's timer fires, handlers return. Nothing is fair
about errors and cancellations: without the timeout a request would wait for
ever, as its removal shows. `TenantProvisioning`: strong fairness of each
call's progress - locks are granted in turn. `Lifecycle`: weak fairness of the
teardown loop (an await of a teardown ends or raises) and of the sinks'
threads; nothing is owed by the server or the users. `ShutdownEnds` says so under
a condition: if coroutines took connections for ever, `dispose` could close for
ever. `RegionLookup`: weak fairness of each
thread, none of the lock's; that suffices because the lock is taken only
until a load is done. The other modules check safety only.

**Deadlock** checking is off where coroutines, requests, inputs or the lifespan simply end; in
`DbSession` it is on, with a stutter allowed only when all requests are done.

## 4. Findings

* Writes of a task that outlives its block are lost silently (`context.py:158`).
* A structured detail of a 5xx `HTTPException` is shown outside development
  (`handler.py:181`).
* Concurrent creates of one tenant: one raises an undocumented database error
  (`provisioner.py:41`).
* `close_db_engine` says that it releases all connections; one that is out stays
  open in the pool that the engine leaves behind (`postgres.py:82`).

Read while modelling, and checked by no run of its own:

* With `DATABASE_ECHO` or `DATABASE_ECHO_POOL` SQLAlchemy's own handler prints what
  the console's sink shows as well, which the comment at `log.py:484` says is
  avoided: the handlers of the loggers below those named are not cleared
  (`log.py:485`). `ShownAsAsked` counts what the sinks show, and says of `printed`
  only whose records it has.
* `naming.py:12` accepts ids that start with a digit or an underscore; the comment
  above it says they start with a letter. Without a prefix such a name is none of
  the settings' pattern: `NameMatchesPattern` says when.
* Masking raises for data of the types its docstring lists: frozen dataclasses in
  sets (`log.py:161`) and above cycles or locks (`log.py:105`);
  `RaisesAreExplained` says when.
* A data rule on a column of times keeps its text, and the query fails
  (`rule.py:54`); on decimals and uuids the driver reads the text.
* `__repr__` reads `uid` and `id` by `getattr`, which loads what is expired or
  deferred, although it says it avoids that (`base.py:40`).
* A frozenset of sensitive keys with capitals masks nothing (`log.py:188`);
  `KnownSecretsHidden` leaves it out.
* `to_dict` leaves out a value that was assigned after a rollback and is not
  flushed (`base.py:79`).
* What uvicorn logs about an unhandled exception has no trace id (`log.py:223`);
  the program's own line about it, which `OneTrace` asks for, has.

## 5. Proofs

Eight modules hold theorems; all are checked by `tlapm` to the last leaf. They
hold for any sets and bounds that satisfy the named assumptions of the modules,
which say that special values differ from ordinary ones, that sets which are
counted are finite, and what the settings' types are. Where more is assumed:

* `RequestPipeline`: the trace ids clients send are not ids the program
  generates (`ConstantAssumption`).
* `TenantNaming`: characters of one byte. Nothing is assumed of the prefix.
* `DbSession`: `SuccessIsDurable` speaks of the requests that are answered last;
  of the others it is false. All else holds of both.
* `Departments`: ids are not empty and contain no comma.

None of the properties is inductive. `IInv` in each module is the strengthening
that is: it holds initially, each action keeps it (one lemma per action or
group), and it implies the properties. TLC evaluated each as an invariant of the
module's run first.

**Request context.** Leaving a block restores what its *token* remembers, so the
proof needs `TokensChain`: the token of each open block is the block below it, or
what the coroutine started with. That survives another coroutine's `Enter` and
`Exit` because of `OpenOnce` (no block is open twice). `NoCrossTalk` needs
`OwnRequest`: what a coroutine sees belongs to its own request, which `Spawn`
preserves as root and variable are copied together. `NewIsEmpty` says an
unstarted coroutine has no history, so a fork maps to the abstract `Fork`. The
refinement maps `Enter`, `Exit`, `Spawn` and `Set` to `Open`, `Close`, `Fork` and
`Write`, and the other steps to stutters.

**Sessions.** What decides is how far a request is: sessions come in the order of
the plan (`InPlanOrder`), only the innermost is between commit and close
(`EndedIsTop`), whoever waits for a connection has none (`WaitsUnheld`), and a
closed session holds none (`HoldsUnclosed`). Whatever the body catches, the
injected sessions are open as long as it runs (`InjectedOpen`), and what is left
in it is a by-id block (`LeavesById`); so an injected session is committed only
on the way out, when all later ones are closed, and durable or known to be given
up (`OuterIsLast`). `EndedIsDurable` - what ended was committed, unless it is
known to be given up, or is injected and its request fails - carries the success
answer.
`PoolCounts` equates the counter with the cardinality of the set of holders; each
step that takes or gives a connection adds or removes one element.
`FailureCommitsNothing` is an action property: only a commit makes writes
durable, and it is enabled only without an exception.

`SessionsAreUnits` is the refinement, one lemma per abstract action
(`BeginRefines` to `FinishRefines`). It needs a second invariant, `WorkInv`:
whoever runs its dependencies or its body has not failed, nobody heard of a
request that is not done (unless it is answered first), and only a commit that
failed leaves something durable in an open session, the one that is left next -
so a commit that fails either reached the database or changed nothing.
`RecoverRefines` rests on `InjectedOpen`: a body that catches has lost by-id
sessions only. `TopIsInnermost` turns the code's order of leaving into the
abstract one, and `UnitsUpdate`/`UnitsGive` a step on sessions into one on units.
The theorem holds whichever requests are answered first.

**Provisioning.** `ImplementsCatalog` maps each concurrent step to one atomic step
or a stutter, by the mapping of the model. It needs that a call which was asked is
one the client accepted (`RunsAccepted`), that a pending statement's effect is the
one its call asked for (`EffectAsked`), and that an executed drop may still drop
when it commits (`DropMayDrop`), although others commit meanwhile: the row lock.
`DestroyedOnPurpose` follows from the same.

**Region lookup.** `LoadedOnce` needs the whole double check: a thread that loads
holds the lock (`LockHeld`) and nothing is loaded yet
(`LoadingIsAbsent`); whoever is past it finds a searcher (`LoadedIsThere`).
`RegionsAreTrue` needs that a cached pair is true of its text and stays so,
through hits, overflow and late stores of a second thread.

**Pipeline.** `OneId` ties the id in the state, the context, the answer and the log
lines together; `StateKnows` says that `scope['state']` has the id as soon as
anything does, which is what the handler of last resort falls back on; `Marked`
says that an answer carries it; `Reported`, that the server's line is not the
first about a failure; `Progressed`, how far a request is at each stage.
`MessageMasked` and `FallbackCorsSound` use that the settings passed the validator
(`Startable`).

**Logging and lifecycle.** `ShownAsAsked` is kept in parts (`LoggingProofs`): queue
and output of each sink are in turn (`InOrder`), a record is shown or on its
way exactly if it is due (`Routed`), and what handlers of libraries print is
SQLAlchemy's (`Echoes`). Each operation keeps them, for `StandardLog`
because a record reaches exactly one `InterceptHandler` once the library is taken
over (`PassedOnOnce`), whichever loggers SQLAlchemy gave handlers. `LifecycleProofs`
adds where the teardown loop is and what is mounted by then (`Phase`), and that
each outcome was logged while the sinks were there (`Reported`); at the end of the
loop the closed logging has empty queues, so `Routed` says it was written.
`CurrentReleased` needs more than it says: behind a teardown that did not raise
nobody holds an open connection of the current pool either, which could be given
back (`Released`): for the engine because its holders are `Gone`, for Redis because
theirs are `cut`, and because whoever opens one later makes its kind `late`.
`OpenBounded` bounds the counters.

**Naming, departments, rules** (`HelperProofs`). The names' theorems rest on
`CanonFacts`, a plain id is its own canonical form, and `BuildFacts`, a name is
the prefix and a canonical id. `SchemasAreApart` needs the code's check of the
length: only then has the database nothing to cut off. `SubtreesAreFound` is an
invariant of a table that departments are inserted into: texts stay delimited
(`Delimited`), and an id is found in the text of exactly the departments below it
(`DeptInv`); `TextGrows` shows that an id between commas is never found across two
others, `AboveGrows` that an insertion changes nobody else's ancestors. The rules'
theorems split by operator and column kind.

**Masking** (`HelperProofs`). Recursion over the object graph is out of the
provers' reach; calls that are state are not. `CallInv` says of every call still
to make: its object is the root or below it; every object in the memo is above
it, or is the dataclass it is a copy of, so that a hit in the memo is a cycle; the
path has no sensitive key; and if the result is to be hashed, a set or a view is
above.
`FoundInv` says what the three properties say, of one thing found.
`CalleesAreRight` passes the first from a call to the calls it makes,
`ResultsAreRight` leads from it to the second, and `HeapStays` says that the heap
no longer changes. `Below` is the intersection of the sets that are closed under
children, so that `BelowFacts` - children are below, what is below something
below is below - needs no induction. `HeapInv` (what Python can build) is used
in `BelowSets`: in a set there is no list or dict, so only a dataclass or a range
can become unhashable, and where there is one below a view, the view is to blame.

**Instances** (`HelperProofs`). `OrmInv` relates `known` to `attr`: known is
what is loaded or assigned. A flush keeps it (`FlushStep`), as what an UPDATE sets comes
back, and a commit because nothing expires.

**Only model-checked.**

* `EveryRequestEnds`, `EveryCallReturns`, `ShutdownEnds`, `EveryLookupReturns`:
  liveness under fairness is out of the prover's reach.
* The runs that expect a violation.

## 6. Not modelled, and the plan

Not modelled because nothing there changes state or decides anything: the
tables' columns, most enums, the OpenAPI patch, log formats, reading of `.env`
files, `dataclasses.py` (plain records). `gen_uid` is a clock and a random
source; nothing depends on the order of its ids, and what its mixed case means
for schema names is in `SameSchemaSameTenant`. The user agent is a library's
result. The outbox table has states but no code that moves them.

Done, in this order: context, its proofs, sessions, pipeline, naming,
provisioning, masking, lifecycle; then region lookup, the abstract catalog,
departments, data rules, instances; then the proofs of all of them; last the
abstract units of work and their refinement. The plan is done. An abstract
specification of the log's outputs would say again what the invariant
`ShownAsAsked` says of every moment.

A composition of context, sessions and pipeline in one module would repeat what
`DbSession` already takes from the context (the tenant at each moment) and what
the pipeline takes from a route (how it ends).
