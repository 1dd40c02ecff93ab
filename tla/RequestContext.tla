--------------------------- MODULE RequestContext ---------------------------
(***************************************************************************)
(* backend/common/request/context.py: the request context kept in a        *)
(* ContextVar, the proxy that reads and writes it, and the manager that    *)
(* binds and restores it.                                                  *)
(*                                                                         *)
(* A manager m stands for one bind_context() call: the manager object and  *)
(* the RequestContext it owns.  Coroutines start from the server (nothing  *)
(* bound) or from another coroutine, whose context asyncio copies BY       *)
(* REFERENCE: parent and child share the RequestContext object.            *)
(***************************************************************************)
EXTENDS Naturals, Sequences

CONSTANTS Tasks, Managers, Fields, Values,
          Unbound,   \* the ContextVar's default, None
          NoToken,   \* _token before __enter__ and after __exit__, None
          NoTask,    \* the creator of a context that does not exist yet
          NoValue    \* an optional field that is None

ASSUME ConstantAssumption ==
  /\ Unbound \notin Managers
  /\ NoToken \notin Managers \cup {Unbound}
  /\ NoTask \notin Tasks
  /\ NoValue \notin Values

VARIABLES
  status,  \* status[t]: "new", "running" or "done"
  root,    \* root[t]: the request (coroutine started by the server) t works for
  base,    \* base[t]: what the context of t held when t was started
  var,     \* var[t]: _request_ctx as t sees it
  token,   \* token[m]: the value m's token restores, or NoToken
  frames,  \* frames[t]: the with-blocks t is inside of, outermost first
  rc,      \* rc[m]: the fields of m's RequestContext object
  owner    \* owner[m]: the request whose code called bind_context

vars == <<status, root, base, var, token, frames, rc, owner>>

Statuses == {"new", "running", "done"}
Context == Managers \cup {Unbound}
Contents == [Fields -> Values \cup {NoValue}]

TypeOK ==
  /\ status \in [Tasks -> Statuses]
  /\ root \in [Tasks -> Tasks]
  /\ base \in [Tasks -> Context]
  /\ var \in [Tasks -> Context]
  /\ token \in [Managers -> Context \cup {NoToken}]
  /\ frames \in [Tasks -> Seq(Managers)]
  /\ rc \in [Managers -> Contents]
  /\ owner \in [Managers -> Tasks \cup {NoTask}]

Init ==
  /\ status = [t \in Tasks |-> "new"]
  /\ root = [t \in Tasks |-> t]
  /\ base = [t \in Tasks |-> Unbound]
  /\ var = [t \in Tasks |-> Unbound]
  /\ token = [m \in Managers |-> NoToken]
  /\ frames = [t \in Tasks |-> <<>>]
  /\ rc = [m \in Managers |-> [f \in Fields |-> NoValue]]
  /\ owner = [m \in Managers |-> NoTask]

-----------------------------------------------------------------------------
(* Reading through the proxy. *)

\* ctx.tenant, ctx.user, ctx.get_extra, ...: None when nothing is bound.
Read(t, f) == IF var[t] = Unbound THEN NoValue ELSE rc[var[t]][f]

-----------------------------------------------------------------------------
(* Coroutines. *)

\* The server starts a coroutine for a request; its context binds nothing.
Start(t) ==
  /\ status[t] = "new"
  /\ status' = [status EXCEPT ![t] = "running"]
  /\ UNCHANGED <<root, base, var, token, frames, rc, owner>>

\* create_task or run_in_threadpool: the child gets a copy of the parent's
\* context, that is a reference to the same RequestContext object.
Spawn(t, c) ==
  /\ status[t] = "running" /\ status[c] = "new"
  /\ status' = [status EXCEPT ![c] = "running"]
  /\ root' = [root EXCEPT ![c] = root[t]]
  /\ base' = [base EXCEPT ![c] = var[t]]
  /\ var' = [var EXCEPT ![c] = var[t]]
  /\ UNCHANGED <<token, frames, rc, owner>>

\* A coroutine ends once it has left its with-blocks.
Finish(t) ==
  /\ status[t] = "running" /\ frames[t] = <<>>
  /\ status' = [status EXCEPT ![t] = "done"]
  /\ UNCHANGED <<root, base, var, token, frames, rc, owner>>

-----------------------------------------------------------------------------
(* The binding manager. *)

\* A bug: one module-level variable for every coroutine.
BugBindEverywhere(t, m) ==
  /\ token' = [token EXCEPT ![m] = var[t]]
  /\ var' = [u \in Tasks |-> m]
  /\ frames' = [frames EXCEPT ![t] = Append(@, m)]

\* __enter__: the token is the manager's, so a second entry overwrites it.
Bind(t, m) ==
  /\ token' = [token EXCEPT ![m] = var[t]]
  /\ var' = [var EXCEPT ![t] = m]
  /\ frames' = [frames EXCEPT ![t] = Append(@, m)]

\* with bind_context(...): a new manager and a new object, entered at once.
Enter(t, m, c) ==
  /\ status[t] = "running" /\ owner[m] = NoTask
  /\ Bind(t, m)
  /\ rc' = [rc EXCEPT ![m] = c]
  /\ owner' = [owner EXCEPT ![m] = root[t]]
  /\ UNCHANGED <<status, root, base>>

\* What leaving a block does to everything but the variable.
Pop(t) ==
  LET n == Len(frames[t])
  IN /\ status[t] = "running" /\ n > 0
     /\ token' = [token EXCEPT ![frames[t][n]] = NoToken]
     /\ frames' = [frames EXCEPT ![t] = SubSeq(@, 1, n - 1)]
     /\ UNCHANGED <<status, root, base, rc, owner>>

\* Bugs: the token is cleared before it is used; None instead of the parent.
BugExitClearsFirst(t) == Pop(t) /\ var' = [var EXCEPT ![t] = NoToken]
BugExitToNone(t) == Pop(t) /\ var' = [var EXCEPT ![t] = Unbound]

\* __exit__: reset to what the token remembers, and nothing without a token.
Exit(t) ==
  LET m == frames[t][Len(frames[t])]
  IN /\ Pop(t)
     /\ var' = [var EXCEPT ![t] = IF token[m] = NoToken THEN @ ELSE token[m]]

-----------------------------------------------------------------------------
(* Writing through the proxy. *)

\* A bug: the write goes to the outermost block's object.
BugSetOutermost(t, f, v) ==
  /\ status[t] = "running" /\ var[t] # Unbound
  /\ LET m == IF frames[t] = <<>> THEN var[t] ELSE frames[t][1]
     IN rc' = [rc EXCEPT ![m][f] = v]
  /\ UNCHANGED <<status, root, base, var, token, frames, owner>>

\* set_user, set_tenant, set_data_scope, set_extra with a context bound.
Set(t, f, v) ==
  /\ status[t] = "running" /\ var[t] # Unbound
  /\ rc' = [rc EXCEPT ![var[t]][f] = v]
  /\ UNCHANGED <<status, root, base, var, token, frames, owner>>

\* A write, or get_request_context, without one: RuntimeError ends the
\* coroutine.
Refuse(t) ==
  /\ status[t] = "running" /\ var[t] = Unbound
  /\ status' = [status EXCEPT ![t] = "done"]
  /\ UNCHANGED <<root, base, var, token, frames, rc, owner>>

TaskStep(t) ==
  \/ Start(t)
  \/ \E c \in Tasks \ {t} : Spawn(t, c)
  \/ Finish(t)
  \/ \E m \in Managers, c \in Contents : Enter(t, m, c)
  \/ Exit(t)
  \/ \E f \in Fields, v \in Values : Set(t, f, v)
  \/ Refuse(t)

Next == \E t \in Tasks : TaskStep(t)

Spec == Init /\ [][Next]_vars

-----------------------------------------------------------------------------
(* What it is for. *)

\* The innermost of the blocks t is inside of, or what it was started with.
Innermost(t) == IF frames[t] = <<>> THEN base[t] ELSE frames[t][Len(frames[t])]

\* Blocks nest: whatever coroutines bind, fork and leave in between, every
\* coroutine sees the block it is directly inside of, and after the last one
\* what it was started with (bind_context: "strictly restore the parent").
InnermostVisible == \A t \in Tasks : var[t] = Innermost(t)

\* Requests do not share contexts: no step taken for one request changes what
\* a coroutine of another request reads through ctx.
NoCrossTalk ==
  [][\A t, u \in Tasks :
       TaskStep(t) /\ status[u] = "running" /\ root[u] # root[t]
         => \A f \in Fields : Read(u, f)' = Read(u, f)]_vars

\* The variable and its tokens implement lexically nested scopes: the stack of
\* scopes the abstract module keeps is never stored by the code.
Scopes == INSTANCE ContextScope WITH
  stack <- [t \in Tasks |-> <<base[t]>> \o frames[t]],
  visible <- var,
  content <- rc,
  opened <- {m \in Managers : owner[m] # NoTask}
ScopeSpec == Scopes!AbsSpec

\* What the proxy's docstring says of writes: one that reaches no block still
\* open is refused, so that it cannot be lost unnoticed.
WriteReachesOpenBlock ==
  [][\A t \in Tasks, f \in Fields, v \in Values :
       Set(t, f, v) => \E u \in Tasks : \E i \in 1..Len(frames[u]) :
                         frames[u][i] = var[t]]_vars
=============================================================================
