---------------------------- MODULE ContextScope ----------------------------
(***************************************************************************)
(* What the request context promises, apart from how it keeps the promise: *)
(* every coroutine has a stack of open scopes, reads see the innermost     *)
(* one, leaving a block uncovers the scope below it, a forked coroutine    *)
(* starts from what its parent sees, a write changes the innermost scope,  *)
(* and a scope is opened at most once.                                     *)
(*                                                                         *)
(* The code keeps no stack: RequestContext models the ContextVar and the   *)
(* tokens it really has, and is shown to implement this module.            *)
(***************************************************************************)
EXTENDS Naturals, Sequences

CONSTANTS Tasks,     \* coroutines
          Managers,  \* scopes: one per bind_context() call
          Fields,    \* the assignable fields of a scope
          Values,    \* the values those fields take
          Unbound,   \* what a coroutine sees outside every scope
          NoValue    \* a field that was not given

VARIABLES stack,     \* stack[t]: inherited scope, then the blocks t has open
          visible,   \* visible[t]: the scope that reads and writes of t reach
          content,   \* content[s]: the fields of scope s
          opened     \* the scopes opened so far

absVars == <<stack, visible, content, opened>>

Contents == [Fields -> Values \cup {NoValue}]

AbsInit ==
  /\ stack = [t \in Tasks |-> <<Unbound>>]
  /\ visible = [t \in Tasks |-> Unbound]
  /\ content = [s \in Managers |-> [f \in Fields |-> NoValue]]
  /\ opened = {}

\* A block is entered: a scope nobody has seen yet becomes the innermost one.
Open(t, s, c) ==
  /\ s \notin opened
  /\ stack' = [stack EXCEPT ![t] = Append(@, s)]
  /\ visible' = [visible EXCEPT ![t] = s]
  /\ content' = [content EXCEPT ![s] = c]
  /\ opened' = opened \cup {s}

\* A block is left: the scope below it is visible again.
Close(t) ==
  /\ Len(stack[t]) > 1
  /\ stack' = [stack EXCEPT ![t] = SubSeq(@, 1, Len(@) - 1)]
  /\ visible' = [visible EXCEPT ![t] = stack[t][Len(stack[t]) - 1]]
  /\ UNCHANGED <<content, opened>>

\* A coroutine that has done nothing yet is started from t.
Fork(t, c) ==
  /\ stack[c] = <<Unbound>>
  /\ stack' = [stack EXCEPT ![c] = <<visible[t]>>]
  /\ visible' = [visible EXCEPT ![c] = visible[t]]
  /\ UNCHANGED <<content, opened>>

\* A write reaches the innermost scope and no other; without one it is refused.
Write(t, f, v) ==
  /\ visible[t] # Unbound
  /\ content' = [content EXCEPT ![visible[t]][f] = v]
  /\ UNCHANGED <<stack, visible, opened>>

AbsNext ==
  \E t \in Tasks :
    \/ \E s \in Managers, c \in Contents : Open(t, s, c)
    \/ Close(t)
    \/ \E c \in Tasks \ {t} : Fork(t, c)
    \/ \E f \in Fields, v \in Values : Write(t, f, v)

AbsSpec == AbsInit /\ [][AbsNext]_absVars
=============================================================================
