--------------------------- MODULE DbSessionProofs ---------------------------
(***************************************************************************)
(* Proofs about DbSession for any number of requests, sessions and         *)
(* connections: the pool's count is right, outer sessions commit last, a   *)
(* failure on its way commits nothing, and the sessions implement nested   *)
(* units of work.                                                          *)
(***************************************************************************)
EXTENDS DbSession, FiniteSetTheorems, TLAPS

(***************************************************************************)
(* The properties are not inductive.  What they rest on is how far a       *)
(* request is: which sessions it may have, which of them are over, and     *)
(* what was decided when they ended.                                       *)
(***************************************************************************)

\* The injected sessions come first, in the order of the plan; those the body
\* opened by id come after all of them.
InPlanOrder(r) ==
  /\ \A k \in 1..Len(sess[r]) :
       sess[r][k].kind = IF k <= Len(plan[r]) THEN plan[r][k] ELSE "byid"
  /\ pc[r] = "opening" => Len(sess[r]) <= Len(plan[r])
  /\ pc[r] \in {"body", "raising", "leaving"} => Len(plan[r]) <= Len(sess[r])

\* A session that waits for a connection has none and is not closed.
WaitsUnheld(r) ==
  want[r] # 0 =>
    /\ pc[r] \in {"body", "leaving", "exiting"}
    /\ sess[r][want[r]].phase # "closed"
    /\ ~sess[r][want[r]].conn

\* A closed session gave its connection back.
HoldsUnclosed(r) ==
  \A k \in 1..Len(sess[r]) : sess[r][k].conn => sess[r][k].phase # "closed"

\* Only the innermost session is between its commit and its close.
EndedIsTop(r) ==
  \A k \in 1..Len(sess[r]) :
    sess[r][k].phase = "ended" => pc[r] \in {"leaving", "exiting"} /\ Top(r, k)

\* Whatever ended was committed, unless it is known to be given up, or is an
\* injected session and its request fails.
EndedIsDurable(r) ==
  \A k \in 1..Len(sess[r]) :
    sess[r][k].phase # "open" /\ sess[r][k].dirty =>
      \/ sess[r][k].durable \/ sess[r][k].spoilt
      \/ exc[r] # "none" /\ sess[r][k].kind # "byid"

\* The injected sessions outlive the body: whatever it catches, it has them.
InjectedOpen(r) ==
  pc[r] \in {"opening", "body", "raising", "leaving"} =>
    \A k \in 1..Len(sess[r]) :
      sess[r][k].kind # "byid" => sess[r][k].phase = "open"

\* A block that is left in the body is a by-id block.
LeavesById(r) ==
  pc[r] = "leaving" =>
    \A k \in 1..Len(sess[r]) : Top(r, k) => sess[r][k].kind = "byid"

\* An injected session is committed on the way out only, after every session
\* that was made later was closed, and committed or known to be given up.
OuterIsLast(r) ==
  \A j \in 1..Len(sess[r]) :
    j <= Len(plan[r]) /\ sess[r][j].durable =>
      /\ pc[r] \in {"exiting", "done"}
      /\ \A k \in 1..Len(sess[r]) : k > j =>
           /\ sess[r][k].phase = "closed"
           /\ sess[r][k].dirty => sess[r][k].durable \/ sess[r][k].spoilt

DoneIsClosed(r) == pc[r] = "done" => Unclosed(r) = {}

\* If the answer comes last, a success answer means that nothing failed.
AnsweredAtEnd(r) ==
  r \notin AnswerFirst /\ answer[r] = "ok" => pc[r] = "done" /\ exc[r] = "none"

RequestInv(r) ==
  /\ InPlanOrder(r)
  /\ WaitsUnheld(r)
  /\ HoldsUnclosed(r)
  /\ EndedIsTop(r)
  /\ EndedIsDurable(r)
  /\ InjectedOpen(r)
  /\ LeavesById(r)
  /\ OuterIsLast(r)
  /\ DoneIsClosed(r)
  /\ AnsweredAtEnd(r)

\* The pool counts what is held; that is a finite number.
PoolCounts == IsFiniteSet(Held) /\ inUse = Cardinality(Held)

IInv ==
  /\ TypeOK
  /\ \A r \in Requests : RequestInv(r)
  /\ PoolCounts

-----------------------------------------------------------------------------
(* What is given and updated. *)

\* What a step makes of a session's fields; the others stay.
LEMMA Fields ==
  ASSUME NEW s \in Sessions, NEW b \in BOOLEAN
  PROVE  /\ LET d == [s EXCEPT !.dirty = b] IN
            /\ d \in Sessions /\ d.dirty = b
            /\ d.kind = s.kind /\ d.conn = s.conn /\ d.durable = s.durable
            /\ d.phase = s.phase /\ d.schema = s.schema /\ d.spoilt = s.spoilt
         /\ LET d == [s EXCEPT !.conn = b] IN
            /\ d \in Sessions /\ d.conn = b
            /\ d.kind = s.kind /\ d.dirty = s.dirty /\ d.durable = s.durable
            /\ d.phase = s.phase /\ d.schema = s.schema /\ d.spoilt = s.spoilt
         /\ LET d == [s EXCEPT !.durable = b] IN
            /\ d \in Sessions /\ d.durable = b
            /\ d.kind = s.kind /\ d.dirty = s.dirty /\ d.conn = s.conn
            /\ d.phase = s.phase /\ d.schema = s.schema /\ d.spoilt = s.spoilt
         /\ LET d == [s EXCEPT !.spoilt = b] IN
            /\ d \in Sessions /\ d.spoilt = b
            /\ d.kind = s.kind /\ d.dirty = s.dirty /\ d.conn = s.conn
            /\ d.phase = s.phase /\ d.schema = s.schema /\ d.durable = s.durable
         /\ LET d == Ended(s, b) IN
            /\ d \in Sessions /\ d.durable = b /\ d.phase = "ended"
            /\ d.kind = s.kind /\ d.dirty = s.dirty /\ d.conn = s.conn
            /\ d.schema = s.schema /\ d.spoilt = s.spoilt
         /\ LET d == Closed(s) IN
            /\ d \in Sessions /\ d.conn = FALSE /\ d.phase = "closed"
            /\ d.kind = s.kind /\ d.dirty = s.dirty /\ d.durable = s.durable
            /\ d.schema = s.schema /\ d.spoilt = s.spoilt
         /\ LET d == GivenUp(s) IN
            /\ d \in Sessions /\ d.spoilt = (s.spoilt \/ s.kind = "byid")
            /\ d.kind = s.kind /\ d.dirty = s.dirty /\ d.durable = s.durable
            /\ d.schema = s.schema /\ d.conn = s.conn /\ d.phase = s.phase
  BY DEF Sessions, Ended, Closed, GivenUp

LEMMA FieldTypes ==
  ASSUME NEW s \in Sessions
  PROVE  /\ s.dirty \in BOOLEAN /\ s.conn \in BOOLEAN /\ s.durable \in BOOLEAN
         /\ s.spoilt \in BOOLEAN /\ Kept(s) \in BOOLEAN
         /\ s.phase \in {"open", "ended", "closed"}
         /\ s.kind \in {"public", "tenant", "byid"}
  BY DEF Sessions, Kept

\* An updated session is in its place, and all others are as they were.
LEMMA UpdateEffect ==
  ASSUME TypeOK, NEW r \in Requests, NEW k \in 1..Len(sess[r]),
         NEW s \in Sessions, Update(r, k, s)
  PROVE  /\ sess' \in [Requests -> Seq(Sessions)]
         /\ Len(sess'[r]) = Len(sess[r])
         /\ sess'[r][k] = s
         /\ \A j \in 1..Len(sess[r]) : j # k => sess'[r][j] = sess[r][j]
         /\ \A u \in Requests : u # r => sess'[u] = sess[u]
  BY DEF TypeOK, Update

LEMMA GiveEffect ==
  ASSUME TypeOK, NEW r \in Requests, NEW kind \in {"public", "tenant", "byid"},
         NEW schema \in Tenants \cup {Public}, Give(r, kind, schema)
  PROVE  /\ sess' \in [Requests -> Seq(Sessions)]
         /\ Len(sess[r]) \in Nat
         /\ Len(sess'[r]) = Len(sess[r]) + 1
         /\ \A j \in 1..Len(sess[r]) : sess'[r][j] = sess[r][j]
         /\ sess'[r][Len(sess[r]) + 1] =
              [kind |-> kind, schema |-> schema, dirty |-> FALSE,
               conn |-> FALSE, durable |-> FALSE, spoilt |-> FALSE,
               phase |-> "open"]
         /\ \A u \in Requests : u # r => sess'[u] = sess[u]
  <1>. DEFINE s == [kind |-> kind, schema |-> schema, dirty |-> FALSE,
                    conn |-> FALSE, durable |-> FALSE, spoilt |-> FALSE,
               phase |-> "open"]
  <1>1. s \in Sessions
    BY DEF Sessions
  <1>2. sess[r] \in Seq(Sessions)
    BY DEF TypeOK
  <1>3. sess' = [sess EXCEPT ![r] = Append(sess[r], s)]
    BY DEF Give
  <1>4. Append(sess[r], s) \in Seq(Sessions)
    BY <1>1, <1>2
  <1>. HIDE DEF s
  <1>5. sess' \in [Requests -> Seq(Sessions)]
    BY <1>3, <1>4 DEF TypeOK
  <1>6. sess'[r] = Append(sess[r], s)
    BY <1>3 DEF TypeOK
  <1>7. \A u \in Requests : u # r => sess'[u] = sess[u]
    BY <1>3 DEF TypeOK
  <1>8. /\ Len(sess[r]) \in Nat
        /\ Len(sess'[r]) = Len(sess[r]) + 1
        /\ \A j \in 1..Len(sess[r]) : sess'[r][j] = sess[r][j]
        /\ sess'[r][Len(sess[r]) + 1] = s
    BY <1>1, <1>2, <1>6
  <1>. QED BY <1>5, <1>7, <1>8 DEF s

-----------------------------------------------------------------------------
(* Who holds a connection. *)

LEMMA HeldIs ==
  \A h : h \in Held <=>
    \E u \in Requests : \E k \in 1..Len(sess[u]) : sess[u][k].conn /\ h = <<u, k>>
  BY DEF Held

\* A step after which the same sessions of r, and all of the others, hold a
\* connection, changes nothing for the pool.
LEMMA SameHolders ==
  ASSUME NEW r \in Requests,
         \A u \in Requests : u # r => sess'[u] = sess[u],
         \A k \in 1..Len(sess'[r]) : sess'[r][k].conn =>
           k \in 1..Len(sess[r]) /\ sess[r][k].conn,
         \A k \in 1..Len(sess[r]) : sess[r][k].conn =>
           k \in 1..Len(sess'[r]) /\ sess'[r][k].conn
  PROVE  Held' = Held
  <1>1. \A h : h \in Held' <=>
          \E u \in Requests : \E k \in 1..Len(sess'[u]) :
            sess'[u][k].conn /\ h = <<u, k>>
    BY DEF Held
  <1>2. ASSUME NEW h \in Held' PROVE h \in Held
    <2>0. PICK u \in Requests : \E k \in 1..Len(sess'[u]) :
              sess'[u][k].conn /\ h = <<u, k>>
      BY <1>1, <1>2
    <2>1. PICK k \in 1..Len(sess'[u]) : sess'[u][k].conn /\ h = <<u, k>>
      BY <2>0
    <2>2. k \in 1..Len(sess[u]) /\ sess[u][k].conn
      BY <2>1
    <2>. QED BY <2>1, <2>2, HeldIs
  <1>3. ASSUME NEW h \in Held PROVE h \in Held'
    <2>0. PICK u \in Requests : \E k \in 1..Len(sess[u]) :
              sess[u][k].conn /\ h = <<u, k>>
      BY <1>3, HeldIs
    <2>1. PICK k \in 1..Len(sess[u]) : sess[u][k].conn /\ h = <<u, k>>
      BY <2>0
    <2>2. k \in 1..Len(sess'[u]) /\ sess'[u][k].conn
      BY <2>1
    <2>. QED BY <2>1, <2>2, <1>1
  <1>. QED BY <1>2, <1>3

-----------------------------------------------------------------------------
(* Each step of a request keeps what is known of every request. *)

\* A request keeps what no other request's step changes.
LEMMA OthersKeep ==
  ASSUME TypeOK, NEW u \in Requests, RequestInv(u), plan' = plan,
         pc'[u] = pc[u], exc'[u] = exc[u], sess'[u] = sess[u],
         want'[u] = want[u], answer'[u] = answer[u]
  PROVE  RequestInv(u)'
  BY DEF RequestInv, InPlanOrder, WaitsUnheld, HoldsUnclosed, EndedIsTop,
         EndedIsDurable, InjectedOpen, LeavesById, OuterIsLast, DoneIsClosed,
         AnsweredAtEnd,
         Top, Unclosed

\* The steps that leave the sessions alone.
LEMMA SameSessionsKeep ==
  ASSUME TypeOK, NEW r \in Requests, RequestInv(r),
         \/ InjectTenantFails(r) \/ StartBody(r) \/ LeaveById(r) \/ Return(r)
         \/ Unwind(r) \/ PoolTimeout(r) \/ Finish(r) \/ Raise(r) \/ Cancel(r)
         \/ Catch(r) \/ \E x \in Tenants : SetTenant(r, x)
         \/ \E k \in 1..Len(sess[r]) :
              Execute(r, k) \/ Flush(r, k) \/ CommitRefused(r, k)
  PROVE  RequestInv(r)'
  <1>. USE DEF TypeOK, Running, Injects
  <1>1. sess' = sess /\ plan' = plan
    BY DEF InjectTenantFails, StartBody, LeaveById, Return, Unwind, PoolTimeout,
           Finish, Raise, Cancel, Catch, SetTenant, Execute, Flush, CommitRefused
  <1>2. InPlanOrder(r)'
    BY <1>1 DEF RequestInv, InPlanOrder, InjectTenantFails, StartBody, LeaveById, Return, Unwind, PoolTimeout,
           Finish, Raise, Cancel, Catch, SetTenant, Execute, Flush, CommitRefused
  <1>3. WaitsUnheld(r)'
    BY <1>1 DEF RequestInv, WaitsUnheld, InjectTenantFails, StartBody, LeaveById, Return, Unwind, PoolTimeout,
           Finish, Raise, Cancel, Catch, SetTenant, Execute, Flush, CommitRefused,
           Leaves, Unclosed
  <1>4. HoldsUnclosed(r)'
    BY <1>1 DEF RequestInv, HoldsUnclosed
  <1>5. EndedIsTop(r)'
    BY <1>1 DEF RequestInv, EndedIsTop, InjectTenantFails, StartBody, LeaveById, Return, Unwind, PoolTimeout,
           Finish, Raise, Cancel, Catch, SetTenant, Execute, Flush, CommitRefused,
           Top, Unclosed
  <1>6. EndedIsDurable(r)'
    <2>1. CASE Catch(r)
      BY <1>1, <2>1 DEF RequestInv, EndedIsDurable, InjectedOpen, Catch
    <2>2. CASE ~Catch(r)
      <3>1. exc[r] # "none" => exc'[r] # "none"
        BY <2>2 DEF InjectTenantFails, StartBody, LeaveById, Return, Unwind,
           PoolTimeout, Finish, Raise, Cancel, SetTenant, Execute, Flush,
           CommitRefused
      <3>. QED BY <1>1, <3>1 DEF RequestInv, EndedIsDurable
    <2>. QED BY <2>1, <2>2
  <1>7. LeavesById(r)'
    BY <1>1 DEF RequestInv, LeavesById, InjectTenantFails, StartBody, LeaveById, Return, Unwind, PoolTimeout,
           Finish, Raise, Cancel, Catch, SetTenant, Execute, Flush, CommitRefused,
           Top, Unclosed
  <1>8. OuterIsLast(r)'
    BY <1>1 DEF RequestInv, OuterIsLast, InjectTenantFails, StartBody, LeaveById, Return, Unwind, PoolTimeout,
           Finish, Raise, Cancel, Catch, SetTenant, Execute, Flush, CommitRefused
  <1>9. DoneIsClosed(r)'
    BY <1>1 DEF RequestInv, DoneIsClosed, InjectTenantFails, StartBody, LeaveById, Return, Unwind, PoolTimeout,
           Finish, Raise, Cancel, Catch, SetTenant, Execute, Flush, CommitRefused, Unclosed
  <1>10. AnsweredAtEnd(r)'
    <2>. SUFFICES ASSUME r \notin AnswerFirst
                  PROVE  answer'[r] = "ok" => pc'[r] = "done" /\ exc'[r] = "none"
      BY DEF AnsweredAtEnd
    <2>1. answer[r] = "ok" => pc[r] = "done" /\ exc[r] = "none"
      BY DEF RequestInv, AnsweredAtEnd
    <2>2. CASE Finish(r)
      BY <2>1, <2>2 DEF Finish
    <2>3. CASE ~Finish(r)
      <3>1. answer'[r] = answer[r]
        BY <2>3 DEF InjectTenantFails, StartBody, LeaveById, Return, Unwind,
           PoolTimeout, Raise, Cancel, Catch, SetTenant, Execute, Flush, CommitRefused
      <3>2. pc[r] = "done" => want[r] = 0
        BY DEF RequestInv, WaitsUnheld
      <3>3. pc[r] # "done"
        BY <2>3, <3>2 DEF InjectTenantFails, StartBody, LeaveById, Return,
           Unwind, PoolTimeout, Raise, Cancel, Catch, SetTenant, Execute, Flush,
           CommitRefused, Leaves
      <3>. QED BY <2>1, <3>1, <3>3
    <2>. QED BY <2>2, <2>3
  <1>11. InjectedOpen(r)'
    BY <1>1 DEF RequestInv, InjectedOpen, InjectTenantFails, StartBody, LeaveById, Return, Unwind, PoolTimeout,
           Finish, Raise, Cancel, Catch, SetTenant, Execute, Flush, CommitRefused
  <1>. QED BY <1>2, <1>3, <1>4, <1>5, <1>6, <1>7, <1>8, <1>9, <1>10, <1>11
           DEF RequestInv

\* A new session is open, and the last one of a request that leaves nothing.
LEMMA GiveKeeps ==
  ASSUME TypeOK, NEW r \in Requests, RequestInv(r),
         \/ InjectPublic(r) \/ InjectTenant(r)
         \/ \E x \in Tenants \cup {NoTenant} : EnterById(r, x)
  PROVE  /\ RequestInv(r)' /\ sess' \in [Requests -> Seq(Sessions)]
         /\ \A u \in Requests : u # r => sess'[u] = sess[u]
         /\ Len(sess[r]) <= Len(sess'[r])
         /\ Held' = Held
  <1>1. \E kind \in {"public", "tenant", "byid"}, schema \in Tenants \cup {Public} :
          /\ Give(r, kind, schema)
          /\ \/ pc[r] = "opening" /\ Len(sess[r]) < Len(plan[r])
                /\ kind = plan[r][Len(sess[r]) + 1]
             \/ pc[r] = "body" /\ kind = "byid"
    <2>1. CASE InjectPublic(r)
      BY <2>1 DEF InjectPublic, Injects
    <2>2. CASE InjectTenant(r)
      BY <2>2 DEF InjectTenant, Injects, Schema, Resolves
    <2>3. ASSUME NEW x \in Tenants \cup {NoTenant}, EnterById(r, x)
          PROVE  Give(r, "byid", Schema(r, x)) /\ pc[r] = "body"
                 /\ Schema(r, x) \in Tenants \cup {Public}
      BY <2>3 DEF EnterById, Running, Schema, Resolves
    <2>. QED BY <2>1, <2>2, <2>3
  <1>2. PICK kind \in {"public", "tenant", "byid"}, schema \in Tenants \cup {Public} :
          /\ Give(r, kind, schema)
          /\ \/ pc[r] = "opening" /\ Len(sess[r]) < Len(plan[r])
                /\ kind = plan[r][Len(sess[r]) + 1]
             \/ pc[r] = "body" /\ kind = "byid"
    BY <1>1
  <1>. DEFINE n == Len(sess[r])
  <1>3. /\ sess' \in [Requests -> Seq(Sessions)]
        /\ n \in Nat /\ Len(sess'[r]) = n + 1
        /\ \A j \in 1..n : sess'[r][j] = sess[r][j]
        /\ sess'[r][n + 1].kind = kind
        /\ sess'[r][n + 1].phase = "open"
        /\ ~sess'[r][n + 1].conn /\ ~sess'[r][n + 1].dirty
        /\ ~sess'[r][n + 1].durable
        /\ \A u \in Requests : u # r => sess'[u] = sess[u]
    <2>. HIDE DEF n
    <2>1. sess'[r][n + 1] =
              [kind |-> kind, schema |-> schema, dirty |-> FALSE,
               conn |-> FALSE, durable |-> FALSE, spoilt |-> FALSE,
               phase |-> "open"]
      BY <1>2, GiveEffect DEF n
    <2>. QED BY <2>1, <1>2, GiveEffect DEF n
  <1>4. /\ pc' = pc /\ plan' = plan /\ exc' = exc /\ want' = want
        /\ answer' = answer /\ want[r] \in Nat /\ want[r] <= n
        /\ plan[r] \in Seq({"public", "tenant"})
    BY ConstantAssumption
    DEF InjectPublic, InjectTenant, EnterById, TypeOK
  <1>5. \A i \in 1..Len(sess'[r]) : i \in 1..n \/ i = n + 1
    BY <1>3
  <1>6. \A i \in 1..n : i \in 1..Len(sess'[r]) /\ i # n + 1
    BY <1>3
  <1>. HIDE DEF n
  <1>7. InPlanOrder(r)'
    <2>1. Len(plan[r]) \in Nat
      BY <1>4
    <2>2. ASSUME NEW i \in 1..n
          PROVE  sess'[r][i].kind = IF i <= Len(plan[r]) THEN plan[r][i] ELSE "byid"
      BY <1>3 DEF RequestInv, InPlanOrder, n
    <2>3. kind = IF n + 1 <= Len(plan[r]) THEN plan[r][n + 1] ELSE "byid"
      BY <1>2, <1>3, <2>1 DEF RequestInv, InPlanOrder, n
    <2>4. pc[r] = "opening" => n + 1 <= Len(plan[r])
      BY <1>2, <1>3, <2>1 DEF n
    <2>5. pc[r] \in {"body", "raising", "leaving"} => Len(plan[r]) <= n + 1
      BY <1>3, <2>1 DEF RequestInv, InPlanOrder, n
    <2>. QED BY <1>3, <1>4, <1>5, <2>2, <2>3, <2>4, <2>5 DEF InPlanOrder
  <1>8. WaitsUnheld(r)'
    BY <1>3, <1>4 DEF RequestInv, WaitsUnheld, n
  <1>9. HoldsUnclosed(r)'
    BY <1>3, <1>5 DEF RequestInv, HoldsUnclosed, n
  <1>10. EndedIsTop(r)'
    BY <1>2, <1>3, <1>5 DEF RequestInv, EndedIsTop, n
  <1>11. EndedIsDurable(r)'
    BY <1>3, <1>4, <1>5 DEF RequestInv, EndedIsDurable, n
  <1>12. LeavesById(r)'
    BY <1>2, <1>4 DEF LeavesById
  <1>13. OuterIsLast(r)'
    BY <1>2, <1>3, <1>4, <1>5 DEF RequestInv, OuterIsLast, n
  <1>14. DoneIsClosed(r)'
    BY <1>2, <1>4 DEF DoneIsClosed
  <1>15. AnsweredAtEnd(r)'
    BY <1>4 DEF RequestInv, AnsweredAtEnd
  <1>16. Held' = Held
    <2>1. \A i \in 1..Len(sess'[r]) : sess'[r][i].conn =>
            i \in 1..Len(sess[r]) /\ sess[r][i].conn
      BY <1>3, <1>5 DEF n
    <2>2. \A i \in 1..Len(sess[r]) : sess[r][i].conn =>
            i \in 1..Len(sess'[r]) /\ sess'[r][i].conn
      BY <1>3, <1>6 DEF n
    <2>. QED BY <1>3, <2>1, <2>2, SameHolders
  <1>17. Len(sess[r]) <= Len(sess'[r])
    BY <1>3 DEF n
  <1>18. InjectedOpen(r)'
    BY <1>3, <1>4, <1>5 DEF RequestInv, InjectedOpen, n
  <1>. QED BY <1>3, <1>7, <1>8, <1>9, <1>10, <1>11, <1>12, <1>13, <1>14, <1>15,
              <1>16, <1>17, <1>18
           DEF RequestInv

\* A write is added while the body runs, or a statement of it fails: nothing
\* ended, and nothing is durable that is injected.
LEMMA WriteKeeps ==
  ASSUME TypeOK, NEW r \in Requests, NEW k \in 1..Len(sess[r]), RequestInv(r),
         Add(r, k) \/ \E e \in {"error", "cancel"} : StatementFails(r, k, e)
  PROVE  /\ RequestInv(r)' /\ sess' \in [Requests -> Seq(Sessions)]
         /\ \A u \in Requests : u # r => sess'[u] = sess[u]
         /\ Len(sess[r]) <= Len(sess'[r])
         /\ Held' = Held
  <1>0. sess[r][k] \in Sessions
    BY DEF TypeOK
  <1>1. PICK s \in Sessions :
          /\ Update(r, k, s)
          /\ s.kind = sess[r][k].kind /\ s.conn = sess[r][k].conn
          /\ s.durable = sess[r][k].durable /\ s.phase = sess[r][k].phase
    <2>1. CASE Add(r, k)
      <3>. DEFINE t == [sess[r][k] EXCEPT !.dirty = TRUE]
      <3>1. /\ t \in Sessions /\ t.kind = sess[r][k].kind
            /\ t.conn = sess[r][k].conn /\ t.durable = sess[r][k].durable
            /\ t.phase = sess[r][k].phase
        BY <1>0, Fields
      <3>2. Update(r, k, t)
        BY <2>1 DEF Add
      <3>. HIDE DEF t
      <3>. QED BY <3>1, <3>2
    <2>2. ASSUME NEW e \in {"error", "cancel"}, StatementFails(r, k, e)
          PROVE  Update(r, k, [sess[r][k] EXCEPT !.spoilt = TRUE])
      BY <2>2 DEF StatementFails
    <2>3. CASE Update(r, k, [sess[r][k] EXCEPT !.spoilt = TRUE])
      <3>. DEFINE t == [sess[r][k] EXCEPT !.spoilt = TRUE]
      <3>1. /\ t \in Sessions /\ t.kind = sess[r][k].kind
            /\ t.conn = sess[r][k].conn /\ t.durable = sess[r][k].durable
            /\ t.phase = sess[r][k].phase
        BY <1>0, Fields
      <3>2. Update(r, k, t)
        BY <2>3
      <3>. HIDE DEF t
      <3>. QED BY <3>1, <3>2
    <2>. QED BY <2>1, <2>2, <2>3
  <1>2. /\ sess' \in [Requests -> Seq(Sessions)]
        /\ Len(sess'[r]) = Len(sess[r])
        /\ sess'[r][k] = s
        /\ \A j \in 1..Len(sess[r]) : j # k => sess'[r][j] = sess[r][j]
        /\ \A u \in Requests : u # r => sess'[u] = sess[u]
    BY <1>1, UpdateEffect
  <1>4. /\ pc[r] = "body" /\ pc'[r] \in {"body", "raising"} /\ want[r] = 0
        /\ exc[r] # "none" => exc'[r] # "none"
        /\ want' = want /\ plan' = plan
        /\ answer' = answer /\ sess[r][k].phase # "closed"
    BY DEF Add, StatementFails, Running, Unclosed, TypeOK
  <1>5. InPlanOrder(r)'
    <2>1. \A j \in 1..Len(sess[r]) : sess'[r][j].kind = sess[r][j].kind
      BY <1>1, <1>2
    <2>. QED BY <1>2, <1>4, <2>1 DEF RequestInv, InPlanOrder
  <1>6. WaitsUnheld(r)' /\ LeavesById(r)' /\ DoneIsClosed(r)' /\ AnsweredAtEnd(r)'
    BY <1>4 DEF RequestInv, WaitsUnheld, LeavesById, DoneIsClosed, AnsweredAtEnd
  <1>7. HoldsUnclosed(r)' /\ InjectedOpen(r)'
    <2>1. HoldsUnclosed(r)'
      BY <1>1, <1>2 DEF RequestInv, HoldsUnclosed
    <2>2. \A j \in 1..Len(sess[r]) :
            sess[r][j].kind # "byid" => sess[r][j].phase = "open"
      BY <1>4 DEF RequestInv, InjectedOpen
    <2>3. InjectedOpen(r)'
      BY <1>1, <1>2, <2>2 DEF InjectedOpen
    <2>. QED BY <2>1, <2>3
  <1>8. EndedIsTop(r)' /\ EndedIsDurable(r)'
    <2>1. \A j \in 1..Len(sess[r]) : sess[r][j].phase # "ended"
      BY <1>4 DEF RequestInv, EndedIsTop
    <2>2. sess'[r][k].phase = "open"
      BY <1>0, <1>1, <1>2, <1>4, <2>1, FieldTypes
    <2>3. EndedIsTop(r)'
      BY <1>2, <2>1, <2>2 DEF EndedIsTop
    <2>4. EndedIsDurable(r)'
      BY <1>2, <1>4, <2>2 DEF RequestInv, EndedIsDurable
    <2>. QED BY <2>3, <2>4
  <1>9. OuterIsLast(r)'
    BY <1>1, <1>2, <1>4 DEF RequestInv, OuterIsLast
  <1>10. Held' = Held
    <2>1. \A j \in 1..Len(sess[r]) : sess'[r][j].conn = sess[r][j].conn
      BY <1>1, <1>2
    <2>. QED BY <2>1, <1>2, SameHolders
  <1>11. Len(sess[r]) <= Len(sess'[r])
    BY <1>2 DEF TypeOK
  <1>. QED BY <1>2, <1>5, <1>6, <1>7, <1>8, <1>9, <1>10, <1>11 DEF RequestInv

\* A connection is given to the session that waits, which is not closed.
LEMMA ConnectKeeps ==
  ASSUME TypeOK, NEW r \in Requests, RequestInv(r), Connect(r)
  PROVE  /\ RequestInv(r)' /\ sess' \in [Requests -> Seq(Sessions)]
         /\ \A u \in Requests : u # r => sess'[u] = sess[u]
         /\ Len(sess[r]) <= Len(sess'[r])
         /\ <<r, want[r]>> \notin Held /\ Held' = Held \cup {<<r, want[r]>>}
  <1>. DEFINE k == want[r]
  <1>. DEFINE s == [sess[r][k] EXCEPT !.conn = TRUE]
  <1>0. k \in 1..Len(sess[r])
    BY DEF TypeOK, Connect
  <1>1. /\ s \in Sessions /\ s.conn /\ s.kind = sess[r][k].kind
        /\ s.dirty = sess[r][k].dirty /\ s.durable = sess[r][k].durable
        /\ s.phase = sess[r][k].phase /\ s.spoilt = sess[r][k].spoilt
    <2>1. sess[r][k] \in Sessions
      BY <1>0 DEF TypeOK
    <2>. HIDE DEF s, k
    <2>. QED BY <2>1, Fields DEF s
  <1>2. /\ sess' \in [Requests -> Seq(Sessions)]
        /\ Len(sess'[r]) = Len(sess[r])
        /\ sess'[r][k] = s
        /\ \A j \in 1..Len(sess[r]) : j # k => sess'[r][j] = sess[r][j]
        /\ \A u \in Requests : u # r => sess'[u] = sess[u]
    <2>1. Update(r, k, s)
      BY DEF Connect
    <2>. HIDE DEF s, k
    <2>. QED BY <1>0, <1>1, <2>1, UpdateEffect
  <1>4. /\ want'[r] = 0 /\ pc' = pc /\ exc' = exc /\ plan' = plan
        /\ answer' = answer /\ sess[r][k].phase # "closed"
    BY DEF Connect, TypeOK, RequestInv, WaitsUnheld
  <1>. HIDE DEF s, k
  <1>5. InPlanOrder(r)'
    BY <1>1, <1>2, <1>4 DEF RequestInv, InPlanOrder
  <1>6. WaitsUnheld(r)' /\ AnsweredAtEnd(r)'
    BY <1>4 DEF RequestInv, WaitsUnheld, AnsweredAtEnd
  <1>7. HoldsUnclosed(r)'
    BY <1>1, <1>2, <1>4 DEF RequestInv, HoldsUnclosed
  <1>8. Unclosed(r)' = Unclosed(r)
    BY <1>0, <1>1, <1>2 DEF Unclosed
  <1>9. EndedIsTop(r)'
    BY <1>1, <1>2, <1>4, <1>8 DEF RequestInv, EndedIsTop, Top
  <1>10. LeavesById(r)' /\ DoneIsClosed(r)'
    BY <1>1, <1>2, <1>4, <1>8 DEF RequestInv, LeavesById, DoneIsClosed, Top
  <1>11. EndedIsDurable(r)' /\ InjectedOpen(r)'
    BY <1>1, <1>2, <1>4 DEF RequestInv, EndedIsDurable, InjectedOpen
  <1>12. OuterIsLast(r)'
    <2>1. \A j \in 1..Len(sess[r]) :
            /\ sess'[r][j].durable = sess[r][j].durable
            /\ sess'[r][j].spoilt = sess[r][j].spoilt
            /\ sess'[r][j].dirty = sess[r][j].dirty
            /\ sess'[r][j].phase = sess[r][j].phase
      BY <1>1, <1>2
    <2>2. Len(sess'[r]) = Len(sess[r]) /\ plan'[r] = plan[r] /\ pc'[r] = pc[r]
      BY <1>2, <1>4
    <2>. QED BY <2>1, <2>2 DEF RequestInv, OuterIsLast
  <1>13. <<r, k>> \notin Held
    <2>1. ~sess[r][k].conn
      BY DEF k, Connect, RequestInv, WaitsUnheld
    <2>. QED BY <2>1, HeldIs
  <1>14. Held' = Held \cup {<<r, k>>}
    <2>1. \A h : h \in Held' <=>
            \E u \in Requests : \E i \in 1..Len(sess'[u]) :
              sess'[u][i].conn /\ h = <<u, i>>
      BY DEF Held
    <2>2. ASSUME NEW h \in Held' PROVE h \in Held \cup {<<r, k>>}
      <3>0. PICK u \in Requests : \E i \in 1..Len(sess'[u]) :
              sess'[u][i].conn /\ h = <<u, i>>
        BY <2>1, <2>2
      <3>1. PICK i \in 1..Len(sess'[u]) : sess'[u][i].conn /\ h = <<u, i>>
        BY <3>0
      <3>2. CASE u = r /\ i = k
        BY <3>1, <3>2
      <3>3. CASE ~(u = r /\ i = k)
        <4>1. i \in 1..Len(sess[u]) /\ sess'[u][i] = sess[u][i]
          BY <3>3, <1>2
        <4>. QED BY <3>1, <4>1, HeldIs
      <3>. QED BY <3>2, <3>3
    <2>3. ASSUME NEW h \in Held PROVE h \in Held'
      <3>0. PICK u \in Requests : \E i \in 1..Len(sess[u]) :
              sess[u][i].conn /\ h = <<u, i>>
        BY <2>3, HeldIs
      <3>1. PICK i \in 1..Len(sess[u]) : sess[u][i].conn /\ h = <<u, i>>
        BY <3>0
      <3>2. i \in 1..Len(sess'[u]) /\ sess'[u][i].conn
        BY <3>1, <1>1, <1>2
      <3>. QED BY <3>1, <3>2, <2>1
    <2>4. <<r, k>> \in Held'
      BY <2>1, <1>0, <1>1, <1>2
    <2>. QED BY <2>2, <2>3, <2>4
  <1>15. Len(sess[r]) <= Len(sess'[r])
    BY <1>2 DEF TypeOK
  <1>. QED BY <1>2, <1>5, <1>6, <1>7, <1>9, <1>10, <1>11, <1>12, <1>13, <1>14, <1>15
           DEF RequestInv, k

\* The innermost session's transaction is decided: the one place where writes
\* become durable.  All that was made later is closed, and committed unless
\* something propagates.
LEMMA EndKeeps ==
  ASSUME TypeOK, NEW r \in Requests, NEW k \in 1..Len(sess[r]), RequestInv(r),
         Commit(r, k) \/ CommitFails(r, k) \/ CommitCancelled(r, k) \/ Rollback(r, k)
  PROVE  /\ RequestInv(r)' /\ sess' \in [Requests -> Seq(Sessions)]
         /\ \A u \in Requests : u # r => sess'[u] = sess[u]
         /\ Len(sess[r]) <= Len(sess'[r])
         /\ Held' = Held
  <1>1. sess[r][k] \in Sessions
    BY DEF TypeOK
  <1>2. PICK s \in Sessions :
          /\ Update(r, k, s) /\ pc' = pc
          /\ s.kind = sess[r][k].kind /\ s.dirty = sess[r][k].dirty
          /\ s.conn = sess[r][k].conn
          /\ \/ /\ s.phase = "ended" /\ exc' = exc
                /\ exc[r] = "none" => /\ s.durable = Kept(sess[r][k])
                                      /\ s.spoilt = sess[r][k].spoilt
                /\ exc[r] # "none" =>
                     /\ s.durable = sess[r][k].durable
                     /\ s.spoilt = (sess[r][k].spoilt \/ sess[r][k].kind = "byid")
             \/ /\ s.phase = "open" /\ exc[r] = "none" /\ exc'[r] # "none"
                /\ s.durable \in {FALSE, Kept(sess[r][k])}
                /\ s.spoilt = sess[r][k].spoilt
    <2>1. CASE Commit(r, k)
      <3>1. Kept(sess[r][k]) \in BOOLEAN
        BY <1>1, FieldTypes
      <3>2. /\ Update(r, k, Ended(sess[r][k], Kept(sess[r][k])))
            /\ pc' = pc /\ exc' = exc /\ exc[r] = "none"
        BY <1>1, <2>1 DEF Commit
      <3>. DEFINE e == Ended(sess[r][k], Kept(sess[r][k]))
      <3>3. e \in Sessions
        BY <1>1, <3>1, Fields
      <3>4. /\ e.kind = sess[r][k].kind /\ e.dirty = sess[r][k].dirty
            /\ e.conn = sess[r][k].conn /\ e.phase = "ended"
            /\ e.durable = Kept(sess[r][k]) /\ e.spoilt = sess[r][k].spoilt
        BY <1>1, <3>1 DEF Ended, Sessions
      <3>. HIDE DEF e
      <3>. WITNESS e \in Sessions
      <3>. QED BY <3>2, <3>4 DEF e
    <2>2. CASE CommitFails(r, k)
      <3>1. PICK d \in {FALSE, Kept(sess[r][k])} :
              Update(r, k, [sess[r][k] EXCEPT !.durable = d])
        BY <2>2 DEF CommitFails
      <3>2. d \in BOOLEAN
        BY <1>1, FieldTypes
      <3>3. /\ exc[r] = "none" /\ exc'[r] # "none" /\ pc' = pc
            /\ sess[r][k].phase = "open"
        BY <2>2 DEF CommitFails, TypeOK
      <3>. DEFINE e == [sess[r][k] EXCEPT !.durable = d]
      <3>4. e \in Sessions
        BY <1>1, <3>2, Fields
      <3>5. /\ e.kind = sess[r][k].kind /\ e.dirty = sess[r][k].dirty
            /\ e.conn = sess[r][k].conn /\ e.phase = "open" /\ e.durable = d
            /\ e.spoilt = sess[r][k].spoilt
        BY <1>1, <3>2, <3>3, Fields
      <3>6. Update(r, k, e)
        BY <3>1
      <3>. HIDE DEF e
      <3>. WITNESS e \in Sessions
      <3>. QED BY <3>1, <3>3, <3>5, <3>6
    <2>3. CASE CommitCancelled(r, k)
      <3>1. PICK d \in {FALSE, Kept(sess[r][k])} :
              Update(r, k, [sess[r][k] EXCEPT !.durable = d])
        BY <2>3 DEF CommitCancelled
      <3>2. d \in BOOLEAN
        BY <1>1, FieldTypes
      <3>3. /\ exc[r] = "none" /\ exc'[r] # "none" /\ pc' = pc
            /\ sess[r][k].phase = "open"
        BY <2>3 DEF CommitCancelled, TypeOK
      <3>. DEFINE e == [sess[r][k] EXCEPT !.durable = d]
      <3>4. e \in Sessions
        BY <1>1, <3>2, Fields
      <3>5. /\ e.kind = sess[r][k].kind /\ e.dirty = sess[r][k].dirty
            /\ e.conn = sess[r][k].conn /\ e.phase = "open" /\ e.durable = d
            /\ e.spoilt = sess[r][k].spoilt
        BY <1>1, <3>2, <3>3, Fields
      <3>6. Update(r, k, e)
        BY <3>1
      <3>. HIDE DEF e
      <3>. WITNESS e \in Sessions
      <3>. QED BY <3>1, <3>3, <3>5, <3>6
    <2>4. CASE Rollback(r, k)
      <3>1. sess[r][k].durable \in BOOLEAN
        BY <1>1, FieldTypes
      <3>. DEFINE f == Ended(sess[r][k], sess[r][k].durable)
                  e == GivenUp(f)
      <3>2. Update(r, k, e) /\ pc' = pc /\ exc' = exc /\ exc[r] # "none"
        BY <1>1, <2>4 DEF Rollback
      <3>3. /\ f \in Sessions /\ f.kind = sess[r][k].kind
            /\ f.dirty = sess[r][k].dirty /\ f.conn = sess[r][k].conn
            /\ f.phase = "ended" /\ f.durable = sess[r][k].durable
            /\ f.spoilt = sess[r][k].spoilt
        BY <1>1, <3>1 DEF Ended, Sessions
      <3>. HIDE DEF f
      <3>4. e \in Sessions
        BY <3>3 DEF GivenUp, Sessions
      <3>5. /\ e.kind = f.kind
            /\ e.dirty = f.dirty /\ e.conn = f.conn
            /\ e.phase = f.phase /\ e.durable = f.durable
            /\ e.spoilt = (f.spoilt \/ f.kind = "byid")
        BY <3>3 DEF GivenUp, Sessions
      <3>. HIDE DEF e
      <3>. WITNESS e \in Sessions
      <3>. QED BY <3>2, <3>3, <3>5
    <2>. QED BY <2>1, <2>2, <2>3, <2>4
  <1>3. /\ sess' \in [Requests -> Seq(Sessions)]
        /\ Len(sess'[r]) = Len(sess[r])
        /\ sess'[r][k] = s
        /\ \A j \in 1..Len(sess[r]) : j # k => sess'[r][j] = sess[r][j]
        /\ \A u \in Requests : u # r => sess'[u] = sess[u]
    BY <1>2, UpdateEffect
  <1>4. /\ Top(r, k) /\ pc[r] \in {"leaving", "exiting"} /\ want[r] = 0
        /\ want' = want /\ plan' = plan /\ answer' = answer
        /\ sess[r][k].phase = "open"
    BY DEF Commit, CommitFails, CommitCancelled, Rollback, Leaves
  <1>5. InPlanOrder(r)'
    <2>1. \A j \in 1..Len(sess[r]) : sess'[r][j].kind = sess[r][j].kind
      BY <1>2, <1>3
    <2>. QED BY <2>1, <1>2, <1>3, <1>4 DEF RequestInv, InPlanOrder
  <1>6. WaitsUnheld(r)'
    BY <1>4 DEF WaitsUnheld
  <1>7. HoldsUnclosed(r)'
    BY <1>2, <1>3 DEF RequestInv, HoldsUnclosed
  <1>8. Unclosed(r)' = Unclosed(r)
    BY <1>2, <1>3, <1>4 DEF Unclosed
  <1>9. EndedIsTop(r)'
    BY <1>2, <1>3, <1>4, <1>8 DEF RequestInv, EndedIsTop, Top
  <1>10. EndedIsDurable(r)' /\ InjectedOpen(r)'
    <2>1. /\ sess[r][k].dirty \in BOOLEAN /\ sess[r][k].spoilt \in BOOLEAN
          /\ s.durable \in BOOLEAN /\ s.spoilt \in BOOLEAN
      BY <1>1, FieldTypes
    <2>2. s.phase # "open" /\ s.dirty =>
            \/ s.durable \/ s.spoilt
            \/ exc'[r] # "none" /\ s.kind # "byid"
      BY <1>2, <2>1 DEF Kept
    <2>3. exc[r] # "none" => exc'[r] # "none"
      BY <1>2
    <2>4. EndedIsDurable(r)'
      BY <1>3, <2>2, <2>3 DEF RequestInv, EndedIsDurable
    <2>5. InjectedOpen(r)'
      BY <1>2, <1>3, <1>4 DEF RequestInv, InjectedOpen, LeavesById
    <2>. QED BY <2>4, <2>5
  <1>11. LeavesById(r)'
    BY <1>2, <1>3, <1>4, <1>8 DEF RequestInv, LeavesById, Top
  <1>12. DoneIsClosed(r)'
    BY <1>2, <1>4 DEF DoneIsClosed
  <1>13. OuterIsLast(r)'
    <2>1. \A j \in 1..Len(sess[r]) : j > k => sess[r][j].phase = "closed"
      BY <1>4 DEF Top, Unclosed
    <2>2. \A j \in 1..Len(sess[r]) : j < k => ~(j <= Len(plan[r]) /\ sess[r][j].durable)
      BY <1>4 DEF RequestInv, OuterIsLast
    <2>3. k <= Len(plan[r]) => pc'[r] = "exiting"
      <3>1. plan[r] \in Seq({"public", "tenant"})
        BY ConstantAssumption DEF TypeOK
      <3>2. k <= Len(plan[r]) => plan[r][k] # "byid"
        BY <3>1
      <3>3. k <= Len(plan[r]) => sess[r][k].kind # "byid"
        BY <3>2 DEF RequestInv, InPlanOrder
      <3>4. pc[r] = "leaving" => sess[r][k].kind = "byid"
        BY <1>4 DEF RequestInv, LeavesById
      <3>5. pc'[r] = "exiting" \/ pc[r] = "leaving"
        BY <1>2, <1>4
      <3>. QED BY <3>3, <3>4, <3>5
    <2>4. s.durable => exc[r] = "none" \/ sess[r][k].durable
      BY <1>2, <1>4
    <2>5. exc[r] = "none" => \A j \in 1..Len(sess[r]) :
                               j > k /\ sess[r][j].dirty =>
                                 sess[r][j].durable \/ sess[r][j].spoilt
      BY <2>1 DEF RequestInv, EndedIsDurable
    <2>. SUFFICES ASSUME NEW j \in 1..Len(sess[r]),
                         j <= Len(plan[r]), sess'[r][j].durable
                  PROVE  /\ pc'[r] \in {"exiting", "done"}
                         /\ \A i \in 1..Len(sess[r]) : i > j =>
                              /\ sess'[r][i].phase = "closed"
                              /\ sess'[r][i].dirty =>
                                   sess'[r][i].durable \/ sess'[r][i].spoilt
      BY <1>3, <1>4 DEF OuterIsLast
    <2>6. CASE j < k
      <3>1. sess[r][j].durable
        BY <2>6, <1>3
      <3>2. ~sess[r][j].durable
        BY <2>2, <2>6
      <3>. QED BY <3>1, <3>2
    <2>7. CASE j = k
      <3>1. pc'[r] = "exiting"
        BY <2>3, <2>7, <1>3
      <3>2. \A i \in 1..Len(sess[r]) : i > k =>
              /\ sess[r][i].phase = "closed"
              /\ sess[r][i].dirty =>
                   sess[r][i].durable \/ sess[r][i].spoilt
        BY <2>1, <2>4, <2>5, <2>7, <1>3 DEF RequestInv, OuterIsLast
      <3>. QED BY <3>1, <3>2, <2>7, <1>3
    <2>8. CASE j > k
      <3>1. sess[r][j].durable
        BY <2>8, <1>3
      <3>2. /\ pc[r] \in {"exiting", "done"}
            /\ \A i \in 1..Len(sess[r]) : i > j =>
                 /\ sess[r][i].phase = "closed"
                 /\ sess[r][i].dirty =>
                      sess[r][i].durable \/ sess[r][i].spoilt
        BY <3>1 DEF RequestInv, OuterIsLast
      <3>3. pc'[r] = pc[r]
        BY <1>2
      <3>. QED BY <3>2, <3>3, <2>8, <1>3
    <2>. QED BY <2>6, <2>7, <2>8
  <1>14. AnsweredAtEnd(r)'
    BY <1>2, <1>4 DEF RequestInv, AnsweredAtEnd
  <1>15. Held' = Held
    <2>1. \A j \in 1..Len(sess[r]) : sess'[r][j].conn = sess[r][j].conn
      BY <1>2, <1>3
    <2>. QED BY <2>1, <1>3, SameHolders
  <1>16. Len(sess[r]) <= Len(sess'[r])
    BY <1>3 DEF TypeOK
  <1>. QED BY <1>3, <1>5, <1>6, <1>7, <1>9, <1>10, <1>11, <1>12, <1>13, <1>14,
              <1>15, <1>16
           DEF RequestInv

\* What is closed, ended before or not.
LEMMA ClosedEffect ==
  ASSUME TypeOK, NEW r \in Requests, NEW k \in 1..Len(sess[r]), Close(r, k)
  PROVE  \E s \in Sessions :
           /\ Update(r, k, s)
           /\ s.phase = "closed" /\ s.conn = FALSE
           /\ s.kind = sess[r][k].kind /\ s.schema = sess[r][k].schema
           /\ s.dirty = sess[r][k].dirty /\ s.durable = sess[r][k].durable
           /\ s.spoilt = IF sess[r][k].phase = "ended" THEN sess[r][k].spoilt
                         ELSE sess[r][k].spoilt \/ sess[r][k].kind = "byid"
  <1>. DEFINE f == Closed(sess[r][k])
              e == GivenUp(f)
  <1>1. sess[r][k] \in Sessions
    BY DEF TypeOK
  <1>2. f \in Sessions
    BY <1>1, Fields
  <1>7. /\ f.phase = "closed" /\ f.conn = FALSE
        /\ f.kind = sess[r][k].kind /\ f.schema = sess[r][k].schema
        /\ f.dirty = sess[r][k].dirty /\ f.durable = sess[r][k].durable
        /\ f.spoilt = sess[r][k].spoilt
    BY <1>1, Fields
  <1>3. Update(r, k, IF sess[r][k].phase = "ended" THEN f ELSE e)
    BY DEF Close
  <1>. HIDE DEF f
  <1>4. e \in Sessions
    BY <1>2 DEF GivenUp, Sessions
  <1>8. /\ e.phase = f.phase /\ e.conn = f.conn
        /\ e.kind = f.kind /\ e.schema = f.schema
        /\ e.dirty = f.dirty /\ e.durable = f.durable
        /\ e.spoilt = (f.spoilt \/ f.kind = "byid")
    BY <1>2 DEF GivenUp, Sessions
  <1>. HIDE DEF e
  <1>5. CASE sess[r][k].phase = "ended"
    <2>. WITNESS f \in Sessions
    <2>. QED BY <1>3, <1>5, <1>7
  <1>6. CASE sess[r][k].phase # "ended"
    <2>. WITNESS e \in Sessions
    <2>. QED BY <1>3, <1>6, <1>7, <1>8
  <1>. QED BY <1>5, <1>6

\* A session is closed once it was ended, or when the request is cancelled; its
\* connection goes back, and a by-id block returns to the body, which may catch
\* what the block raised.
LEMMA CloseKeeps ==
  ASSUME TypeOK, NEW r \in Requests, NEW k \in 1..Len(sess[r]), RequestInv(r),
         Close(r, k)
  PROVE  /\ RequestInv(r)' /\ sess' \in [Requests -> Seq(Sessions)]
         /\ \A u \in Requests : u # r => sess'[u] = sess[u]
         /\ Len(sess[r]) <= Len(sess'[r])
         /\ ~sess[r][k].conn => Held' = Held
         /\ sess[r][k].conn => <<r, k>> \in Held /\ Held' = Held \ {<<r, k>>}
  <1>0. sess[r][k] \in Sessions
    BY DEF TypeOK
  <1>1. PICK s \in Sessions :
          /\ Update(r, k, s)
          /\ s.phase = "closed" /\ s.conn = FALSE
          /\ s.kind = sess[r][k].kind /\ s.dirty = sess[r][k].dirty
          /\ s.durable = sess[r][k].durable
          /\ s.spoilt = IF sess[r][k].phase = "ended" THEN sess[r][k].spoilt
                        ELSE sess[r][k].spoilt \/ sess[r][k].kind = "byid"
    BY ClosedEffect
  <1>2. /\ sess' \in [Requests -> Seq(Sessions)]
        /\ Len(sess'[r]) = Len(sess[r])
        /\ sess'[r][k] = s
        /\ \A j \in 1..Len(sess[r]) : j # k => sess'[r][j] = sess[r][j]
        /\ \A u \in Requests : u # r => sess'[u] = sess[u]
    BY <1>1, UpdateEffect
  <1>3. /\ Top(r, k) /\ pc[r] \in {"leaving", "exiting"} /\ want'[r] = 0
        /\ pc'[r] = IF pc[r] # "leaving" THEN "exiting"
                    ELSE IF exc[r] = "none" THEN "body" ELSE "raising"
        /\ exc' = exc /\ plan' = plan /\ answer' = answer
        /\ sess[r][k].phase = "ended" \/ exc[r] = "cancel"
    BY DEF Close, Leaves, Returned, TypeOK
  <1>4. InPlanOrder(r)'
    <2>1. \A j \in 1..Len(sess[r]) : sess'[r][j].kind = sess[r][j].kind
      BY <1>1, <1>2
    <2>2. \/ pc'[r] = "exiting"
          \/ pc'[r] \in {"body", "raising"} /\ pc[r] = "leaving"
      BY <1>3
    <2>. QED BY <2>1, <2>2, <1>2, <1>3 DEF RequestInv, InPlanOrder
  <1>5. WaitsUnheld(r)' /\ LeavesById(r)' /\ DoneIsClosed(r)' /\ AnsweredAtEnd(r)'
    BY <1>3 DEF RequestInv, WaitsUnheld, LeavesById, DoneIsClosed, AnsweredAtEnd
  <1>6. HoldsUnclosed(r)'
    BY <1>1, <1>2 DEF RequestInv, HoldsUnclosed
  <1>7. EndedIsTop(r)'
    <2>1. \A j \in 1..Len(sess[r]) : j # k => sess[r][j].phase # "ended"
      <3>1. ASSUME NEW j \in 1..Len(sess[r]), Top(r, j) PROVE j = k
        BY <1>3, <3>1 DEF Top, Unclosed
      <3>. QED BY <3>1 DEF RequestInv, EndedIsTop
    <2>. QED BY <1>1, <1>2, <2>1 DEF EndedIsTop
  <1>8. EndedIsDurable(r)' /\ InjectedOpen(r)'
    <2>1. /\ sess[r][k].spoilt \in BOOLEAN /\ s.spoilt \in BOOLEAN
          /\ sess[r][k].phase \in {"open", "ended", "closed"}
      BY <1>0, FieldTypes
    <2>2. s.dirty => \/ s.durable \/ s.spoilt
                     \/ exc[r] # "none" /\ s.kind # "byid"
      BY <1>1, <1>3, <2>1 DEF RequestInv, EndedIsDurable
    <2>3. EndedIsDurable(r)'
      BY <1>2, <1>3, <2>2 DEF RequestInv, EndedIsDurable
    <2>4. InjectedOpen(r)'
      BY <1>1, <1>2, <1>3 DEF RequestInv, InjectedOpen, LeavesById
    <2>. QED BY <2>3, <2>4
  <1>9. OuterIsLast(r)'
    <2>. SUFFICES ASSUME NEW j \in 1..Len(sess[r]),
                         j <= Len(plan[r]), sess'[r][j].durable
                  PROVE  /\ pc'[r] \in {"exiting", "done"}
                         /\ \A i \in 1..Len(sess[r]) : i > j =>
                              /\ sess'[r][i].phase = "closed"
                              /\ sess'[r][i].dirty =>
                                   sess'[r][i].durable \/ sess'[r][i].spoilt
      BY <1>2, <1>3 DEF OuterIsLast
    <2>1. sess[r][j].durable
      BY <1>1, <1>2
    <2>2. /\ pc[r] \in {"exiting", "done"}
          /\ \A i \in 1..Len(sess[r]) : i > j =>
               /\ sess[r][i].phase = "closed"
               /\ sess[r][i].dirty =>
                    sess[r][i].durable \/ sess[r][i].spoilt
      BY <2>1 DEF RequestInv, OuterIsLast
    <2>3. sess[r][k].spoilt => s.spoilt
      BY <1>1
    <2>. QED BY <2>2, <2>3, <1>1, <1>2, <1>3
  <1>10. ~sess[r][k].conn => Held' = Held
    <2>. SUFFICES ASSUME ~sess[r][k].conn PROVE Held' = Held
      OBVIOUS
    <2>1. \A j \in 1..Len(sess[r]) : sess'[r][j].conn <=> sess[r][j].conn
      BY <1>1, <1>2
    <2>. QED BY <2>1, <1>2, SameHolders
  <1>11. sess[r][k].conn => <<r, k>> \in Held /\ Held' = Held \ {<<r, k>>}
    <2>. SUFFICES ASSUME sess[r][k].conn
                  PROVE  <<r, k>> \in Held /\ Held' = Held \ {<<r, k>>}
      OBVIOUS
    <2>1. \A h : h \in Held' <=>
            \E u \in Requests : \E i \in 1..Len(sess'[u]) :
              sess'[u][i].conn /\ h = <<u, i>>
      BY DEF Held
    <2>2. <<r, k>> \in Held
      BY HeldIs
    <2>3. ASSUME NEW h \in Held' PROVE h \in Held \ {<<r, k>>}
      <3>0. PICK u \in Requests : \E i \in 1..Len(sess'[u]) :
              sess'[u][i].conn /\ h = <<u, i>>
        BY <2>1, <2>3
      <3>1. PICK i \in 1..Len(sess'[u]) : sess'[u][i].conn /\ h = <<u, i>>
        BY <3>0
      <3>2. ~(u = r /\ i = k)
        BY <3>1, <1>1, <1>2
      <3>3. i \in 1..Len(sess[u]) /\ sess'[u][i] = sess[u][i]
        BY <3>2, <1>2
      <3>. QED BY <3>1, <3>2, <3>3, HeldIs
    <2>4. ASSUME NEW h \in Held, h # <<r, k>> PROVE h \in Held'
      <3>0. PICK u \in Requests : \E i \in 1..Len(sess[u]) :
              sess[u][i].conn /\ h = <<u, i>>
        BY <2>4, HeldIs
      <3>1. PICK i \in 1..Len(sess[u]) : sess[u][i].conn /\ h = <<u, i>>
        BY <3>0
      <3>2. i \in 1..Len(sess'[u]) /\ sess'[u][i].conn
        BY <3>1, <2>4, <1>2
      <3>. QED BY <3>1, <3>2, <2>1
    <2>. QED BY <2>2, <2>3, <2>4
  <1>12. Len(sess[r]) <= Len(sess'[r])
    BY <1>2 DEF TypeOK
  <1>. QED BY <1>2, <1>4, <1>5, <1>6, <1>7, <1>8, <1>9, <1>10, <1>11, <1>12
           DEF RequestInv

-----------------------------------------------------------------------------
(* The invariant. *)

LEMMA InitIInv == Init => IInv
  <1>. SUFFICES ASSUME Init PROVE IInv
    OBVIOUS
  <1>1. TypeOK
    BY ConstantAssumption DEF Init, TypeOK
  <1>2. Held = {}
    BY HeldIs DEF Init
  <1>3. PoolCounts
    BY <1>2, FS_EmptySet DEF Init, PoolCounts
  <1>4. ASSUME NEW r \in Requests PROVE RequestInv(r)
    <2>1. Len(plan[r]) \in Nat
      BY ConstantAssumption DEF Init
    <2>. QED BY <2>1
    DEF Init, RequestInv, InPlanOrder, WaitsUnheld, HoldsUnclosed, EndedIsTop,
        EndedIsDurable, InjectedOpen, LeavesById, OuterIsLast, DoneIsClosed,
         AnsweredAtEnd
  <1>. QED BY <1>1, <1>3, <1>4 DEF IInv

\* A step of r leaves alone what is known of the other requests.
LEMMA OthersUnchanged ==
  ASSUME TypeOK, NEW r \in Requests, Progress(r) \/ Choice(r)
  PROVE  /\ plan' = plan
         /\ \A u \in Requests : u # r =>
              /\ pc'[u] = pc[u] /\ exc'[u] = exc[u]
              /\ want'[u] = want[u] /\ answer'[u] = answer[u]
  BY DEF Progress, Choice, InjectPublic, InjectTenant, InjectTenantFails,
         StartBody, SetTenant, Add, Execute, EnterById, LeaveById, Return, Raise,
         StatementFails, Cancel, Catch, Unwind, Connect, PoolTimeout, Flush,
         Commit, CommitFails, CommitCancelled, CommitRefused, Rollback, Close,
         Finish, TypeOK

\* What a step makes of a request's own control state has its type.
LEMMA ControlTypes ==
  ASSUME TypeOK, NEW r \in Requests, Progress(r) \/ Choice(r)
  PROVE  /\ pc' \in [Requests -> {"opening", "body", "raising", "leaving", "exiting", "done"}]
         /\ exc' \in [Requests -> {"none", "error", "cancel"}]
         /\ tenant' \in [Requests -> Tenants \cup {NoTenant}]
         /\ caught' \in [Requests -> 0..MaxCatch]
         /\ want' \in [Requests -> Nat] /\ want'[r] <= Len(sess[r])
         /\ answer' \in [Requests -> {"none", "ok", "error"}]
  <1>. USE DEF Progress, Choice, InjectPublic, InjectTenant, InjectTenantFails,
         StartBody, SetTenant, Add, Execute, EnterById, LeaveById, Return, Raise,
         StatementFails, Cancel, Catch, Unwind, Connect, PoolTimeout, Flush,
         Commit, CommitFails, CommitCancelled, CommitRefused, Rollback, Close,
         Finish
  <1>1. pc' \in [Requests -> {"opening", "body", "raising", "leaving", "exiting", "done"}]
    BY DEF TypeOK, Returned
  <1>2. exc' \in [Requests -> {"none", "error", "cancel"}]
    BY DEF TypeOK
  <1>3. tenant' \in [Requests -> Tenants \cup {NoTenant}]
    BY DEF TypeOK
  <1>6. caught' \in [Requests -> 0..MaxCatch]
    <2>1. CASE Catch(r)
      <3>1. caught[r] + 1 \in 0..MaxCatch
        BY <2>1, ConstantAssumption DEF TypeOK
      <3>. QED BY <2>1, <3>1 DEF TypeOK
    <2>2. CASE ~Catch(r)
      BY <2>2 DEF TypeOK
    <2>. QED BY <2>1, <2>2
  <1>4. want' \in [Requests -> Nat] /\ want'[r] <= Len(sess[r])
    <2>1. Len(sess[r]) \in Nat
      BY DEF TypeOK
    <2>2. \E w \in 0..Len(sess[r]) : want' = [want EXCEPT ![r] = w]
      <3>1. want[r] \in 0..Len(sess[r]) /\ want = [want EXCEPT ![r] = want[r]]
        BY <2>1 DEF TypeOK
      <3>2. 0 \in 0..Len(sess[r]) /\ 1..Len(sess[r]) \subseteq 0..Len(sess[r])
        BY <2>1
      <3>. QED BY <3>1, <3>2
    <2>. QED BY <2>1, <2>2 DEF TypeOK
  <1>5. answer' \in [Requests -> {"none", "ok", "error"}]
    BY DEF TypeOK
  <1>. QED BY <1>1, <1>2, <1>3, <1>4, <1>5, <1>6

\* The pool's count and its bound: a connection is given only below the limit,
\* and only what is held is returned.
LEMMA PoolStep ==
  ASSUME IInv, NEW r \in Requests, Progress(r) \/ Choice(r)
  PROVE  /\ sess' \in [Requests -> Seq(Sessions)]
         /\ \A u \in Requests : u # r => sess'[u] = sess[u]
         /\ Len(sess[r]) <= Len(sess'[r])
         /\ RequestInv(r)'
         /\ PoolCounts' /\ inUse' \in 0..(PoolSize + MaxOverflow)
  <1>1. TypeOK /\ RequestInv(r) /\ PoolCounts
    BY DEF IInv
  <1>2. CASE \/ InjectTenantFails(r) \/ StartBody(r) \/ LeaveById(r) \/ Return(r)
             \/ Unwind(r) \/ PoolTimeout(r) \/ Finish(r) \/ Raise(r) \/ Cancel(r)
             \/ Catch(r) \/ \E x \in Tenants : SetTenant(r, x)
             \/ \E k \in 1..Len(sess[r]) :
                  Execute(r, k) \/ Flush(r, k) \/ CommitRefused(r, k)
    <2>1. sess' = sess /\ inUse' = inUse
      BY <1>2 DEF InjectTenantFails, StartBody, LeaveById, Return, Unwind, PoolTimeout,
           Finish, Raise, Cancel, Catch, SetTenant, Execute, Flush, CommitRefused
    <2>2. Held' = Held
      BY <2>1 DEF Held
    <2>3. RequestInv(r)'
      BY <1>1, <1>2, SameSessionsKeep
    <2>. QED BY <1>1, <2>1, <2>2, <2>3 DEF TypeOK, PoolCounts
  <1>3. CASE \/ InjectPublic(r) \/ InjectTenant(r)
             \/ \E x \in Tenants \cup {NoTenant} : EnterById(r, x)
    <2>1. inUse' = inUse
      BY <1>3 DEF InjectPublic, InjectTenant, EnterById
    <2>. QED BY <1>1, <1>3, <2>1, ConstantAssumption, GiveKeeps
         DEF TypeOK, PoolCounts
  <1>4. ASSUME NEW k \in 1..Len(sess[r]),
               Add(r, k) \/ \E e \in {"error", "cancel"} : StatementFails(r, k, e)
        PROVE  /\ sess' \in [Requests -> Seq(Sessions)]
               /\ \A u \in Requests : u # r => sess'[u] = sess[u]
               /\ Len(sess[r]) <= Len(sess'[r]) /\ RequestInv(r)'
               /\ PoolCounts' /\ inUse' \in 0..(PoolSize + MaxOverflow)
    <2>1. inUse' = inUse
      BY <1>4 DEF Add, StatementFails
    <2>. QED BY <1>1, <1>4, <2>1, WriteKeeps DEF TypeOK, PoolCounts
  <1>5. ASSUME NEW k \in 1..Len(sess[r]),
               Commit(r, k) \/ CommitFails(r, k) \/ CommitCancelled(r, k) \/ Rollback(r, k)
        PROVE  /\ sess' \in [Requests -> Seq(Sessions)]
               /\ \A u \in Requests : u # r => sess'[u] = sess[u]
               /\ Len(sess[r]) <= Len(sess'[r]) /\ RequestInv(r)'
               /\ PoolCounts' /\ inUse' \in 0..(PoolSize + MaxOverflow)
    <2>1. inUse' = inUse
      BY <1>5 DEF Commit, CommitFails, CommitCancelled, Rollback
    <2>. QED BY <1>1, <1>5, <2>1, EndKeeps DEF TypeOK, PoolCounts
  <1>6. CASE Connect(r)
    <2>1. inUse' = inUse + 1 /\ inUse < PoolSize + MaxOverflow
      BY <1>6 DEF Connect
    <2>2. /\ sess' \in [Requests -> Seq(Sessions)]
          /\ \A u \in Requests : u # r => sess'[u] = sess[u]
          /\ Len(sess[r]) <= Len(sess'[r]) /\ RequestInv(r)'
          /\ <<r, want[r]>> \notin Held /\ Held' = Held \cup {<<r, want[r]>>}
      BY <1>1, <1>6, ConnectKeeps
    <2>3. IsFiniteSet(Held') /\ Cardinality(Held') = Cardinality(Held) + 1
      BY <1>1, <2>2, FS_AddElement DEF PoolCounts
    <2>4. inUse' \in 0..(PoolSize + MaxOverflow)
      BY <1>1, <2>1, ConstantAssumption DEF TypeOK
    <2>. QED BY <1>1, <2>1, <2>2, <2>3, <2>4 DEF PoolCounts
  <1>7. ASSUME NEW k \in 1..Len(sess[r]), Close(r, k)
        PROVE  /\ sess' \in [Requests -> Seq(Sessions)]
               /\ \A u \in Requests : u # r => sess'[u] = sess[u]
               /\ Len(sess[r]) <= Len(sess'[r]) /\ RequestInv(r)'
               /\ PoolCounts' /\ inUse' \in 0..(PoolSize + MaxOverflow)
    <2>1. inUse' = inUse - (IF sess[r][k].conn THEN 1 ELSE 0)
      BY <1>7 DEF Close
    <2>2. /\ sess' \in [Requests -> Seq(Sessions)]
          /\ \A u \in Requests : u # r => sess'[u] = sess[u]
          /\ Len(sess[r]) <= Len(sess'[r]) /\ RequestInv(r)'
          /\ ~sess[r][k].conn => Held' = Held
          /\ sess[r][k].conn => <<r, k>> \in Held /\ Held' = Held \ {<<r, k>>}
      BY <1>1, <1>7, CloseKeeps
    <2>3. CASE ~sess[r][k].conn
      BY <1>1, <2>1, <2>2, <2>3 DEF PoolCounts, TypeOK
    <2>4. CASE sess[r][k].conn
      <3>1. /\ IsFiniteSet(Held') /\ Cardinality(Held') = Cardinality(Held) - 1
            /\ Cardinality(Held') \in Nat
        <4>1. IsFiniteSet(Held) /\ <<r, k>> \in Held
          BY <1>1, <2>2, <2>4 DEF PoolCounts
        <4>2. /\ IsFiniteSet(Held \ {<<r, k>>})
              /\ Cardinality(Held \ {<<r, k>>}) = Cardinality(Held) - 1
          BY <4>1, FS_RemoveElement
        <4>3. Cardinality(Held \ {<<r, k>>}) \in Nat
          BY <4>2, FS_CardinalityType
        <4>. QED BY <2>2, <2>4, <4>2, <4>3
      <3>2. inUse' = Cardinality(Held')
        BY <1>1, <2>1, <2>4, <3>1 DEF PoolCounts
      <3>3. inUse' \in 0..(PoolSize + MaxOverflow)
        BY <1>1, <2>1, <2>4, <3>1, <3>2, ConstantAssumption DEF TypeOK
      <3>. QED BY <2>2, <3>1, <3>2, <3>3 DEF PoolCounts
    <2>. QED BY <2>3, <2>4
  <1>. QED BY <1>2, <1>3, <1>4, <1>5, <1>6, <1>7 DEF Progress, Choice

LEMMA RequestStep ==
  ASSUME IInv, NEW r \in Requests, Progress(r) \/ Choice(r)
  PROVE  IInv'
  <1>1. TypeOK /\ \A u \in Requests : RequestInv(u)
    BY DEF IInv
  <1>2. ASSUME NEW u \in Requests, u # r PROVE RequestInv(u)'
    BY <1>1, <1>2, OthersKeep, OthersUnchanged, PoolStep
  <1>3. TypeOK'
    <2>1. \A u \in Requests : want'[u] <= Len(sess'[u])
      <3>1. want'[r] <= Len(sess'[r])
        <4>1. /\ want'[r] \in Nat /\ want'[r] <= Len(sess[r])
              /\ Len(sess[r]) <= Len(sess'[r])
          BY <1>1, ControlTypes, PoolStep
        <4>2. Len(sess[r]) \in Nat /\ Len(sess'[r]) \in Nat
          BY <1>1, PoolStep DEF TypeOK
        <4>. QED BY <4>1, <4>2
      <3>2. ASSUME NEW u \in Requests, u # r PROVE want'[u] <= Len(sess'[u])
        <4>1. want'[u] = want[u] /\ sess'[u] = sess[u]
          BY <1>1, <3>2, OthersUnchanged, PoolStep
        <4>. QED BY <4>1, <1>1 DEF TypeOK
      <3>. QED BY <3>1, <3>2
    <2>2. plan' \in Plans
      BY <1>1, OthersUnchanged DEF TypeOK
    <2>. QED BY <1>1, <2>1, <2>2, ControlTypes, PoolStep DEF TypeOK
  <1>. QED BY <1>2, <1>3, PoolStep DEF IInv

LEMMA IInvariant == Spec => []IInv
  <1>1. IInv /\ [Next]_vars => IInv'
    <2>. SUFFICES ASSUME IInv, [Next]_vars PROVE IInv'
      OBVIOUS
    <2>1. CASE UNCHANGED vars
      <3>. USE <2>1 DEF vars
      <3>1. TypeOK' /\ PoolCounts'
        BY DEF IInv, TypeOK, PoolCounts, Held
      <3>2. ASSUME NEW r \in Requests PROVE RequestInv(r)'
        BY OthersKeep DEF IInv
      <3>. QED BY <3>1, <3>2 DEF IInv
    <2>2. CASE Next
      BY <2>1, <2>2, RequestStep DEF Next, AllDone
    <2>. QED BY <2>1, <2>2
  <1>. QED BY InitIInv, <1>1, PTL DEF Spec

-----------------------------------------------------------------------------
(* What it is for. *)

\* Every variable keeps its type; the pool never holds more connections than it
\* may.
THEOREM TypeCorrect == Spec => []TypeOK
  <1>1. IInv => TypeOK
    BY DEF IInv
  <1>. QED BY IInvariant, <1>1, PTL

\* The pool's count is the number of sessions that hold a connection, and a
\* finished request holds none, whatever failed, timed out or was cancelled.
THEOREM PoolIsBalanced == Spec => []ConnectionsReturned
  <1>1. IInv => ConnectionsReturned
    <2>. SUFFICES ASSUME IInv, NEW h \in Held, pc[h[1]] = "done" PROVE FALSE
      BY DEF IInv, PoolCounts, ConnectionsReturned
    <2>0. PICK u \in Requests : \E k \in 1..Len(sess[u]) :
              sess[u][k].conn /\ h = <<u, k>>
      BY HeldIs
    <2>1. PICK k \in 1..Len(sess[u]) : sess[u][k].conn /\ h = <<u, k>>
      BY <2>0
    <2>2. RequestInv(u) /\ pc[u] = "done"
      BY <2>1 DEF IInv
    <2>. QED BY <2>1, <2>2 DEF RequestInv, HoldsUnclosed, DoneIsClosed, Unclosed
  <1>. QED BY IInvariant, <1>1, PTL

\* Sessions end inside out: an injected session's writes are durable only if
\* those of every later session of the request are, but for those the body knows
\* to be given up.
THEOREM InsideOut == Spec => []OuterAfterInner
  <1>1. IInv => OuterAfterInner
    BY DEF IInv, TypeOK, RequestInv, OuterIsLast, OuterAfterInner
  <1>. QED BY IInvariant, <1>1, PTL

\* A success answer that is sent after the sessions are left means that
\* everything the request wrote is committed, but for what the body knows to be
\* given up.
THEOREM SuccessMeansCommitted == Spec => []SuccessIsDurable
  <1>1. IInv => SuccessIsDurable
    <2>. SUFFICES ASSUME IInv, NEW r \in Requests \ AnswerFirst, answer[r] = "ok",
                         NEW k \in 1..Len(sess[r]), sess[r][k].dirty
                  PROVE  sess[r][k].durable \/ sess[r][k].spoilt
      BY DEF SuccessIsDurable
    <2>1. RequestInv(r)
      BY DEF IInv
    <2>2. pc[r] = "done" /\ exc[r] = "none"
      BY <2>1 DEF RequestInv, AnsweredAtEnd
    <2>3. sess[r][k].phase = "closed"
      BY <2>1, <2>2 DEF RequestInv, DoneIsClosed, Unclosed
    <2>. QED BY <2>1, <2>2, <2>3 DEF RequestInv, EndedIsDurable
  <1>. QED BY IInvariant, <1>1, PTL

\* A step that touches a session that is there leaves its kind, and when
\* something propagates, what is durable of it.
LEMMA Touched ==
  ASSUME TypeOK, NEW r \in Requests,
         \/ \E k \in 1..Len(sess[r]) :
              \/ Add(r, k) \/ Commit(r, k) \/ CommitFails(r, k)
              \/ CommitCancelled(r, k) \/ Rollback(r, k) \/ Close(r, k)
              \/ \E e \in {"error", "cancel"} : StatementFails(r, k, e)
         \/ Connect(r)
  PROVE  \E k \in 1..Len(sess[r]), s \in Sessions :
           /\ Update(r, k, s)
           /\ exc[r] # "none" => s.durable = sess[r][k].durable
  <1>. DEFINE Same(k, s) == /\ Update(r, k, s)
                            /\ exc[r] # "none" => s.durable = sess[r][k].durable
  <1>. SUFFICES \E k \in 1..Len(sess[r]), s \in Sessions : Same(k, s)
    OBVIOUS
  <1>1. \A k \in 1..Len(sess[r]) : sess[r][k] \in Sessions
    BY DEF TypeOK
  <1>2. CASE Connect(r)
    <2>1. want[r] \in 1..Len(sess[r])
      BY <1>2 DEF TypeOK, Connect
    <2>. DEFINE s == [sess[r][want[r]] EXCEPT !.conn = TRUE]
    <2>2. s \in Sessions /\ Same(want[r], s)
      BY <1>1, <1>2, <2>1 DEF Connect, Sessions
    <2>. HIDE DEF s, Same
    <2>. QED BY <2>1, <2>2
  <1>3. ASSUME NEW k \in 1..Len(sess[r]), Add(r, k)
        PROVE  \E s \in Sessions : Same(k, s)
    <2>. DEFINE s == [sess[r][k] EXCEPT !.dirty = TRUE]
    <2>1. s \in Sessions /\ Same(k, s)
      BY <1>1, <1>3 DEF Add, Sessions
    <2>. HIDE DEF s, Same
    <2>. QED BY <2>1
  <1>4. ASSUME NEW k \in 1..Len(sess[r]), Commit(r, k)
        PROVE  \E s \in Sessions : Same(k, s)
    <2>. DEFINE s == Ended(sess[r][k], Kept(sess[r][k]))
    <2>1. s \in Sessions /\ Same(k, s)
      BY <1>1, <1>4, FieldTypes DEF Commit, Ended, Sessions
    <2>. HIDE DEF s, Same
    <2>. QED BY <2>1
  <1>5. ASSUME NEW k \in 1..Len(sess[r]), CommitFails(r, k) \/ CommitCancelled(r, k)
        PROVE  \E s \in Sessions : Same(k, s)
    <2>1. PICK d \in {FALSE, Kept(sess[r][k])} :
            Update(r, k, [sess[r][k] EXCEPT !.durable = d])
      BY <1>5 DEF CommitFails, CommitCancelled
    <2>. DEFINE s == [sess[r][k] EXCEPT !.durable = d]
    <2>2. d \in BOOLEAN
      BY <1>1, FieldTypes
    <2>3. exc[r] = "none"
      BY <1>5 DEF CommitFails, CommitCancelled
    <2>4. s \in Sessions /\ Same(k, s)
      BY <1>1, <2>1, <2>2, <2>3 DEF Sessions
    <2>. HIDE DEF s, Same
    <2>. QED BY <2>4
  <1>6. ASSUME NEW k \in 1..Len(sess[r]), Rollback(r, k)
        PROVE  \E s \in Sessions : Same(k, s)
    <2>. DEFINE s == GivenUp(Ended(sess[r][k], sess[r][k].durable))
    <2>1. s \in Sessions /\ s.durable = sess[r][k].durable
      BY <1>1 DEF Ended, GivenUp, Sessions
    <2>2. Same(k, s)
      BY <1>6, <2>1 DEF Rollback
    <2>. HIDE DEF s, Same
    <2>. QED BY <2>1, <2>2
  <1>7. ASSUME NEW k \in 1..Len(sess[r]), Close(r, k)
        PROVE  \E s \in Sessions : Same(k, s)
    BY <1>7, ClosedEffect
  <1>8. ASSUME NEW k \in 1..Len(sess[r]), NEW e \in {"error", "cancel"},
               StatementFails(r, k, e)
        PROVE  \E s \in Sessions : Same(k, s)
    <2>. DEFINE s == [sess[r][k] EXCEPT !.spoilt = TRUE]
    <2>1. s \in Sessions /\ Same(k, s)
      BY <1>1, <1>8 DEF StatementFails, Sessions
    <2>. HIDE DEF s, Same
    <2>. QED BY <2>1
  <1>. HIDE DEF Same
  <1>. QED BY <1>2, <1>3, <1>4, <1>5, <1>6, <1>7, <1>8

\* What a step does to the sessions of its request, as far as they are there.
LEMMA SessionsStep ==
  ASSUME TypeOK, NEW r \in Requests, Progress(r) \/ Choice(r)
  PROVE  /\ \A u \in Requests : u # r => sess'[u] = sess[u]
         /\ \A k \in 1..Len(sess[r]) :
              exc[r] # "none" => sess'[r][k].durable = sess[r][k].durable
  <1>1. CASE sess' = sess
    BY <1>1
  <1>2. CASE \/ \E k \in 1..Len(sess[r]) :
              \/ Add(r, k) \/ Commit(r, k) \/ CommitFails(r, k)
              \/ CommitCancelled(r, k) \/ Rollback(r, k) \/ Close(r, k)
              \/ \E e \in {"error", "cancel"} : StatementFails(r, k, e)
             \/ Connect(r)
    <2>1. PICK k \in 1..Len(sess[r]), s \in Sessions :
            /\ Update(r, k, s)
            /\ exc[r] # "none" => s.durable = sess[r][k].durable
      BY <1>2, Touched
    <2>2. /\ Len(sess'[r]) = Len(sess[r])
          /\ sess'[r][k] = s
          /\ \A j \in 1..Len(sess[r]) : j # k => sess'[r][j] = sess[r][j]
          /\ \A u \in Requests : u # r => sess'[u] = sess[u]
      BY <2>1, UpdateEffect
    <2>. QED BY <2>1, <2>2
  <1>3. CASE \/ InjectPublic(r) \/ InjectTenant(r)
             \/ \E x \in Tenants \cup {NoTenant} : EnterById(r, x)
    <2>1. PICK kind \in {"public", "tenant", "byid"}, schema \in Tenants \cup {Public} :
            Give(r, kind, schema)
      BY <1>3 DEF InjectPublic, InjectTenant, EnterById, Schema, Resolves
    <2>. QED BY <2>1, GiveEffect
  <1>4. \/ sess' = sess
        \/ \E k \in 1..Len(sess[r]) :
              \/ Add(r, k) \/ Commit(r, k) \/ CommitFails(r, k)
              \/ CommitCancelled(r, k) \/ Rollback(r, k) \/ Close(r, k)
              \/ \E e \in {"error", "cancel"} : StatementFails(r, k, e)
        \/ Connect(r) \/ InjectPublic(r) \/ InjectTenant(r)
        \/ \E x \in Tenants \cup {NoTenant} : EnterById(r, x)
    BY DEF Progress, Choice, InjectTenantFails, StartBody, LeaveById, Return,
           Unwind, PoolTimeout, Finish, Raise, Cancel, Catch, SetTenant, Execute,
           Flush, CommitRefused
  <1>. QED BY <1>1, <1>2, <1>3, <1>4

\* Nothing becomes durable while an exception or a cancellation is on its way.
THEOREM FailureCommitsNothing == Spec => NoCommitAfterFailure
  <1>. DEFINE Keeps == \A r \in Requests : exc[r] # "none" =>
         \A k \in 1..Len(sess[r]) : sess'[r][k].durable = sess[r][k].durable
  <1>1. IInv /\ [Next]_vars => [Keeps]_vars
    <2>1. ASSUME IInv, NEW r \in Requests, Progress(r) \/ Choice(r),
                 NEW u \in Requests, exc[u] # "none", NEW k \in 1..Len(sess[u])
          PROVE  sess'[u][k].durable = sess[u][k].durable
      <3>1. TypeOK
        BY <2>1 DEF IInv
      <3>. QED BY <2>1, <3>1, SessionsStep
    <2>. QED BY <2>1 DEF Next, AllDone
  <1>. QED BY IInvariant, <1>1, PTL DEF Spec, NoCommitAfterFailure

(***************************************************************************)
(* The sessions are units of work.  Besides the invariant the refinement   *)
(* needs that a request that does what its route says has not failed, that *)
(* nobody heard of a request that is not done, unless the answer goes      *)
(* first, and that only a commit that fails leaves something durable in an *)
(* open session, the one that is about to be left.                         *)
(***************************************************************************)

WorksUnfailed(r) == pc[r] \in {"opening", "body"} => exc[r] = "none"

UnheardUntilDone(r) ==
  pc[r] # "done" /\ ~(r \in AnswerFirst /\ pc[r] = "exiting") => answer[r] = "none"

OpenIsPending(r) ==
  \A k \in 1..Len(sess[r]) :
    sess[r][k].phase = "open" /\ sess[r][k].durable =>
      exc[r] # "none" /\ pc[r] \in {"leaving", "exiting"} /\ Top(r, k)

WorkInv ==
  \A r \in Requests :
    WorksUnfailed(r) /\ UnheardUntilDone(r) /\ OpenIsPending(r)

LEMMA PendingKept ==
  ASSUME TypeOK, NEW r \in Requests, OpenIsPending(r), Progress(r) \/ Choice(r)
  PROVE  OpenIsPending(r)'
  <1>1. \A j \in 1..Len(sess[r]) : sess[r][j] \in Sessions
    BY DEF TypeOK
  <1>2. CASE sess' = sess
    <2>. SUFFICES ASSUME NEW k \in 1..Len(sess[r]),
                         sess[r][k].phase = "open", sess[r][k].durable
                  PROVE  /\ exc'[r] # "none" /\ pc'[r] \in {"leaving", "exiting"}
                         /\ Top(r, k)'
      BY <1>2 DEF OpenIsPending
    <2>1. exc[r] # "none" /\ pc[r] \in {"leaving", "exiting"} /\ Top(r, k)
      BY DEF OpenIsPending
    <2>2. Top(r, k)'
      BY <1>2, <2>1 DEF Top, Unclosed
    <2>3. k \in Unclosed(r)
      BY <2>1 DEF Top
    <2>4. ASSUME NEW j \in 1..Len(sess[r]), NEW s \in Sessions, Top(r, j),
                 Update(r, j, s), s.phase # "open"
          PROVE  FALSE
      <3>1. j = k
        BY <2>1, <2>4 DEF Top, Unclosed
      <3>2. sess'[r][j] = s
        BY <2>4, UpdateEffect
      <3>. QED BY <1>2, <2>4, <3>1, <3>2
    <2>5. ASSUME NEW j \in 1..Len(sess[r]), Rollback(r, j)
          PROVE  FALSE
      <3>. DEFINE s == GivenUp(Ended(sess[r][j], sess[r][j].durable))
      <3>1. s \in Sessions /\ s.phase = "ended"
        BY <1>1 DEF Ended, GivenUp, Sessions
      <3>2. Update(r, j, s) /\ Top(r, j)
        BY <2>5 DEF Rollback, Leaves
      <3>. HIDE DEF s
      <3>. QED BY <2>4, <3>1, <3>2
    <2>6. ASSUME NEW j \in 1..Len(sess[r]), Close(r, j)
          PROVE  FALSE
      <3>1. PICK s \in Sessions : Update(r, j, s) /\ s.phase = "closed"
        BY <2>6, ClosedEffect
      <3>2. Top(r, j)
        BY <2>6 DEF Close, Leaves
      <3>. QED BY <2>4, <3>1, <3>2
    <2>7. ~Choice(r) \/ Cancel(r)
      BY <2>1 DEF Choice, SetTenant, Add, Execute, EnterById, Raise, StatementFails,
         Catch, CommitFails, CommitCancelled, Running
    <2>8. ~Progress(r) \/ Connect(r) \/ PoolTimeout(r)
      BY <2>1, <2>3, <2>5, <2>6 DEF Progress, InjectPublic, InjectTenant,
         InjectTenantFails, StartBody, LeaveById, Return, Unwind, Flush, Commit,
         CommitRefused, Finish, Injects, Running
    <2>9. exc'[r] # "none" /\ pc'[r] = pc[r]
      BY <2>1, <2>7, <2>8 DEF TypeOK, Cancel, Connect, PoolTimeout
    <2>. QED BY <2>1, <2>2, <2>9
  \* A session that is updated: what is open and durable then was so before, or
  \* is the one whose commit failed.
  <1>3. ASSUME NEW j \in 1..Len(sess[r]), NEW s \in Sessions, Update(r, j, s),
               s.phase = "open" => sess[r][j].phase = "open",
               \A i \in 1..Len(sess[r]) : i # j =>
                 ~(sess[r][i].phase = "open" /\ sess[r][i].durable),
               s.phase = "open" /\ s.durable =>
                 exc'[r] # "none" /\ pc'[r] \in {"leaving", "exiting"} /\ Top(r, j)
        PROVE  OpenIsPending(r)'
    <2>1. /\ Len(sess'[r]) = Len(sess[r]) /\ sess'[r][j] = s
          /\ \A i \in 1..Len(sess[r]) : i # j => sess'[r][i] = sess[r][i]
      BY <1>3, UpdateEffect
    <2>2. s.phase = "open" => (Top(r, j) => Top(r, j)')
      BY <1>3, <2>1 DEF Top, Unclosed
    <2>. QED BY <1>3, <2>1, <2>2 DEF OpenIsPending
  <1>4. exc[r] = "none" \/ pc[r] \notin {"leaving", "exiting"} =>
          \A i \in 1..Len(sess[r]) : ~(sess[r][i].phase = "open" /\ sess[r][i].durable)
    BY DEF OpenIsPending
  <1>5. ASSUME NEW k \in 1..Len(sess[r]), Top(r, k)
        PROVE  \A i \in 1..Len(sess[r]) : i # k =>
                 ~(sess[r][i].phase = "open" /\ sess[r][i].durable)
    <2>1. \A i \in 1..Len(sess[r]) : Top(r, i) => i = k
      BY <1>5 DEF Top, Unclosed
    <2>. QED BY <2>1 DEF OpenIsPending
  <1>6. ASSUME NEW k \in 1..Len(sess[r]), Add(r, k)
        PROVE  OpenIsPending(r)'
    <2>. DEFINE s == [sess[r][k] EXCEPT !.dirty = TRUE]
    <2>1. s \in Sessions /\ s.durable = sess[r][k].durable /\ s.phase = sess[r][k].phase
      BY <1>1, Fields
    <2>2. Update(r, k, s) /\ pc[r] = "body"
      BY <1>6 DEF Add, Running
    <2>. HIDE DEF s
    <2>. QED BY <1>3, <1>4, <2>1, <2>2
  <1>7. ASSUME NEW k \in 1..Len(sess[r]), NEW e \in {"error", "cancel"},
               StatementFails(r, k, e)
        PROVE  OpenIsPending(r)'
    <2>. DEFINE s == [sess[r][k] EXCEPT !.spoilt = TRUE]
    <2>1. s \in Sessions /\ s.durable = sess[r][k].durable /\ s.phase = sess[r][k].phase
      BY <1>1, Fields
    <2>2. Update(r, k, s) /\ pc[r] = "body"
      BY <1>7 DEF StatementFails, Running
    <2>. HIDE DEF s
    <2>. QED BY <1>3, <1>4, <2>1, <2>2
  <1>8. ASSUME NEW k \in 1..Len(sess[r]), Commit(r, k)
        PROVE  OpenIsPending(r)'
    <2>. DEFINE s == Ended(sess[r][k], Kept(sess[r][k]))
    <2>1. s \in Sessions /\ s.phase = "ended"
      BY <1>1, FieldTypes DEF Ended, Sessions
    <2>2. Update(r, k, s) /\ exc[r] = "none"
      BY <1>8 DEF Commit
    <2>. HIDE DEF s
    <2>. QED BY <1>3, <1>4, <2>1, <2>2
  <1>9. ASSUME NEW k \in 1..Len(sess[r]), CommitFails(r, k) \/ CommitCancelled(r, k)
        PROVE  OpenIsPending(r)'
    <2>1. PICK d \in {FALSE, Kept(sess[r][k])} :
            Update(r, k, [sess[r][k] EXCEPT !.durable = d])
      BY <1>9 DEF CommitFails, CommitCancelled
    <2>. DEFINE s == [sess[r][k] EXCEPT !.durable = d]
    <2>2. d \in BOOLEAN
      BY <1>1, FieldTypes
    <2>3. s \in Sessions
      BY <1>1, <2>2, Fields
    <2>5. s.phase = sess[r][k].phase
      BY <1>1, Fields
    <2>4. /\ exc[r] = "none" /\ exc'[r] # "none"
          /\ pc'[r] \in {"leaving", "exiting"} /\ Top(r, k)
      BY <1>9 DEF CommitFails, CommitCancelled, Leaves, TypeOK
    <2>. HIDE DEF s
    <2>. QED BY <1>3, <1>4, <2>1, <2>3, <2>4, <2>5 DEF s
  <1>10. ASSUME NEW k \in 1..Len(sess[r]), Rollback(r, k)
         PROVE  OpenIsPending(r)'
    <2>. DEFINE s == GivenUp(Ended(sess[r][k], sess[r][k].durable))
    <2>1. s \in Sessions /\ s.phase = "ended"
      BY <1>1 DEF Ended, GivenUp, Sessions
    <2>2. Update(r, k, s) /\ Top(r, k)
      BY <1>10 DEF Rollback, Leaves
    <2>. HIDE DEF s
    <2>. QED BY <1>3, <1>5, <2>1, <2>2
  <1>11. ASSUME NEW k \in 1..Len(sess[r]), Close(r, k)
         PROVE  OpenIsPending(r)'
    <2>1. PICK s \in Sessions : Update(r, k, s) /\ s.phase = "closed"
      BY <1>11, ClosedEffect
    <2>2. Top(r, k)
      BY <1>11 DEF Close, Leaves
    <2>. QED BY <1>3, <1>5, <2>1, <2>2
  <1>12. CASE Connect(r)
    <2>. DEFINE k == want[r]
                s == [sess[r][k] EXCEPT !.conn = TRUE]
    <2>1. k \in 1..Len(sess[r])
      BY <1>12 DEF TypeOK, Connect
    <2>2. /\ s \in Sessions /\ s.durable = sess[r][k].durable
          /\ s.phase = sess[r][k].phase
      BY <1>1, <2>1, Fields
    <2>3. Update(r, k, s) /\ exc' = exc /\ pc' = pc
      BY <1>12 DEF Connect
    <2>. HIDE DEF k, s
    <2>4. /\ Len(sess'[r]) = Len(sess[r])
          /\ \A i \in 1..Len(sess[r]) : /\ sess'[r][i].phase = sess[r][i].phase
                                        /\ sess'[r][i].durable = sess[r][i].durable
      BY <2>1, <2>2, <2>3, UpdateEffect
    <2>5. Unclosed(r)' = Unclosed(r)
      BY <2>4 DEF Unclosed
    <2>. QED BY <2>3, <2>4, <2>5 DEF OpenIsPending, Top
  <1>13. CASE \/ InjectPublic(r) \/ InjectTenant(r)
              \/ \E x \in Tenants \cup {NoTenant} : EnterById(r, x)
    <2>1. PICK kind \in {"public", "tenant", "byid"}, schema \in Tenants \cup {Public} :
            Give(r, kind, schema)
      BY <1>13 DEF InjectPublic, InjectTenant, EnterById, Schema, Resolves
    <2>2. pc[r] \in {"opening", "body"}
      BY <1>13 DEF InjectPublic, InjectTenant, EnterById, Injects, Running
    <2>. DEFINE n == Len(sess[r])
    <2>3. /\ n \in Nat /\ Len(sess'[r]) = n + 1
          /\ \A j \in 1..n : sess'[r][j] = sess[r][j]
          /\ sess'[r][n + 1] =
               [kind |-> kind, schema |-> schema, dirty |-> FALSE,
                conn |-> FALSE, durable |-> FALSE, spoilt |-> FALSE,
                phase |-> "open"]
      BY <2>1, GiveEffect
    <2>4. \A k \in 1..Len(sess'[r]) : k \in 1..n \/ k = n + 1
      BY <2>3
    <2>5. ~sess'[r][n + 1].durable
      BY <2>3
    <2>6. \A k \in 1..Len(sess'[r]) :
            ~(sess'[r][k].phase = "open" /\ sess'[r][k].durable)
      BY <1>4, <2>2, <2>3, <2>4, <2>5
    <2>. QED BY <2>6 DEF OpenIsPending
  <1>14. \/ sess' = sess
         \/ \E k \in 1..Len(sess[r]) :
              \/ Add(r, k) \/ Commit(r, k) \/ CommitFails(r, k)
              \/ CommitCancelled(r, k) \/ Rollback(r, k) \/ Close(r, k)
              \/ \E e \in {"error", "cancel"} : StatementFails(r, k, e)
         \/ Connect(r) \/ InjectPublic(r) \/ InjectTenant(r)
         \/ \E x \in Tenants \cup {NoTenant} : EnterById(r, x)
    BY DEF Progress, Choice, InjectTenantFails, StartBody, LeaveById, Return,
           Unwind, PoolTimeout, Finish, Raise, Cancel, Catch, SetTenant, Execute,
           Flush, CommitRefused
  <1>. QED BY <1>2, <1>6, <1>7, <1>8, <1>9, <1>10, <1>11, <1>12, <1>13, <1>14

LEMMA WorkStep ==
  ASSUME IInv, WorkInv, NEW r \in Requests, Progress(r) \/ Choice(r)
  PROVE  WorkInv'
  <1>1. TypeOK /\ RequestInv(r)
    BY DEF IInv
  <1>2. ASSUME NEW u \in Requests, u # r
        PROVE  /\ pc'[u] = pc[u] /\ exc'[u] = exc[u] /\ answer'[u] = answer[u]
               /\ sess'[u] = sess[u]
    BY <1>1, <1>2, OthersUnchanged, SessionsStep
  <1>3. WorksUnfailed(r)' /\ UnheardUntilDone(r)'
    <2>. USE <1>1 DEF WorkInv, TypeOK
    <2>1. CASE \/ InjectTenantFails(r) \/ StartBody(r) \/ LeaveById(r) \/ Return(r)
               \/ Raise(r) \/ Cancel(r) \/ Catch(r) \/ Unwind(r) \/ Finish(r)
      BY <2>1 DEF InjectTenantFails, StartBody, LeaveById, Return, Raise, Cancel,
                  Catch, Unwind, Finish, Injects, Running, WorksUnfailed,
                  UnheardUntilDone
    <2>2. CASE PoolTimeout(r)
      BY <2>2 DEF PoolTimeout, RequestInv, WaitsUnheld, WorksUnfailed,
                  UnheardUntilDone
    <2>3. CASE \/ \E x \in Tenants : SetTenant(r, x)
               \/ \E x \in Tenants \cup {NoTenant} : EnterById(r, x)
               \/ InjectPublic(r) \/ InjectTenant(r) \/ Connect(r)
               \/ \E k \in 1..Len(sess[r]) :
                    Execute(r, k) \/ Flush(r, k) \/ Add(r, k) \/ Commit(r, k) \/ Rollback(r, k)
      BY <2>3 DEF SetTenant, EnterById, InjectPublic, InjectTenant, Connect,
                  Execute, Flush, Add, Commit, Rollback, WorksUnfailed,
                  UnheardUntilDone
    <2>4. CASE \E k \in 1..Len(sess[r]) :
                 \/ CommitFails(r, k) \/ CommitCancelled(r, k) \/ CommitRefused(r, k)
                 \/ Close(r, k)
                 \/ \E e \in {"error", "cancel"} : StatementFails(r, k, e)
      BY <2>4 DEF CommitFails, CommitCancelled, CommitRefused, Close, Returned,
                  StatementFails, Running, Leaves, WorksUnfailed, UnheardUntilDone
    <2>. QED BY <2>1, <2>2, <2>3, <2>4 DEF Progress, Choice
  <1>4. OpenIsPending(r)'
    BY <1>1, PendingKept DEF WorkInv
  <1>5. ASSUME NEW u \in Requests
        PROVE  (WorksUnfailed(u) /\ UnheardUntilDone(u) /\ OpenIsPending(u))'
    <2>1. CASE u = r
      BY <1>3, <1>4, <2>1
    <2>2. CASE u # r
      BY <1>2, <2>2 DEF WorkInv, WorksUnfailed, UnheardUntilDone, OpenIsPending,
                       Top, Unclosed
    <2>. QED BY <2>1, <2>2
  <1>. QED BY <1>5 DEF WorkInv

LEMMA WorkInvariant == Spec => []WorkInv
  <1>1. Init => WorkInv
    BY DEF Init, WorkInv, WorksUnfailed, UnheardUntilDone, OpenIsPending
  <1>2. IInv /\ WorkInv /\ [Next]_vars => WorkInv'
    <2>. SUFFICES ASSUME IInv, WorkInv, [Next]_vars PROVE WorkInv'
      OBVIOUS
    <2>1. CASE UNCHANGED vars
      BY <2>1 DEF vars, WorkInv, WorksUnfailed, UnheardUntilDone, OpenIsPending,
                  Top, Unclosed
    <2>. QED BY <2>1, WorkStep DEF Next, AllDone
  <1>. QED BY IInvariant, <1>1, <1>2, PTL DEF Spec

-----------------------------------------------------------------------------
(* What a step on sessions is to their units. *)

\* The units of a request are a sequence as long as its sessions.
LEMMA UnitsAre ==
  ASSUME TypeOK, NEW r \in Requests
  PROVE  /\ DOMAIN UnitsOf = Requests
         /\ Len(sess[r]) \in Nat
         /\ DOMAIN UnitsOf[r] = 1..Len(sess[r])
         /\ UnitsOf[r] \in Seq({Unit(s) : s \in Sessions})
         /\ Len(UnitsOf[r]) = Len(sess[r])
         /\ \A k \in 1..Len(sess[r]) : UnitsOf[r][k] = Unit(sess[r][k])
  <1>1. Len(sess[r]) \in Nat /\ \A k \in 1..Len(sess[r]) : sess[r][k] \in Sessions
    BY DEF TypeOK
  <1>2. UnitsOf[r] = [k \in 1..Len(sess[r]) |-> Unit(sess[r][k])]
    BY DEF UnitsOf
  <1>3. DOMAIN UnitsOf = Requests
    BY DEF UnitsOf
  <1>. DEFINE n == Len(sess[r])
              U == {Unit(s) : s \in Sessions}
  <1>4. \A k \in 1..n : Unit(sess[r][k]) \in U
    BY <1>1
  <1>5. UnitsOf[r] \in [1..n -> U]
    BY <1>2, <1>4
  <1>. HIDE DEF n, U
  <1>6. UnitsOf[r] \in Seq(U) /\ Len(UnitsOf[r]) = n
    BY <1>1, <1>5 DEF n
  <1>. QED BY <1>1, <1>2, <1>3, <1>6 DEF n, U

\* An update of a session is one of its unit.
LEMMA UnitsUpdate ==
  ASSUME TypeOK, NEW r \in Requests, NEW k \in 1..Len(sess[r]),
         NEW s \in Sessions, Update(r, k, s)
  PROVE  UnitsOf' = [UnitsOf EXCEPT ![r][k] = Unit(s)]
  <1>1. /\ Len(sess'[r]) = Len(sess[r]) /\ sess'[r][k] = s
        /\ \A j \in 1..Len(sess[r]) : j # k => sess'[r][j] = sess[r][j]
        /\ \A u \in Requests : u # r => sess'[u] = sess[u]
    BY UpdateEffect
  <1>2. UnitsOf'[r] = [UnitsOf[r] EXCEPT ![k] = Unit(s)]
    BY <1>1 DEF UnitsOf
  <1>3. \A u \in Requests : u # r => UnitsOf'[u] = UnitsOf[u]
    BY <1>1 DEF UnitsOf
  <1>. QED BY <1>2, <1>3 DEF UnitsOf

LEMMA UnitsUntouched ==
  ASSUME NEW r \in Requests, NEW k
  PROVE  [UnitsOf EXCEPT ![r][k] = UnitsOf[r][k]] = UnitsOf
  <1>1. [UnitsOf[r] EXCEPT ![k] = UnitsOf[r][k]] = UnitsOf[r]
    BY DEF UnitsOf
  <1>. QED BY <1>1 DEF UnitsOf

LEMMA UnitsGive ==
  ASSUME TypeOK, NEW r \in Requests, NEW kind \in {"public", "tenant", "byid"},
         NEW schema \in Tenants \cup {Public}, Give(r, kind, schema)
  PROVE  UnitsOf' = [UnitsOf EXCEPT ![r] = Append(@,
           [kind |-> kind, schema |-> schema, dirty |-> FALSE, durable |-> FALSE,
            spoilt |-> FALSE, over |-> FALSE])]
  <1>. DEFINE n == Len(sess[r])
              t == [kind |-> kind, schema |-> schema, dirty |-> FALSE,
                    conn |-> FALSE, durable |-> FALSE, spoilt |-> FALSE,
                    phase |-> "open"]
              e == [kind |-> kind, schema |-> schema, dirty |-> FALSE,
                    durable |-> FALSE, spoilt |-> FALSE, over |-> FALSE]
  <1>1. /\ n \in Nat /\ Len(sess'[r]) = n + 1
        /\ \A j \in 1..n : sess'[r][j] = sess[r][j]
        /\ sess'[r][n + 1] = t
        /\ \A u \in Requests : u # r => sess'[u] = sess[u]
    BY GiveEffect
  <1>2. Unit(t) = e /\ t \in Sessions
    BY DEF Unit, Sessions
  <1>3. UnitsOf[r] \in Seq({Unit(s) : s \in Sessions}) /\ Len(UnitsOf[r]) = n
        /\ \A j \in 1..n : UnitsOf[r][j] = Unit(sess[r][j])
    BY UnitsAre
  <1>4. UnitsOf'[r] = [j \in 1..(n + 1) |-> Unit(sess'[r][j])]
    BY <1>1 DEF UnitsOf
  <1>. HIDE DEF n, t, e
  <1>5. UnitsOf'[r] = Append(UnitsOf[r], e)
    <2>1. /\ Append(UnitsOf[r], e) \in Seq({Unit(s) : s \in Sessions})
          /\ Len(Append(UnitsOf[r], e)) = n + 1
          /\ Append(UnitsOf[r], e)[n + 1] = e
          /\ \A j \in 1..n : Append(UnitsOf[r], e)[j] = UnitsOf[r][j]
      <3>1. e \in {Unit(s) : s \in Sessions}
        BY <1>2
      <3>. QED BY <1>1, <1>3, <3>1
    <2>2. Append(UnitsOf[r], e) = [j \in 1..(n + 1) |-> Append(UnitsOf[r], e)[j]]
      BY <2>1
    <2>3. \A j \in 1..(n + 1) : Unit(sess'[r][j]) = Append(UnitsOf[r], e)[j]
      BY <1>1, <1>2, <1>3, <2>1
    <2>. QED BY <1>4, <2>2, <2>3
  <1>6. \A u \in Requests : u # r => UnitsOf'[u] = UnitsOf[u]
    BY <1>1 DEF UnitsOf
  <1>. QED BY <1>5, <1>6 DEF UnitsOf, e

\* The fields of a unit.
LEMMA UnitFields ==
  ASSUME NEW s
  PROVE  /\ Unit(s).kind = s.kind /\ Unit(s).schema = s.schema
         /\ Unit(s).dirty = s.dirty /\ Unit(s).durable = s.durable
         /\ Unit(s).spoilt = s.spoilt /\ Unit(s).over = (s.phase # "open")
  BY DEF Unit

\* What is changed in a session is changed in its unit.
LEMMA UnitDirty ==
  ASSUME NEW s \in Sessions, NEW e, e = Unit(s), NEW b \in BOOLEAN
  PROVE  Unit([s EXCEPT !.dirty = b]) = [e EXCEPT !.dirty = b]
  <1>. DEFINE R(j) == [kind |-> s.kind, schema |-> s.schema, dirty |-> j,
                       durable |-> s.durable, spoilt |-> s.spoilt,
                       over |-> s.phase # "open"]
  <1>1. e = R(s.dirty) /\ Unit([s EXCEPT !.dirty = b]) = R(b)
    BY Fields DEF Unit
  <1>2. [e EXCEPT !.dirty = b] = R(b)
    BY <1>1
  <1>. QED BY <1>1, <1>2

LEMMA UnitDurable ==
  ASSUME NEW s \in Sessions, NEW e, e = Unit(s), NEW b \in BOOLEAN
  PROVE  Unit([s EXCEPT !.durable = b]) = [e EXCEPT !.durable = b]
  <1>. DEFINE R(j) == [kind |-> s.kind, schema |-> s.schema, dirty |-> s.dirty,
                       durable |-> j, spoilt |-> s.spoilt,
                       over |-> s.phase # "open"]
  <1>1. e = R(s.durable) /\ Unit([s EXCEPT !.durable = b]) = R(b)
    BY Fields DEF Unit
  <1>2. [e EXCEPT !.durable = b] = R(b)
    BY <1>1
  <1>. QED BY <1>1, <1>2

LEMMA UnitSpoilt ==
  ASSUME NEW s \in Sessions, NEW e, e = Unit(s), NEW b \in BOOLEAN
  PROVE  Unit([s EXCEPT !.spoilt = b]) = [e EXCEPT !.spoilt = b]
  <1>. DEFINE R(j) == [kind |-> s.kind, schema |-> s.schema, dirty |-> s.dirty,
                       durable |-> s.durable, spoilt |-> j,
                       over |-> s.phase # "open"]
  <1>1. e = R(s.spoilt) /\ Unit([s EXCEPT !.spoilt = b]) = R(b)
    BY Fields DEF Unit
  <1>2. [e EXCEPT !.spoilt = b] = R(b)
    BY <1>1
  <1>. QED BY <1>1, <1>2

\* A unit that is over, whatever ended it.
LEMMA UnitOver ==
  ASSUME NEW s \in Sessions, NEW e, e = Unit(s), NEW t \in Sessions,
         t.kind = s.kind, t.schema = s.schema, t.dirty = s.dirty,
         t.phase # "open"
  PROVE  Unit(t) = Units!Over(e, t.durable, t.spoilt)
  BY UnitFields DEF Units!Over, Unit

\* A session that is to be left next is the innermost unit.
LEMMA TopIsInnermost ==
  ASSUME TypeOK, NEW r \in Requests, NEW k \in 1..Len(sess[r]), Top(r, k),
         sess[r][k].phase = "open"
  PROVE  Units!Innermost(r, k)
  <1>1. ~UnitsOf[r][k].over
    BY UnitsAre, UnitFields
  <1>2. ASSUME NEW j \in 1..Len(UnitsOf[r]), j > k
        PROVE  UnitsOf[r][j].over
    <2>1. j \in 1..Len(sess[r]) /\ UnitsOf[r][j] = Unit(sess[r][j])
      BY UnitsAre
    <2>2. sess[r][j].phase = "closed"
      BY <1>2, <2>1 DEF Top, Unclosed
    <2>. QED BY <2>1, <2>2, UnitFields
  <1>. QED BY <1>1, <1>2 DEF Units!Innermost

\* What a failure, and what nothing, does to who has failed.
LEMMA FailedWhen ==
  ASSUME TypeOK, NEW r \in Requests, NEW e \in {"error", "cancel"},
         exc' = [exc EXCEPT ![r] = e]
  PROVE  /\ HasFailed' = [HasFailed EXCEPT ![r] = TRUE]
         /\ exc[r] # "none" => HasFailed' = HasFailed
  BY DEF TypeOK, HasFailed

\* Before the injected sessions are left, none of them is over, and nobody was
\* answered.
LEMMA WholeWhen ==
  ASSUME TypeOK, WorkInv, NEW r \in Requests, RequestInv(r),
         pc[r] \in {"opening", "body", "raising", "leaving"}
  PROVE  Units!Whole(r)
  <1>1. answer[r] = "none"
    BY DEF WorkInv, UnheardUntilDone
  <1>2. ASSUME NEW k \in 1..Len(UnitsOf[r]), UnitsOf[r][k].over
        PROVE  Units!Named(UnitsOf[r][k])
    <2>1. k \in 1..Len(sess[r]) /\ UnitsOf[r][k] = Unit(sess[r][k])
      BY UnitsAre
    <2>2. sess[r][k].phase # "open" /\ Unit(sess[r][k]).kind = sess[r][k].kind
      BY <1>2, <2>1, UnitFields
    <2>3. sess[r][k].kind = "byid"
      BY <2>1, <2>2 DEF RequestInv, InjectedOpen
    <2>. QED BY <2>1, <2>2, <2>3 DEF Units!Named
  <1>. QED BY <1>1, <1>2 DEF Units!Whole

LEMMA WorkingWhen ==
  ASSUME TypeOK, WorkInv, NEW r \in Requests, RequestInv(r),
         pc[r] \in {"opening", "body"}
  PROVE  Units!Working(r)
  BY WholeWhen DEF WorkInv, WorksUnfailed, Units!Working, HasFailed

LEMMA EndingWhen ==
  ASSUME WorkInv, NEW r \in Requests, pc[r] # "done"
  PROVE  Units!Ending(r) /\ (HasFailed[r] <=> exc[r] # "none")
  BY DEF WorkInv, UnheardUntilDone, Units!Ending, HasFailed

-----------------------------------------------------------------------------
(* Every step is one of the units, or none of theirs. *)

UnitsSame == UNCHANGED <<UnitsOf, OwnSchema, HasFailed, answer>>

\* A request's own schema changes with its tenant only.
LEMMA OwnSame ==
  ASSUME tenant' = tenant
  PROVE  OwnSchema' = OwnSchema
  BY DEF OwnSchema, Resolves, Schema, Target

\* What its own schema may be.
LEMMA OwnIs ==
  ASSUME TypeOK, NEW r \in Requests
  PROVE  /\ Resolves(r, NoTenant) => OwnSchema[r] = Schema(r, NoTenant)
         /\ \A x \in Tenants \cup {NoTenant} : Resolves(r, x) =>
              Schema(r, x) \in IF TenantEnabled THEN Tenants \ InvalidTenants
                                               ELSE {Public}
         /\ OwnSchema[r] \in (IF TenantEnabled THEN Tenants \ InvalidTenants
                                               ELSE {Public}) \cup {NoTenant}
  BY DEF OwnSchema, Resolves, Schema, Target

\* A step that only fails.
LEMMA FailRefines ==
  ASSUME TypeOK, WorkInv, NEW r \in Requests, pc[r] # "done",
         NEW e \in {"error", "cancel"}, exc' = [exc EXCEPT ![r] = e],
         sess' = sess, tenant' = tenant, answer' = answer
  PROVE  Units!Fail(r) \/ UnitsSame
  <1>1. UnitsOf' = UnitsOf /\ OwnSchema' = OwnSchema
    BY OwnSame DEF UnitsOf
  <1>2. CASE exc[r] = "none"
    BY <1>1, <1>2, FailedWhen, EndingWhen DEF Units!Fail
  <1>3. CASE exc[r] # "none"
    BY <1>1, <1>3, FailedWhen DEF UnitsSame
  <1>. QED BY <1>2, <1>3

\* A request turns to another tenant.
LEMMA TurnRefines ==
  ASSUME TypeOK, WorkInv, NEW r \in Requests, RequestInv(r),
         NEW x \in Tenants, SetTenant(r, x)
  PROVE  \E s \in (IF TenantEnabled THEN Tenants \ InvalidTenants ELSE {Public})
                    \cup {NoTenant} :
           Units!Turn(r, s)
  <1>. DEFINE s == OwnSchema'[r]
  <1>1. /\ pc[r] \in {"opening", "body"} /\ sess' = sess /\ exc' = exc
        /\ answer' = answer /\ tenant' = [tenant EXCEPT ![r] = x]
    BY DEF SetTenant, Running
  <1>2. s \in (IF TenantEnabled THEN Tenants \ InvalidTenants ELSE {Public})
                \cup {NoTenant}
    BY <1>1 DEF TypeOK, OwnSchema, Resolves, Schema, Target
  <1>3. OwnSchema' = [OwnSchema EXCEPT ![r] = s]
    BY <1>1 DEF TypeOK, OwnSchema, Resolves, Schema, Target
  <1>4. UnitsOf' = UnitsOf /\ HasFailed' = HasFailed
    BY <1>1 DEF UnitsOf, HasFailed
  <1>5. Units!Working(r)
    BY <1>1, WorkingWhen
  <1>. HIDE DEF s
  <1>. QED BY <1>1, <1>2, <1>3, <1>4, <1>5 DEF Units!Turn

\* Sessions are begun in the schemas the units may be begun in.
LEMMA BeginRefines ==
  ASSUME TypeOK, WorkInv, NEW r \in Requests, RequestInv(r),
         \/ InjectPublic(r) \/ InjectTenant(r)
         \/ \E x \in Tenants \cup {NoTenant} : EnterById(r, x)
  PROVE  \E kind \in {"public", "tenant", "byid"},
            s \in (IF TenantEnabled THEN Tenants \ InvalidTenants ELSE {Public})
                    \cup {Public} :
           Units!Begin(r, kind, s)
  <1>. DEFINE Names == IF TenantEnabled THEN Tenants \ InvalidTenants ELSE {Public}
  <1>1. /\ exc' = exc /\ answer' = answer /\ tenant' = tenant
        /\ pc[r] \in {"opening", "body"}
    BY DEF InjectPublic, InjectTenant, EnterById, Injects, Running
  <1>2. Units!Working(r) /\ HasFailed' = HasFailed /\ OwnSchema' = OwnSchema
    BY <1>1, WorkingWhen, OwnSame DEF HasFailed
  <1>3. PICK kind \in {"public", "tenant", "byid"}, s \in Names \cup {Public} :
          /\ Give(r, kind, s)
          /\ \/ kind = "public" /\ s = Public
             \/ kind = "tenant" /\ s = OwnSchema[r] /\ s # NoTenant
             \/ kind = "byid" /\ s \in Names
    <2>1. CASE InjectPublic(r)
      BY <2>1 DEF InjectPublic
    <2>2. CASE InjectTenant(r)
      <3>1. /\ Give(r, "tenant", Schema(r, NoTenant))
            /\ Schema(r, NoTenant) \in Names
            /\ Schema(r, NoTenant) = OwnSchema[r]
        BY <2>2, OwnIs DEF InjectTenant
      <3>2. NoTenant \notin Names
        BY ConstantAssumption
      <3>. QED BY <3>1, <3>2
    <2>3. CASE \E x \in Tenants \cup {NoTenant} : EnterById(r, x)
      <3>1. PICK x \in Tenants \cup {NoTenant} : EnterById(r, x)
        BY <2>3
      <3>2. Give(r, "byid", Schema(r, x)) /\ Schema(r, x) \in Names
        BY <3>1, OwnIs DEF EnterById
      <3>. QED BY <3>2
    <2>. QED BY <2>1, <2>2, <2>3
  <1>4. s \in Tenants \cup {Public}
    BY <1>3
  <1>5. UnitsOf' = [UnitsOf EXCEPT ![r] = Append(@,
          [kind |-> kind, schema |-> s, dirty |-> FALSE, durable |-> FALSE,
           spoilt |-> FALSE, over |-> FALSE])]
    BY <1>3, <1>4, UnitsGive
  <1>6. Units!Begin(r, kind, s)
    BY <1>1, <1>2, <1>3, <1>5 DEF Units!Begin
  <1>. QED BY <1>3, <1>6

LEMMA WriteRefines ==
  ASSUME TypeOK, WorkInv, NEW r \in Requests, RequestInv(r),
         NEW k \in 1..Len(sess[r]), Add(r, k)
  PROVE  Units!Write(r, k)
  <1>. DEFINE s == [sess[r][k] EXCEPT !.dirty = TRUE]
  <1>1. sess[r][k] \in Sessions
    BY DEF TypeOK
  <1>2. s \in Sessions /\ Update(r, k, s)
    BY <1>1 DEF Add, Sessions
  <1>3. /\ pc[r] = "body" /\ exc' = exc /\ answer' = answer /\ tenant' = tenant
        /\ sess[r][k].phase = "open"
    BY <1>1, FieldTypes DEF Add, Running, Unclosed, RequestInv, EndedIsTop
  <1>4. Units!Working(r)
    BY <1>3, WorkingWhen
  <1>5. Unit(s) = [UnitsOf[r][k] EXCEPT !.dirty = TRUE]
    <2>1. UnitsOf[r][k] = Unit(sess[r][k])
      BY UnitsAre
    <2>. QED BY <1>1, <2>1, UnitDirty
  <1>. HIDE DEF s
  <1>6. UnitsOf' = [UnitsOf EXCEPT ![r][k].dirty = TRUE]
    BY <1>2, <1>5, UnitsUpdate
  <1>7. ~UnitsOf[r][k].over
    BY <1>3, UnitsAre, UnitFields
  <1>. QED BY <1>3, <1>4, <1>6, <1>7, OwnSame DEF Units!Write, HasFailed

\* A statement that fails.
LEMMA SpoilRefines ==
  ASSUME TypeOK, WorkInv, NEW r \in Requests, RequestInv(r),
         NEW k \in 1..Len(sess[r]), NEW e \in {"error", "cancel"},
         StatementFails(r, k, e)
  PROVE  Units!Spoil(r, k)
  <1>. DEFINE s == [sess[r][k] EXCEPT !.spoilt = TRUE]
  <1>1. sess[r][k] \in Sessions
    BY DEF TypeOK
  <1>2. s \in Sessions /\ Update(r, k, s)
    BY <1>1 DEF StatementFails, Sessions
  <1>3. /\ pc[r] = "body" /\ exc' = [exc EXCEPT ![r] = e] /\ answer' = answer
        /\ tenant' = tenant /\ sess[r][k].phase = "open"
    BY <1>1, FieldTypes DEF StatementFails, Running, Unclosed, RequestInv, EndedIsTop
  <1>4. Units!Working(r) /\ HasFailed' = [HasFailed EXCEPT ![r] = TRUE]
    BY <1>3, WorkingWhen, FailedWhen
  <1>5. Unit(s) = [UnitsOf[r][k] EXCEPT !.spoilt = TRUE]
    <2>1. UnitsOf[r][k] = Unit(sess[r][k])
      BY UnitsAre
    <2>. QED BY <1>1, <2>1, UnitSpoilt
  <1>. HIDE DEF s
  <1>6. UnitsOf' = [UnitsOf EXCEPT ![r][k].spoilt = TRUE]
    BY <1>2, <1>5, UnitsUpdate
  <1>7. ~UnitsOf[r][k].over
    BY <1>3, UnitsAre, UnitFields
  <1>. QED BY <1>3, <1>4, <1>6, <1>7, OwnSame DEF Units!Spoil

\* What the body catches is over; nothing may have propagated.
LEMMA RecoverRefines ==
  ASSUME TypeOK, WorkInv, NEW r \in Requests, RequestInv(r), Catch(r)
  PROVE  Units!Recover(r) \/ UnitsSame
  <1>1. /\ pc[r] = "raising" /\ sess' = sess /\ answer' = answer
        /\ tenant' = tenant /\ exc' = [exc EXCEPT ![r] = "none"]
    BY DEF Catch
  <1>2. UnitsOf' = UnitsOf /\ OwnSchema' = OwnSchema /\ Units!Whole(r)
    BY <1>1, OwnSame, WholeWhen DEF UnitsOf
  <1>3. HasFailed' = [HasFailed EXCEPT ![r] = FALSE]
    BY <1>1 DEF TypeOK, HasFailed
  <1>4. CASE HasFailed[r]
    BY <1>1, <1>2, <1>3, <1>4 DEF Units!Recover
  <1>5. CASE ~HasFailed[r]
    <2>1. HasFailed' = HasFailed
      BY <1>1, <1>5 DEF TypeOK, HasFailed
    <2>. QED BY <1>1, <1>2, <2>1 DEF UnitsSame
  <1>. QED BY <1>4, <1>5

LEMMA CommitRefines ==
  ASSUME TypeOK, WorkInv, NEW r \in Requests,
         NEW k \in 1..Len(sess[r]), Commit(r, k)
  PROVE  Units!Commit(r, k)
  <1>. DEFINE x == sess[r][k]
              s == Ended(x, Kept(x))
  <1>1. x \in Sessions /\ UnitsOf[r][k] = Unit(x)
    <2>1. x \in Sessions
      BY DEF TypeOK
    <2>. QED BY <2>1, UnitsAre
  <1>2. s \in Sessions /\ Update(r, k, s)
    BY <1>1, FieldTypes DEF Commit, Ended, Sessions
  <1>3. /\ pc[r] # "done" /\ exc[r] = "none" /\ exc' = exc /\ answer' = answer
        /\ tenant' = tenant /\ sess[r][k].phase = "open" /\ Top(r, k)
    BY DEF Commit, Leaves
  <1>4. Units!Ending(r) /\ ~HasFailed[r] /\ Units!Innermost(r, k)
    BY <1>3, EndingWhen, TopIsInnermost
  <1>5. /\ s.kind = x.kind /\ s.schema = x.schema /\ s.dirty = x.dirty
        /\ s.spoilt = x.spoilt /\ s.durable = Kept(x) /\ s.phase # "open"
    BY <1>1, FieldTypes DEF Ended, Sessions
  <1>. HIDE DEF s, x
  <1>6. Unit(s) = Units!Over(UnitsOf[r][k], s.durable, s.spoilt)
    BY <1>1, <1>2, <1>5, UnitOver
  <1>7. s.durable = Units!Keeps(UnitsOf[r][k]) /\ s.spoilt = UnitsOf[r][k].spoilt
    BY <1>1, <1>5, UnitFields DEF Units!Keeps, Kept
  <1>8. UnitsOf' = [UnitsOf EXCEPT ![r][k] = Unit(s)]
    BY <1>2, UnitsUpdate
  <1>9. UnitsOf' = [UnitsOf EXCEPT ![r][k] = Units!Over(@, Units!Keeps(@), @.spoilt)]
    BY <1>6, <1>7, <1>8
  <1>. QED BY <1>3, <1>4, <1>9, OwnSame DEF Units!Commit, HasFailed

\* A commit that raises, or that a cancellation meets, may have been heard.
LEMMA CommitFailRefines ==
  ASSUME TypeOK, WorkInv, NEW r \in Requests,
         NEW k \in 1..Len(sess[r]), CommitFails(r, k) \/ CommitCancelled(r, k)
  PROVE  Units!Fail(r)
  <1>1. sess[r][k] \in Sessions
    BY DEF TypeOK
  <1>2. PICK d \in {FALSE, Kept(sess[r][k])} :
          Update(r, k, [sess[r][k] EXCEPT !.durable = d])
    BY DEF CommitFails, CommitCancelled
  <1>3. /\ pc[r] # "done" /\ exc[r] = "none" /\ answer' = answer
        /\ sess[r][k].phase = "open" /\ Top(r, k)
        /\ HasFailed' = [HasFailed EXCEPT ![r] = TRUE] /\ OwnSchema' = OwnSchema
    BY FailedWhen, OwnSame DEF CommitFails, CommitCancelled, Leaves
  <1>4. Units!Ending(r) /\ ~HasFailed[r] /\ Units!Innermost(r, k)
    BY <1>3, EndingWhen, TopIsInnermost
  <1>. DEFINE s == [sess[r][k] EXCEPT !.durable = d]
  <1>5. s \in Sessions /\ Unit(s) = [UnitsOf[r][k] EXCEPT !.durable = d]
    <2>1. UnitsOf[r][k] = Unit(sess[r][k])
      BY UnitsAre
    <2>2. d \in BOOLEAN
      BY <1>1, FieldTypes
    <2>3. s \in Sessions
      BY <1>1, <2>2, Fields
    <2>4. Unit(s) = [UnitsOf[r][k] EXCEPT !.durable = d]
      <3>. DEFINE e == UnitsOf[r][k]
                  x == sess[r][k]
      <3>1. x \in Sessions /\ e = Unit(x)
        BY <1>1, <2>1
      <3>2. Unit([x EXCEPT !.durable = d]) = [e EXCEPT !.durable = d]
        <4>. HIDE DEF e, x
        <4>. QED BY <2>2, <3>1, UnitDurable
      <3>. QED BY <3>2
    <2>. QED BY <2>3, <2>4
  <1>. HIDE DEF s
  <1>6. UnitsOf' = [UnitsOf EXCEPT ![r][k].durable = d]
    BY <1>2, <1>5, UnitsUpdate DEF s
  <1>7. CASE d = FALSE
    <2>1. Unit(s) = UnitsOf[r][k]
      <3>1. sess[r][k].durable = FALSE
        BY <1>1, <1>3, FieldTypes DEF WorkInv, OpenIsPending
      <3>2. UnitsOf[r][k] = Unit(sess[r][k])
        BY UnitsAre
      <3>. QED BY <1>1, <1>7, <3>1, <3>2 DEF Unit, Sessions, s
    <2>2. UnitsOf' = UnitsOf
      BY <1>2, <1>5, <2>1, UnitsUpdate, UnitsUntouched DEF s
    <2>. QED BY <1>3, <1>4, <2>2 DEF Units!Fail
  <1>8. CASE d = Kept(sess[r][k])
    <2>1. d = Units!Keeps(UnitsOf[r][k]) /\ k \in 1..Len(UnitsOf[r])
      <3>. DEFINE x == sess[r][k]
      <3>1. x \in Sessions /\ UnitsOf[r][k] = Unit(x) /\ k \in 1..Len(UnitsOf[r])
        BY <1>1, UnitsAre
      <3>2. d = Kept(x)
        BY <1>8
      <3>. HIDE DEF x
      <3>. QED BY <3>1, <3>2, UnitFields DEF Units!Keeps, Kept
    <2>. QED BY <1>3, <1>4, <1>6, <2>1 DEF Units!Fail
  <1>. QED BY <1>7, <1>8

\* A failure ends a session: its unit is abandoned.
LEMMA OverAbandons ==
  ASSUME TypeOK, NEW r \in Requests, NEW k \in 1..Len(sess[r]),
         NEW x \in Sessions, UnitsOf[r][k] = Unit(x),
         NEW s \in Sessions, Update(r, k, s),
         s.kind = x.kind, s.schema = x.schema, s.dirty = x.dirty,
         s.durable = x.durable, s.spoilt = (x.spoilt \/ x.kind = "byid"),
         s.phase # "open", exc' = exc, answer' = answer, tenant' = tenant,
         exc[r] # "none", Units!Innermost(r, k), Units!Ending(r)
  PROVE  Units!Abandon(r, k)
  <1>1. Unit(s) = Units!Over(UnitsOf[r][k], s.durable, s.spoilt)
    BY UnitOver
  <1>2. /\ s.durable = UnitsOf[r][k].durable
        /\ s.spoilt = (UnitsOf[r][k].spoilt \/ Units!Named(UnitsOf[r][k]))
    BY UnitFields DEF Units!Named
  <1>3. UnitsOf' = [UnitsOf EXCEPT ![r][k] = Unit(s)]
    BY UnitsUpdate
  <1>4. UnitsOf' = [UnitsOf EXCEPT ![r][k] =
          Units!Over(@, @.durable, @.spoilt \/ Units!Named(@))]
    BY <1>1, <1>2, <1>3
  <1>. QED BY <1>4, OwnSame DEF Units!Abandon, HasFailed

LEMMA RollbackRefines ==
  ASSUME TypeOK, WorkInv, NEW r \in Requests,
         NEW k \in 1..Len(sess[r]), Rollback(r, k)
  PROVE  Units!Abandon(r, k)
  <1>. DEFINE x == sess[r][k]
              f == Ended(x, x.durable)
              s == GivenUp(f)
  <1>1. x \in Sessions /\ UnitsOf[r][k] = Unit(x)
    <2>1. x \in Sessions
      BY DEF TypeOK
    <2>. QED BY <2>1, UnitsAre
  <1>2. /\ f \in Sessions /\ f.kind = x.kind /\ f.schema = x.schema
        /\ f.dirty = x.dirty /\ f.durable = x.durable /\ f.spoilt = x.spoilt
        /\ f.phase = "ended"
    BY <1>1 DEF Ended, Sessions
  <1>3. /\ s \in Sessions /\ s.kind = x.kind /\ s.schema = x.schema
        /\ s.dirty = x.dirty /\ s.durable = x.durable /\ s.phase # "open"
        /\ s.spoilt = (x.spoilt \/ x.kind = "byid")
    <2>. HIDE DEF f
    <2>. QED BY <1>2, FieldTypes DEF GivenUp, Sessions
  <1>4. /\ pc[r] # "done" /\ exc[r] # "none" /\ exc' = exc /\ answer' = answer
        /\ tenant' = tenant /\ Update(r, k, s)
        /\ Units!Innermost(r, k) /\ Units!Ending(r)
    BY EndingWhen, TopIsInnermost DEF Rollback, Leaves
  <1>. HIDE DEF s, f, x
  <1>. QED BY <1>1, <1>3, <1>4, OverAbandons

\* close() ends what a cancellation left open, and nothing else.
LEMMA CloseRefines ==
  ASSUME TypeOK, WorkInv, NEW r \in Requests,
         NEW k \in 1..Len(sess[r]), Close(r, k)
  PROVE  Units!Abandon(r, k) \/ UnitsSame
  <1>. DEFINE x == sess[r][k]
  <1>1. x \in Sessions /\ UnitsOf[r][k] = Unit(x)
    <2>1. x \in Sessions
      BY DEF TypeOK
    <2>. QED BY <2>1, UnitsAre
  <1>2. PICK s \in Sessions :
          /\ Update(r, k, s)
          /\ s.phase = "closed" /\ s.kind = x.kind /\ s.schema = x.schema
          /\ s.dirty = x.dirty /\ s.durable = x.durable
          /\ s.spoilt = IF x.phase = "ended" THEN x.spoilt
                        ELSE x.spoilt \/ x.kind = "byid"
    BY ClosedEffect
  <1>3. /\ pc[r] # "done" /\ exc' = exc /\ answer' = answer /\ tenant' = tenant
        /\ Top(r, k) /\ (x.phase = "ended" \/ exc[r] = "cancel") /\ x.phase # "closed"
    BY DEF Close, Leaves, Top, Unclosed
  <1>4. CASE x.phase = "open"
    <2>1. exc[r] # "none" /\ Units!Innermost(r, k) /\ Units!Ending(r)
      BY <1>3, <1>4, EndingWhen, TopIsInnermost
    <2>. HIDE DEF x
    <2>. QED BY <1>1, <1>2, <1>3, <1>4, <2>1, OverAbandons
  <1>5. CASE x.phase = "ended"
    <2>1. Unit(s) = UnitsOf[r][k]
      BY <1>1, <1>2, <1>5 DEF Unit
    <2>2. UnitsOf' = UnitsOf
      BY <1>2, <2>1, UnitsUpdate, UnitsUntouched
    <2>. QED BY <1>3, <2>2, OwnSame DEF UnitsSame, HasFailed
  <1>. QED BY <1>1, <1>3, <1>4, <1>5, FieldTypes

LEMMA ConnectRefines ==
  ASSUME TypeOK, NEW r \in Requests, Connect(r)
  PROVE  UnitsSame
  <1>. DEFINE k == want[r]
              s == [sess[r][k] EXCEPT !.conn = TRUE]
  <1>1. k \in 1..Len(sess[r])
    BY DEF TypeOK, Connect
  <1>2. sess[r][k] \in Sessions
    BY <1>1 DEF TypeOK
  <1>3. /\ s \in Sessions /\ Update(r, k, s) /\ exc' = exc /\ answer' = answer
        /\ tenant' = tenant
    BY <1>2 DEF Connect, Sessions
  <1>4. Unit(s) = UnitsOf[r][k]
    <2>1. UnitsOf[r][k] = Unit(sess[r][k])
      BY <1>1, UnitsAre
    <2>2. /\ s.kind = sess[r][k].kind /\ s.schema = sess[r][k].schema
          /\ s.dirty = sess[r][k].dirty /\ s.durable = sess[r][k].durable
          /\ s.spoilt = sess[r][k].spoilt /\ s.phase = sess[r][k].phase
      BY <1>2 DEF Sessions
    <2>. HIDE DEF k, s
    <2>. QED BY <2>1, <2>2 DEF Unit
  <1>. HIDE DEF k, s
  <1>5. UnitsOf' = UnitsOf
    BY <1>1, <1>3, <1>4, UnitsUpdate, UnitsUntouched
  <1>. QED BY <1>3, <1>5, OwnSame DEF UnitsSame, HasFailed

\* An answer that is sent first.
LEMMA ReturnRefines ==
  ASSUME TypeOK, WorkInv, NEW r \in Requests, RequestInv(r), Return(r)
  PROVE  Units!Tell(r) \/ UnitsSame
  <1>1. /\ UnitsOf' = UnitsOf /\ HasFailed' = HasFailed /\ OwnSchema' = OwnSchema
        /\ pc[r] = "body"
    BY OwnSame DEF Return, Running, UnitsOf, HasFailed
  <1>2. answer[r] = "none" /\ ~HasFailed[r]
    BY <1>1, WorkingWhen DEF Units!Working, Units!Whole
  <1>3. CASE r \in AnswerFirst
    BY <1>1, <1>2, <1>3 DEF Return, Units!Tell
  <1>4. CASE r \notin AnswerFirst
    BY <1>1, <1>4 DEF Return, UnitsSame, TypeOK
  <1>. QED BY <1>3, <1>4

\* One that is sent last; there is none when the request was cancelled.
LEMMA FinishRefines ==
  ASSUME TypeOK, NEW r \in Requests, Finish(r)
  PROVE  Units!Tell(r) \/ UnitsSame
  <1>1. /\ UnitsOf' = UnitsOf /\ HasFailed' = HasFailed /\ OwnSchema' = OwnSchema
        /\ Unclosed(r) = {}
    BY OwnSame DEF Finish, UnitsOf, HasFailed
  <1>2. \A k \in 1..Len(UnitsOf[r]) : UnitsOf[r][k].over
    <2>1. ASSUME NEW k \in 1..Len(sess[r]) PROVE UnitsOf[r][k].over
      <3>1. sess[r][k].phase = "closed"
        BY <1>1 DEF Unclosed
      <3>. QED BY <3>1, UnitsAre, UnitFields
    <2>. QED BY <2>1, UnitsAre
  <1>3. CASE answer[r] # "none" \/ exc[r] = "cancel"
    BY <1>1, <1>3 DEF Finish, UnitsSame, TypeOK
  <1>4. CASE answer[r] = "none" /\ exc[r] # "cancel"
    <2>1. answer' = [answer EXCEPT ![r] = IF HasFailed[r] THEN "error" ELSE "ok"]
      BY <1>4 DEF Finish, HasFailed
    <2>. QED BY <1>1, <1>2, <1>4, <2>1 DEF Units!Tell
  <1>. QED BY <1>3, <1>4

LEMMA StepRefines ==
  ASSUME IInv, WorkInv, NEW r \in Requests, Progress(r) \/ Choice(r)
  PROVE  Units!AbsNext \/ UnitsSame
  <1>1. TypeOK /\ RequestInv(r) /\ DOMAIN UnitsOf[r] = 1..Len(sess[r])
        /\ Len(UnitsOf[r]) = Len(sess[r])
    BY UnitsAre DEF IInv
  <1>2. CASE \/ StartBody(r) \/ LeaveById(r) \/ Unwind(r)
             \/ \E k \in 1..Len(sess[r]) : Execute(r, k) \/ Flush(r, k)
    <2>1. sess' = sess /\ exc' = exc /\ answer' = answer /\ tenant' = tenant
      BY <1>2 DEF StartBody, LeaveById, Unwind, Execute, Flush
    <2>. QED BY <2>1, OwnSame DEF UnitsSame, UnitsOf, HasFailed
  <1>3. CASE \/ InjectTenantFails(r) \/ PoolTimeout(r) \/ Raise(r) \/ Cancel(r)
             \/ \E k \in 1..Len(sess[r]) : CommitRefused(r, k)
    <2>1. /\ pc[r] # "done" /\ sess' = sess /\ answer' = answer /\ tenant' = tenant
          /\ \E e \in {"error", "cancel"} : exc' = [exc EXCEPT ![r] = e]
      BY <1>1, <1>3 DEF InjectTenantFails, PoolTimeout, Raise, Cancel, Injects,
                        Running, CommitRefused, Leaves, RequestInv, WaitsUnheld
    <2>. QED BY <1>1, <2>1, FailRefines DEF Units!AbsNext
  <1>4. CASE \/ InjectPublic(r) \/ InjectTenant(r)
             \/ \E x \in Tenants \cup {NoTenant} : EnterById(r, x)
    BY <1>1, <1>4, BeginRefines DEF Units!AbsNext
  <1>12. CASE \E x \in Tenants : SetTenant(r, x)
    BY <1>1, <1>12, TurnRefines DEF Units!AbsNext
  <1>13. CASE \E k \in 1..Len(sess[r]), e \in {"error", "cancel"} :
                StatementFails(r, k, e)
    BY <1>1, <1>13, SpoilRefines DEF Units!AbsNext
  <1>14. CASE Catch(r)
    BY <1>1, <1>14, RecoverRefines DEF Units!AbsNext
  <1>5. CASE \E k \in 1..Len(sess[r]) : Add(r, k)
    BY <1>1, <1>5, WriteRefines DEF Units!AbsNext
  <1>6. CASE \E k \in 1..Len(sess[r]) : Commit(r, k)
    BY <1>1, <1>6, CommitRefines DEF Units!AbsNext
  <1>7. CASE \E k \in 1..Len(sess[r]) : CommitFails(r, k) \/ CommitCancelled(r, k)
    BY <1>1, <1>7, CommitFailRefines DEF Units!AbsNext
  <1>8. CASE \E k \in 1..Len(sess[r]) : Rollback(r, k)
    BY <1>1, <1>8, RollbackRefines DEF Units!AbsNext
  <1>9. CASE \E k \in 1..Len(sess[r]) : Close(r, k)
    BY <1>1, <1>9, CloseRefines DEF Units!AbsNext
  <1>10. CASE Connect(r)
    BY <1>1, <1>10, ConnectRefines
  <1>11. CASE Return(r) \/ Finish(r)
    BY <1>1, <1>11, ReturnRefines, FinishRefines DEF Units!AbsNext
  <1>. QED BY <1>2, <1>3, <1>4, <1>5, <1>6, <1>7, <1>8, <1>9, <1>10, <1>11,
              <1>12, <1>13, <1>14 DEF Progress, Choice

\* The sessions behave like nested units of work, whatever fails, waits, is
\* cancelled or is caught: each is in the schema its own request had when it
\* began, and is committed whole and inside out, none while a failure is on its
\* way and none at all once one has reached an injected session; and the client
\* hears of success only when all are over, or first if the answer goes first.
THEOREM SessionsAreUnits == Spec => UnitsSpec
  <1>1. Init => Units!AbsInit
    <2>. SUFFICES ASSUME Init PROVE Units!AbsInit
      OBVIOUS
    <2>1. ASSUME NEW r \in Requests PROVE UnitsOf[r] = <<>>
      <3>1. TypeOK /\ Len(sess[r]) = 0
        BY InitIInv DEF Init, IInv
      <3>2. UnitsOf[r] \in Seq({Unit(s) : s \in Sessions}) /\ Len(UnitsOf[r]) = 0
        BY <3>1, UnitsAre
      <3>. QED BY <3>2
    <2>2. UnitsOf = [r \in Requests |-> <<>>]
      BY <2>1 DEF UnitsOf
    <2>3. OwnSchema \in [Requests ->
            (IF TenantEnabled THEN Tenants \ InvalidTenants ELSE {Public})
              \cup {NoTenant}]
      BY InitIInv, OwnIs DEF IInv, OwnSchema
    <2>. QED BY <2>2, <2>3 DEF Init, Units!AbsInit, HasFailed
  <1>2. IInv /\ WorkInv /\ [Next]_vars => [Units!AbsNext]_(Units!absVars)
    <2>. SUFFICES ASSUME IInv, WorkInv, [Next]_vars
                  PROVE  Units!AbsNext \/ UnitsSame
      BY DEF UnitsSame, Units!absVars
    <2>1. CASE UNCHANGED vars
      BY <2>1, OwnSame DEF vars, UnitsSame, UnitsOf, HasFailed
    <2>. QED BY <2>1, StepRefines DEF Next, AllDone
  <1>. QED BY IInvariant, WorkInvariant, <1>1, <1>2, PTL
       DEF Spec, UnitsSpec, Units!AbsSpec
=============================================================================
