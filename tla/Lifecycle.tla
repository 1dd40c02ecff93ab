----------------------------- MODULE Lifecycle -----------------------------
(***************************************************************************)
(* register_lifespan of backend/core/registrar.py with the resources it    *)
(* starts and releases: the logging of Logging, the engine of postgres.py  *)
(* and the pool of redis.py, which may be replaced at any time, while      *)
(* coroutines take and give back connections and log.  Both teardowns of a *)
(* pool await, so others run in the middle of them.                        *)
(***************************************************************************)
EXTENDS Logging

CONSTANTS
  Users,     \* coroutines that take connections
  Nothing,   \* held by a user without a connection
  Gone,      \* held in place of a pool that its engine has replaced
  MaxPools,  \* bound: engines, and redis pools, that are ever made
  MaxOthers  \* bound: records that the lifespan does not log

ASSUME LifecycleAssumption ==
  /\ IsFiniteSet(Users)
  /\ MaxPools \in Nat \ {0} /\ MaxOthers \in Nat
  /\ Nothing # Gone
  /\ {Nothing, Gone} \cap ({"postgres", "redis"} \X (1..MaxPools)) = {}

Kinds == {"postgres", "redis"}
Pools == Kinds \X (1..MaxPools)

VARIABLES
  pc,      \* "down", "serving", "closing", "disconnecting" within the teardown
           \* of redis, "stopped", "cancelled", "failed"
  left,    \* the teardowns still to be made
  failed,  \* the teardowns that raised
  current, \* current[k]: which pool the module's global is
  idle,    \* idle[p]: how many open connections p keeps for later
  held,    \* held[u]: the pool that u's connection goes back to, or Gone
           \* when its engine has left that one behind
  cut,     \* those whose connection was closed while they held it
  stray,   \* open connections in pools that their engine left behind
  late     \* kinds of which a connection was opened behind their teardown

vars == <<logVars, pc, left, failed, current, idle, held, cut, stray, late>>
poolVars == <<current, idle, held, cut, stray, late>>

\* A bug: what was set up last is closed first.
BugTeardowns == <<"logging", "redis", "postgres">>

\* In the order of the loop.
Teardowns == <<"postgres", "redis", "logging">>

TypeOK ==
  /\ LogTypeOK
  /\ pc \in {"down", "serving", "closing", "disconnecting", "stopped", "cancelled",
             "failed"}
  /\ left \in Seq(Range(Teardowns))
  /\ pc \in {"down", "serving", "stopped"} => left = <<>>
  /\ failed \subseteq Range(Teardowns) \ Range(left)
  /\ current \in [Kinds -> 1..MaxPools]
  /\ idle \in [Pools -> 0..Cardinality(Users)]
  /\ held \in [Users -> Pools \cup {Nothing, Gone}]
  /\ \A k \in Kinds, g \in 1..MaxPools : g > current[k] =>
       idle[<<k, g>>] = 0 /\ \A u \in Users : held[u] # <<k, g>>
  /\ cut \subseteq {u \in Users : held[u] \in {"redis"} \X (1..MaxPools)}
  /\ stray \in Nat
  /\ late \subseteq Kinds

\* Importing the modules makes the first engine and pool; neither connects.
Init ==
  /\ LogInit
  /\ pc = "down"
  /\ left = <<>>
  /\ failed = {}
  /\ current = [k \in Kinds |-> 1]
  /\ idle = [p \in Pools |-> 0]
  /\ held = [u \in Users |-> Nothing]
  /\ cut = {}
  /\ stray = 0
  /\ late = {}

-----------------------------------------------------------------------------
(* The lifespan. *)

Start ==
  /\ pc = "down"
  /\ pc' = "serving"
  /\ SetupLogging("lifespan")
  /\ UNCHANGED <<left, failed, poolVars>>

StartFails ==
  /\ pc = "down"
  /\ pc' = "failed"
  /\ SetupFails
  /\ UNCHANGED <<left, failed, poolVars>>

\* The server ends the lifespan, or throws into it: finally is entered.
Shutdown ==
  /\ pc = "serving"
  /\ pc' = "closing"
  /\ left' = Teardowns
  /\ Log(Info, "lifespan")
  /\ UNCHANGED <<failed, poolVars>>

Closing(k) == pc = "closing" /\ Head(left) = k

\* The loop goes on to the next teardown, and ends behind the last one.
Advance ==
  /\ left' = Tail(left)
  /\ pc' = IF Tail(left) = <<>> THEN "stopped" ELSE "closing"

\* close_db_engine: dispose closes one connection of the queue after the
\* other, those given back meanwhile too.
DrainOne ==
  /\ Closing("postgres")
  /\ LET p == <<"postgres", current["postgres"]>> IN
       idle[p] > 0 /\ idle' = [idle EXCEPT ![p] = @ - 1]

Drain ==
  /\ DrainOne
  /\ UNCHANGED <<logVars, pc, left, failed, current, held, cut, stray, late>>

\* Where the queue is empty the engine gets another pool: a connection that
\* is still out goes back to the one left behind.
DisposeEngine ==
  /\ Closing("postgres")
  /\ LET p == <<"postgres", current["postgres"]>> IN
       /\ idle[p] = 0
       /\ held' = [u \in Users |-> IF held[u] = p THEN Gone ELSE held[u]]
  /\ Advance
  /\ Log(Info, "postgres")
  /\ UNCHANGED <<failed, current, idle, cut, stray, late>>

\* close_redis_pool: the connections that the pool has now are closed, in use
\* or not, and it stays the pool.
Disconnect ==
  /\ Closing("redis")
  /\ pc' = "disconnecting"
  /\ LET p == <<"redis", current["redis"]>> IN
       /\ idle' = [idle EXCEPT ![p] = 0]
       /\ cut' = cut \cup {u \in Users : held[u] = p}
  /\ UNCHANGED <<logVars, left, failed, current, held, stray, late>>

\* They are all closed: the await returns.
Disconnected ==
  /\ pc = "disconnecting"
  /\ Advance
  /\ Log(Info, "redis")
  /\ UNCHANGED <<failed, poolVars>>

Close ==
  \/ Drain \/ DisposeEngine
  \/ Disconnect \/ Disconnected
  \/ /\ Closing("logging")
     /\ Advance
     /\ CloseLogging
     /\ UNCHANGED <<failed, poolVars>>

InLoop == pc \in {"closing", "disconnecting"}

\* A bug: the loop is inside the try.
BugTeardownFails ==
  /\ InLoop
  /\ failed' = failed \cup {Head(left)}
  /\ left' = <<>> /\ pc' = "stopped"
  /\ Log(Error, Head(left))
  /\ UNCHANGED poolVars

\* A bug: a teardown that raised is tried again behind the others.
BugTeardownRepeats ==
  /\ InLoop
  /\ left' = Append(Tail(left), Head(left)) /\ pc' = "closing"
  /\ UNCHANGED <<failed, logVars, poolVars>>

\* A teardown raises an Exception: it is logged and the loop goes on.
TeardownFails ==
  /\ InLoop
  /\ failed' = failed \cup {Head(left)}
  /\ Advance
  /\ Log(Error, Head(left))
  /\ UNCHANGED poolVars

\* CancelledError is no Exception: it leaves the loop from an await, on a
\* connection that is being closed.  close_logging does not give way.
Cancel ==
  /\ \/ DrainOne
     \/ pc = "disconnecting" /\ UNCHANGED idle
  /\ pc' = "cancelled"
  /\ UNCHANGED <<logVars, left, failed, current, held, cut, stray, late>>

-----------------------------------------------------------------------------
(* The pools. *)

Running == pc \in {"serving", "closing", "disconnecting", "stopped", "cancelled"}
Others == Cardinality({n \in DOMAIN records : records[n].from \notin
                         {"lifespan"} \cup Range(Teardowns)})

\* init_db_engine and init_redis_pool: the one before is only forgotten.
InitPool(k) ==
  /\ Running
  /\ current[k] < MaxPools /\ Others < MaxOthers
  /\ current' = [current EXCEPT ![k] = @ + 1]
  /\ IF k = "postgres" THEN \E echo, echoPool \in BOOLEAN : MakeEngine(echo, echoPool)
                       ELSE Log(Info, "program")
  /\ UNCHANGED <<pc, left, failed, idle, held, cut, stray, late>>

\* The session factory is rebound to the current engine; redis_client as
\* backend.database exports it stays the client of the first pool.
Offered(k) == {current[k]} \cup IF k = "redis" THEN {1} ELSE {}

\* The teardown of k has been made; and that of redis from the moment on at
\* which it knows what to close.
TornDown(k) ==
  pc \in {"closing", "disconnecting", "stopped", "cancelled"} /\ k \notin Range(left)
Behind(k) == TornDown(k) \/ (k = "redis" /\ pc = "disconnecting")

NowLate(k) == late' = IF Behind(k) THEN late \cup {k} ELSE late

\* A session, a health check or a command takes a connection, one that is
\* idle before a new one.
Take(u, k) ==
  /\ Running /\ held[u] = Nothing
  /\ \E g \in Offered(k) :
       /\ held' = [held EXCEPT ![u] = <<k, g>>]
       /\ idle' = [idle EXCEPT ![<<k, g>>] = IF @ = 0 THEN 0 ELSE @ - 1]
  /\ NowLate(k)
  /\ UNCHANGED <<logVars, pc, left, failed, current, cut, stray>>

\* A command on a connection that was closed connects again.
Reopen(u) ==
  /\ u \in cut
  /\ cut' = cut \ {u}
  /\ NowLate("redis")
  /\ UNCHANGED <<logVars, pc, left, failed, current, idle, held, stray>>

GiveBack(u) ==
  /\ held[u] # Nothing
  /\ held' = [held EXCEPT ![u] = Nothing]
  /\ idle' = IF held[u] = Gone \/ u \in cut THEN idle
             ELSE [idle EXCEPT ![held[u]] = @ + 1]
  /\ stray' = IF held[u] = Gone THEN stray + 1 ELSE stray
  /\ cut' = cut \ {u}
  /\ UNCHANGED <<logVars, pc, left, failed, current, late>>

-----------------------------------------------------------------------------
ProgramLogs ==
  /\ Running /\ Others < MaxOthers
  /\ \/ \E level \in {Info, Error} : Log(level, "program")
     \/ \E level \in {Info, Error}, l \in Loggers : StandardLog(level, l)
  /\ UNCHANGED <<pc, left, failed, poolVars>>

SinkWrites(s) == Write(s) /\ UNCHANGED <<pc, left, failed, poolVars>>

Next ==
  \/ Start \/ StartFails \/ Shutdown
  \/ Close \/ TeardownFails \/ Cancel
  \/ \E k \in Kinds : InitPool(k)
  \/ \E u \in Users, k \in Kinds : Take(u, k)
  \/ \E u \in Users : Reopen(u) \/ GiveBack(u)
  \/ ProgramLogs
  \/ \E s \in Sinks : SinkWrites(s)

\* The event loop resumes the lifespan, whose teardowns return or raise; the
\* threads of the sinks write.  Nothing is owed by users or the server.
Fairness ==
  /\ WF_vars(Close \/ TeardownFails)
  /\ WF_vars(\E s \in Sinks : SinkWrites(s))

Spec == Init /\ [][Next]_vars /\ Fairness

-----------------------------------------------------------------------------
\* registrar.py:33 promises that the resources are released each for itself.
\* Behind a teardown that did not raise, the engine or the redis pool that is
\* current keeps no connection open, whatever becomes of the other teardowns,
\* also when the loop is cancelled, and whatever coroutines held, gave back or
\* replaced in the middle of it - unless one was opened behind it.
CurrentReleased ==
  \A k \in Kinds \ (failed \cup late) : TornDown(k) => idle[<<k, current[k]>>] = 0

\* close_db_engine says at postgres.py:80 that it releases all connections.
\* When nobody holds one any more, and none was taken behind it, none that an
\* engine made is open.
EngineReleasesAll ==
  /\ TornDown("postgres") /\ "postgres" \notin failed \cup late
  /\ \A u \in Users : held[u] = Nothing
  => stray = 0 /\ \A g \in 1..MaxPools : idle[<<"postgres", g>>] = 0

\* The outcome of each pool's teardown, success or exception, is shown on all
\* outputs that the settings ask for by the time the loop has ended: logging
\* is closed behind everything that logs.
TeardownsReported ==
  pc = "stopped" /\ "logging" \notin failed =>
    \A k \in Kinds : \E n \in DOMAIN records :
      /\ records[n].from = k
      /\ records[n].level = IF k \in failed THEN Error ELSE Info
      /\ \A o \in Asked(records[n].level) : n \in Range(written[o])

\* Once finally is entered the loop ends, whatever its teardowns do and
\* however much the program logs meanwhile - if coroutines do not take
\* connections for ever, which dispose would have to close for ever.
ShutdownEnds ==
  <>[][\A u \in Users, k \in Kinds : ~Take(u, k)]_vars
    => (InLoop ~> pc \in {"stopped", "cancelled"})
=============================================================================
