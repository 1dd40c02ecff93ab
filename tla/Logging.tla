------------------------------ MODULE Logging ------------------------------
(***************************************************************************)
(* backend/common/log.py, setup_logging to close_logging: which sinks are  *)
(* mounted, how records of the program and of the standard library reach   *)
(* them, and what their threads write, beside what a library prints with a *)
(* handler of its own.  A record is known by its number; formats, rotation *)
(* and the stack walk of InterceptHandler are left out.  Lifecycle gives   *)
(* these operations their order.                                           *)
(***************************************************************************)
EXTENDS Naturals, Sequences, FiniteSets, Functions

CONSTANT Settings \* the LOG_ and DATABASE_ECHO settings to be started with

\* Two levels stand for the order of all; what is below ERROR is Info.
Info == 1
Error == 2

ASSUME SettingsAssumption ==
  Settings \subseteq [mode : {"text", "json", "both"}, file : BOOLEAN,
                      consoleLevel : {Info, Error}, jsonLevel : {Info, Error},
                      fileLevel : {Info, Error},
                      echo : BOOLEAN, echoPool : BOOLEAN]

Sinks == {"default", "text", "json", "both", "access", "error"}
\* Who logs: the program, uvicorn's access log, what SQLAlchemy can echo, the
\* lifespan and its teardowns.
Sources == {"program", "access", "sql", "lifespan", "postgres", "redis", "logging"}
Outputs == {"console", "json", "access", "error"}

\* The loggers SQLAlchemy logs to, its engines and its pools, whose full name
\* is sqlalchemy.pool.impl.AsyncAdaptedQueuePool.
EchoLoggers == {"sqlalchemy.engine.Engine", "sqlalchemy.pool"}

\* "asyncio" stands for every other logger the setup does not name; loggers
\* in between to which nobody attaches anything are left out.
Parent == [l \in {"fastapi", "sqlalchemy.engine", "uvicorn", "uvicorn.error",
                  "uvicorn.access", "asyncio"} \cup EchoLoggers |->
             CASE l \in {"uvicorn.error", "uvicorn.access"} -> "uvicorn"
               [] l = "sqlalchemy.engine.Engine" -> "sqlalchemy.engine"
               [] OTHER -> "root"]
Loggers == DOMAIN Parent \cup {"root"}

VARIABLES
  settings,   \* those of this process
  sinks,      \* loguru's handlers
  handlers,   \* handlers[l]: what is attached to the logger l: "none", "own",
              \* "intercept" or "null"
  propagates, \* the loggers that also hand a record to their parent
  records,    \* every record so far: its level, where it came from and
              \* whether anything was mounted then
  queue,      \* queue[s]: the records on their way to s
  written,    \* written[o]: the records that o shows
  printed     \* the records that libraries' own handlers put on stdout

logVars == <<settings, sinks, handlers, propagates, records, queue, written, printed>>

LogTypeOK ==
  /\ settings \in Settings
  /\ sinks \subseteq Sinks
  /\ handlers \in [Loggers -> {"none", "own", "intercept", "null"}]
  /\ propagates \subseteq DOMAIN Parent
  /\ records \in Seq([level : {Info, Error}, from : Sources, mounted : BOOLEAN])
  /\ queue \in [Sinks -> Seq(DOMAIN records)]
  /\ \A s \in Sinks \ sinks : queue[s] = <<>>
  /\ written \in [Outputs -> Seq(DOMAIN records)]
  /\ printed \in Seq(DOMAIN records)

\* An engine made with echo gives the logger of its class a handler, and one
\* made with echo_pool that of its pool, where none has one yet.
Echoed(echo, echoPool) ==
  {l \in EchoLoggers : IF l = "sqlalchemy.pool" THEN echoPool ELSE echo}

\* loguru's handler on stderr, the logging configuration of uvicorn, and the
\* engine that the import makes.
LogInit ==
  /\ settings \in Settings
  /\ sinks = {"default"}
  /\ handlers = [l \in Loggers |->
                   IF l \in {"uvicorn", "uvicorn.access"}
                              \cup Echoed(settings.echo, settings.echoPool)
                   THEN "own" ELSE "none"]
  /\ propagates = DOMAIN Parent \ {"uvicorn", "uvicorn.access"}
  /\ records = <<>>
  /\ queue = [s \in Sinks |-> <<>>]
  /\ written = [o \in Outputs |-> <<>>]
  /\ printed = <<>>

-----------------------------------------------------------------------------
(* Sinks. *)

StdoutSink == {settings.mode}
FileSinks == IF settings.file THEN {"access", "error"} ELSE {}
Mounted == StdoutSink \cup FileSinks

\* The level= of the sinks.
Threshold(s) ==
  CASE s = "default" -> Info
    [] s = "text"    -> settings.consoleLevel
    [] s = "json"    -> settings.jsonLevel
    [] s = "both"    -> IF settings.consoleLevel < settings.jsonLevel
                        THEN settings.consoleLevel ELSE settings.jsonLevel
    [] s = "access"  -> settings.fileLevel
    [] s = "error"   -> Error

\* Where the sink s writes a record of this level.
Shows(s, level) ==
  CASE s \in {"default", "text"} -> {"console"}
    [] s = "both" ->
         {o \in {"console", "json"} :
            level >= IF o = "console" THEN settings.consoleLevel
                     ELSE settings.jsonLevel}
    [] OTHER -> {s}

\* The thread of s writes the oldest record of its queue.
Write(s) ==
  /\ queue[s] # <<>>
  /\ LET n == Head(queue[s])
         shown == Shows(s, records[n].level) IN
       written' = [o \in Outputs |-> IF o \in shown THEN Append(written[o], n)
                                     ELSE written[o]]
  /\ queue' = [queue EXCEPT ![s] = Tail(@)]
  /\ UNCHANGED <<settings, sinks, handlers, propagates, records, printed>>

-----------------------------------------------------------------------------
(* Records. *)

\* The logger hands the record to each of the mounted sinks, copies times.
Deliver(level, from, copies, mounted) ==
  LET n == Len(records) + 1 IN
  /\ records' = Append(records, [level |-> level, from |-> from,
                                 mounted |-> mounted # {}])
  /\ queue' = [s \in Sinks |->
                 IF s \in mounted /\ level >= Threshold(s)
                 THEN queue[s] \o [i \in 1..copies |-> n] ELSE queue[s]]

\* log.info and its like.
Log(level, from) ==
  /\ Deliver(level, from, 1, sinks)
  /\ UNCHANGED <<settings, sinks, handlers, propagates, written, printed>>

\* init_db_engine: an engine is made as the settings say or as its caller
\* does, and the program logs it.
MakeEngine(echo, echoPool) ==
  /\ handlers' = [l \in Loggers |->
                    IF l \in Echoed(echo, echoPool) THEN "own" ELSE handlers[l]]
  /\ Deliver(Info, "program", 1, sinks)
  /\ UNCHANGED <<settings, sinks, propagates, written, printed>>

\* The loggers whose handlers see a record of l: those that propagate hand it
\* to their parents, and no logger is more than two steps below the root.
Up(S) == S \cup {Parent[m] : m \in S \cap propagates}
Reached(l) == Up(Up({l}))

Origin(l) ==
  CASE l = "uvicorn.access" -> "access"
    [] l \in EchoLoggers -> "sql"
    [] OTHER -> "program"

\* The standard library's logger l is given a record: every InterceptHandler
\* it reaches passes it on, every handler of a library's own prints it.
StandardLog(level, l) ==
  LET of(kind) == Cardinality({m \in Reached(l) : handlers[m] = kind}) IN
  /\ Deliver(level, Origin(l), of("intercept"), sinks)
  /\ printed' = printed \o [i \in 1..of("own") |-> Len(records) + 1]
  /\ UNCHANGED <<settings, sinks, handlers, propagates, written>>

-----------------------------------------------------------------------------
(* Setting up and closing. *)

Intercepted == {"fastapi", "sqlalchemy.engine", "uvicorn", "uvicorn.error"}

ReplaceHandlers ==
  handlers' = [l \in Loggers |->
    CASE l \in Intercepted \cup {"root"} -> "intercept"
      [] l = "uvicorn.access" -> "null"
      [] OTHER -> handlers[l]]

\* A bug: the records still go up as well.
BugTakeOver == ReplaceHandlers /\ UNCHANGED propagates

TakeOver ==
  /\ ReplaceHandlers
  /\ propagates' = propagates \ (Intercepted \cup {"uvicorn.access"})

\* setup_logging, and the first record after it.
SetupLogging(from) ==
  /\ sinks' = Mounted
  /\ TakeOver
  /\ Deliver(Info, from, 1, Mounted)
  /\ UNCHANGED <<settings, written, printed>>

\* The log directory or one of the files cannot be made: what was mounted
\* stays, the standard library is not taken over.
SetupFails ==
  /\ settings.file
  /\ sinks' \in {StdoutSink, StdoutSink \cup {"access"}}
  /\ UNCHANGED <<settings, handlers, propagates, records, queue, written, printed>>

\* A bug: the sinks go without waiting for their queues.
BugCloseLogging ==
  /\ sinks' = {}
  /\ UNCHANGED <<settings, handlers, propagates, records, queue, written, printed>>

\* close_logging: logger.complete waits until the queues are empty, and the
\* removal of a sink waits for its thread.
CloseLogging ==
  /\ \A s \in sinks : queue[s] = <<>>
  /\ sinks' = {}
  /\ UNCHANGED <<settings, handlers, propagates, records, queue, written, printed>>

-----------------------------------------------------------------------------
\* What the settings say a record of this level is shown on.
Asked(level) ==
  {o \in Outputs :
     CASE o = "console" -> settings.mode # "json" /\ level >= settings.consoleLevel
       [] o = "json"    -> settings.mode # "text" /\ level >= settings.jsonLevel
       [] o = "access"  -> settings.file /\ level >= settings.fileLevel
       [] o = "error"   -> settings.file /\ level = Error}

\* The one sink that feeds the output o.
Feeds(o) == IF o \in {"console", "json"} THEN settings.mode ELSE o

Due(o, n) ==
  records[n].mounted /\ records[n].from # "access" /\ o \in Asked(records[n].level)

InTurn(ns) == \A i, j \in 1..Len(ns) : i < j => ns[i] < ns[j]

\* Whatever route a record takes, through whichever logger, each of the sinks
\* that the settings ask for shows it once and in its turn, and no other sink
\* does; uvicorn's access log is dropped, as is what comes when nothing is
\* mounted any more.  Of the handlers that libraries brought along none prints
\* any more but SQLAlchemy's, and that only what SQLAlchemy logs.
ShownAsAsked ==
  /\ \A o \in Outputs :
       LET coming == queue[Feeds(o)] IN
       /\ InTurn(written[o] \o coming)
       /\ \A n \in DOMAIN records :
            Due(o, n) <=> \/ n \in Range(written[o])
                          \/ /\ n \in Range(coming)
                             /\ o \in Shows(Feeds(o), records[n].level)
  /\ \A n \in Range(printed) : records[n].from = "sql"
=============================================================================
