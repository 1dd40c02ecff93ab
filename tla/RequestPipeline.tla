-------------------------- MODULE RequestPipeline --------------------------
(***************************************************************************)
(* The way of an HTTP request through the layers register_app installs,    *)
(* outermost first: the server-error layer with the handler of last        *)
(* resort, whatever layers the host application added, CORS,               *)
(* ContextMiddleware, the exception layer with the handlers of             *)
(* backend/common/exception/handler.py, and the route.                     *)
(*                                                                         *)
(* What is followed is the trace id (in the context, the log lines, the    *)
(* answer's header and its body), the number of answers, and what an error *)
(* answer tells.                                                           *)
(***************************************************************************)
EXTENDS Naturals, FiniteSets

CONSTANTS
  Requests,
  NoTrace,     \* no trace id; in a log line TRACE_ID_LOG_DEFAULT
  MaxFresh     \* bound: ids gen_trace_id makes

\* Clients' own ids differ from each other and from generated ones (UUIDs).
ASSUME ConstantAssumption ==
  /\ MaxFresh \in Nat
  /\ NoTrace \notin Requests \cup Nat
  /\ Requests \cap Nat = {}

VARIABLES
  settings, \* the settings the process was started with
  input,    \* input[r]: what the client sent
  pc,       \* "outer", "bound", "failed" (an exception above the context), "done"
  state,    \* state[r]: scope['state']['trace_id']
  ctx,      \* ctx[r]: the trace id of the bound RequestContext
  traced,   \* traced[r]: the id ContextMiddleware gave r
  started,  \* started[r]: response-start messages that left the server
  answer,   \* answer[r]: the last of them
  logs,     \* logs[r]: request_id of the log lines the program writes about r
  reports,  \* reports[r]: request_id of those the server writes about r
  fresh     \* ids generated so far

vars == <<settings, input, pc, state, ctx, traced, started, answer, logs, reports,
          fresh>>

Settings == [env : {"development", "test", "production"},
             cors : BOOLEAN, anyOrigin : BOOLEAN, credentials : BOOLEAN]

\* validate_environment_settings refuses to start with other settings.
Startable(s) ==
  ~(s.env = "production" /\ s.cors /\ s.credentials /\ s.anyOrigin)

\* The trace header ("bad": refused by the pattern) and the origin header
\* ("listed": one of CORS_ALLOWED_ORIGINS); preflight: an OPTIONS request.
Inputs == [header : {"none", "good", "bad"},
           origin : {"none", "listed", "other"}, preflight : BOOLEAN]

\* A good header carries the client's own id; the others are generated.
Traces == Requests \cup (1..MaxFresh)

Answers ==
  [status : Nat, message : {"none", "own", "phrase", "generic", "masked"},
   detail : {"none", "code", "explicit", "type", "text"},
   header : Traces \cup {NoTrace}, body : Traces \cup {NoTrace},
   acao : {"none", "any", "echo"}, acac : BOOLEAN]

Nothing == [status |-> 0, message |-> "none", detail |-> "none",
            header |-> NoTrace, body |-> NoTrace,
            acao |-> "none", acac |-> FALSE]

TypeOK ==
  /\ settings \in Settings
  /\ input \in [Requests -> Inputs]
  /\ pc \in [Requests -> {"outer", "bound", "failed", "done"}]
  /\ state \in [Requests -> Traces \cup {NoTrace}]
  /\ ctx \in [Requests -> Traces \cup {NoTrace}]
  /\ traced \in [Requests -> Traces \cup {NoTrace}]
  /\ started \in [Requests -> 0..1]
  /\ logs \in [Requests -> SUBSET (Traces \cup {NoTrace})]
  /\ reports \in [Requests -> SUBSET (Traces \cup {NoTrace})]
  /\ fresh \in 0..MaxFresh
  /\ answer \in [Requests -> Answers]

Init ==
  /\ settings \in {s \in Settings : Startable(s)}
  /\ input \in [Requests -> Inputs]
  /\ pc = [r \in Requests |-> "outer"]
  /\ state = [r \in Requests |-> NoTrace]
  /\ ctx = [r \in Requests |-> NoTrace]
  /\ traced = [r \in Requests |-> NoTrace]
  /\ started = [r \in Requests |-> 0]
  /\ answer = [r \in Requests |-> Nothing]
  /\ logs = [r \in Requests |-> {}]
  /\ reports = [r \in Requests |-> {}]
  /\ fresh = 0

-----------------------------------------------------------------------------
(* Trace ids. *)

\* A generated id is one nobody has; a given one costs nothing.
Takes(id) == IF id \in Requests THEN fresh' = fresh
             ELSE id = fresh + 1 /\ id <= MaxFresh /\ fresh' = id

\* parse_trace_id: the client's id if it is well formed, else a new one.
Parsed(r, id) ==
  id = IF input[r].header = "good" THEN r ELSE fresh + 1

\* _resolve_trace: the middleware's id, else the client's, else a new one.
Resolved(r, id) ==
  IF state[r] # NoTrace THEN id = state[r] /\ fresh' = fresh
  ELSE Parsed(r, id) /\ Takes(id)

-----------------------------------------------------------------------------
(* What the handlers answer. *)

Faults ==
  [type : {"app"}, status : {409, 503}, detail : {"none", "text"}]
  \cup [type : {"http"}, status : {404, 500}, detail : {"none", "string", "object", "odd"}]
  \cup [type : {"http"}, status : {204}, detail : {"none"}]
  \cup [type : {"validation"}, status : {422}, detail : {"text"}]
  \cup [type : {"crash"}, status : {500}, detail : {"text"}]

\* A bug: masking in production only.
BugMaskedProduction(status, message) ==
  IF status >= 500 /\ settings.env = "production" THEN "masked" ELSE message

\* _masked_message.
Masked(status, message) ==
  IF status >= 500 /\ settings.env # "development" THEN "masked" ELSE message

Dev(x, y) == IF settings.env = "development" THEN x ELSE y

\* message and errors[] of the answer to a fault of each handled type; an
\* application exception may bring errors meant for the client ("explicit").
Message(f) ==
  CASE f.type = "app" -> Masked(f.status, "own")
    [] f.type = "http" /\ f.status = 204 -> "none"
    [] f.type = "http" /\ f.status # 204 ->
         Masked(f.status, IF f.detail = "string" THEN "own" ELSE "phrase")
    [] f.type = "validation" -> "generic"

Detail(f) ==
  CASE f.type = "app" -> IF f.detail = "text" THEN "explicit" ELSE "code"
    [] f.type = "http" -> IF f.detail = "object" THEN "text" ELSE "none"
    [] f.type = "validation" -> Dev("text", "type")

\* Handlers that raise themselves: a detail jsonable_encoder cannot encode.
HandlerFails(f) == f.type = "http" /\ f.detail = "odd"
Handled(f) == f.type # "crash" /\ ~HandlerFails(f)

\* _error_response, sent through send_with_trace; a 204 has no body.
ErrorResponse(r, f, id) ==
  [status |-> f.status, message |-> Message(f), detail |-> Detail(f),
   header |-> traced[r], body |-> IF f.status = 204 THEN NoTrace ELSE id,
   acao |-> "none", acac |-> FALSE]

\* _cors_fallback_headers.
BugFallbackOrigin(r) ==
  IF ~settings.cors \/ input[r].origin = "none" THEN "none"
  ELSE IF settings.anyOrigin THEN "any"
  ELSE IF input[r].origin = "listed" THEN "echo" ELSE "none"
FallbackOrigin(r) ==
  IF ~settings.cors \/ input[r].origin = "none" THEN "none"
  ELSE IF settings.anyOrigin
       THEN IF settings.credentials THEN "echo" ELSE "any"
  ELSE IF input[r].origin = "listed" THEN "echo" ELSE "none"

FallbackCredentials(r) == FallbackOrigin(r) # "none" /\ settings.credentials

\* A response-start message that reaches the server.
Send(r, a) ==
  /\ started' = [started EXCEPT ![r] = @ + 1]
  /\ answer' = [answer EXCEPT ![r] = a]

\* A log line the program writes while r is served: the patcher of
\* common/log.py labels it with the bound context, unless the line carries its
\* own request_id.
Log(r, id) == logs' = [logs EXCEPT ![r] = @ \cup {id}]

\* uvicorn.error logs what leaves the application, through InterceptHandler.
ServerLogs(r) == reports' = [reports EXCEPT ![r] = @ \cup {ctx[r]}]

-----------------------------------------------------------------------------
(* The layers. *)

IsPreflight(r) == settings.cors /\ input[r].preflight /\ input[r].origin # "none"

\* CORSMiddleware answers a preflight itself, outside the context.
Preflight(r) ==
  /\ pc[r] = "outer" /\ IsPreflight(r)
  /\ Send(r, [Nothing EXCEPT !.status = 200])
  /\ pc' = [pc EXCEPT ![r] = "done"]
  /\ UNCHANGED <<settings, input, state, ctx, traced, logs, reports, fresh>>

\* An exception in a layer the host application put around these.
OuterFails(r) ==
  /\ pc[r] = "outer"
  /\ pc' = [pc EXCEPT ![r] = "failed"]
  /\ UNCHANGED <<settings, input, state, ctx, traced, started, answer, logs, reports,
                 fresh>>

\* Bug: the middleware forgets scope['state'].
BugEnterContext(r) ==
  /\ pc[r] = "outer" /\ ~IsPreflight(r)
  /\ \E id \in Traces :
       /\ Parsed(r, id) /\ Takes(id)
       /\ ctx' = [ctx EXCEPT ![r] = id]
       /\ traced' = [traced EXCEPT ![r] = id]
  /\ pc' = [pc EXCEPT ![r] = "bound"]
  /\ UNCHANGED <<settings, input, state, started, answer, logs, reports>>

\* ContextMiddleware.__call__ up to the call of the inner application.
EnterContext(r) ==
  /\ pc[r] = "outer" /\ ~IsPreflight(r)
  /\ \E id \in Traces :
       /\ Parsed(r, id) /\ Takes(id)
       /\ state' = [state EXCEPT ![r] = id]
       /\ ctx' = [ctx EXCEPT ![r] = id]
       /\ traced' = [traced EXCEPT ![r] = id]
  /\ pc' = [pc EXCEPT ![r] = "bound"]
  /\ UNCHANGED <<settings, input, started, answer, logs, reports>>

\* The route logs.
RouteLogs(r) ==
  /\ pc[r] = "bound"
  /\ Log(r, ctx[r])
  /\ UNCHANGED <<settings, input, pc, state, ctx, traced, started, answer, reports,
                 fresh>>

\* The route's response starts; send_with_trace sets its trace header.
RouteAnswers(r) ==
  /\ pc[r] = "bound" /\ started[r] = 0
  /\ Send(r, [Nothing EXCEPT !.status = 200, !.header = traced[r]])
  /\ UNCHANGED <<settings, input, pc, state, ctx, traced, logs, reports, fresh>>

\* ... and is complete: the context is reset.
RouteEnds(r) ==
  /\ pc[r] = "bound" /\ started[r] > 0
  /\ pc' = [pc EXCEPT ![r] = "done"]
  /\ ctx' = [ctx EXCEPT ![r] = NoTrace]
  /\ UNCHANGED <<settings, input, state, traced, started, answer, logs, reports, fresh>>

\* _handle_app_exception, _handle_http_exception, _handle_validation_error:
\* inside the context, through send_with_trace, before any answer started.
RouteFailsHandled(r, f) ==
  /\ pc[r] = "bound" /\ Handled(f) /\ started[r] = 0
  /\ \E id \in Traces :
       Resolved(r, id) /\ Send(r, ErrorResponse(r, f, id))
  /\ Log(r, ctx[r])
  /\ pc' = [pc EXCEPT ![r] = "done"]
  /\ ctx' = [ctx EXCEPT ![r] = NoTrace]
  /\ UNCHANGED <<settings, input, state, traced, reports>>

\* Nobody handles it, its handler fails, or the answer has already started:
\* the exception leaves the context, which is reset on the way.
RouteFails(r, f) ==
  /\ pc[r] = "bound" /\ (~Handled(f) \/ started[r] > 0)
  /\ \/ HandlerFails(f) /\ started[r] = 0 /\ Log(r, ctx[r])
     \/ ~(HandlerFails(f) /\ started[r] = 0) /\ UNCHANGED logs
  /\ pc' = [pc EXCEPT ![r] = "failed"]
  /\ ctx' = [ctx EXCEPT ![r] = NoTrace]
  /\ UNCHANGED <<settings, input, state, traced, started, answer, reports, fresh>>

LastResort(r, id) ==
  [status |-> 500, message |-> Dev("own", "masked"), detail |-> "none",
   header |-> id, body |-> id,
   acao |-> FallbackOrigin(r), acac |-> FallbackCredentials(r)]

\* A bug: the answer is always sent.
BugUnhandledResends(r) ==
  /\ pc[r] = "failed"
  /\ \E id \in Traces :
       Resolved(r, id) /\ Log(r, id) /\ Send(r, LastResort(r, id))
  /\ ServerLogs(r)
  /\ pc' = [pc EXCEPT ![r] = "done"]
  /\ UNCHANGED <<settings, input, state, ctx, traced>>

\* _handle_unhandled_exception in the outermost layer: no context any more, so
\* the log line is bound to the id; the answer is sent unless one started.  The
\* layer then raises the exception again, and the server logs it.
Unhandled(r) ==
  /\ pc[r] = "failed"
  /\ \E id \in Traces :
       /\ Resolved(r, id) /\ Log(r, id)
       /\ IF started[r] = 0 THEN Send(r, LastResort(r, id))
                            ELSE UNCHANGED <<started, answer>>
  /\ ServerLogs(r)
  /\ pc' = [pc EXCEPT ![r] = "done"]
  /\ UNCHANGED <<settings, input, state, ctx, traced>>

-----------------------------------------------------------------------------
Step(r) ==
  \/ Preflight(r) \/ OuterFails(r) \/ EnterContext(r)
  \/ RouteLogs(r) \/ RouteAnswers(r) \/ RouteEnds(r)
  \/ \E f \in Faults : RouteFailsHandled(r, f) \/ RouteFails(r, f)
  \/ Unhandled(r)

Next == \E r \in Requests : Step(r)

Spec == Init /\ [][Next]_vars

-----------------------------------------------------------------------------
(* What it is for. *)

\* One trace id per request: whatever layer answers and whatever failed, the
\* answer's header and every log line of the program's own carry the id the
\* middleware gave it, or all the same one when it was never reached: the
\* client's own id if that was well formed, else a generated one.  An error's
\* body says it as well; only a preflight, which never reaches the context, is
\* answered without.  What the server logs about a failure carries none, but
\* the program has logged that failure before it.
OneTrace ==
  \A r \in Requests :
    LET seen == (logs[r] \cup {traced[r], answer[r].header, answer[r].body}) \ {NoTrace}
    IN /\ Cardinality(seen) <= 1
       /\ NoTrace \notin logs[r]
       /\ IF input[r].header = "good" THEN seen \subseteq {r}
                                      ELSE seen \cap Requests = {}
       /\ started[r] = 1 /\ answer[r].header = NoTrace =>
            IsPreflight(r) /\ answer[r].status = 200
       /\ answer[r].status >= 400 => answer[r].body = answer[r].header
       /\ reports[r] # {} => reports[r] = {NoTrace} /\ logs[r] # {}

\* A client sees one answer, however late the request fails; and a request
\* that ended was answered.
OneAnswer ==
  \A r \in Requests : started[r] <= 1 /\ (pc[r] = "done" => started[r] = 1)

\* Outside development no error answer of 500 or above has the exception's own
\* text as its message, whichever handler wrote it.
MessageMasked ==
  \A r \in Requests :
    answer[r].status >= 500 /\ settings.env # "development"
      => answer[r].message # "own"

\* The last resort's CORS headers never say "any origin, with credentials", and
\* in production credentials go to listed origins only.
FallbackCorsSound ==
  \A r \in Requests : answer[r].acac =>
    /\ answer[r].acao = "echo"
    /\ settings.env = "production" => input[r].origin = "listed"

\* What the comment of _masked_message says: outside development an answer of
\* 500 or above shows no detail of the exception.
DetailMasked ==
  \A r \in Requests :
    answer[r].status >= 500 /\ settings.env # "development"
      => answer[r].message # "own" /\ answer[r].detail # "text"
=============================================================================
