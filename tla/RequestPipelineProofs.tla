------------------------ MODULE RequestPipelineProofs ------------------------
(***************************************************************************)
(* Proofs about RequestPipeline for any number of requests and of trace    *)
(* ids: one trace per request; one answer; and what error answers tell.    *)
(***************************************************************************)
EXTENDS RequestPipeline, FiniteSetTheorems, TLAPS

(***************************************************************************)
(* A layer takes the trace id from what an inner or an earlier one left:   *)
(* the properties need that whatever carries an id already, the last       *)
(* resort, which has only scope['state'], finds the same one.              *)
(***************************************************************************)

\* Everything that carries an id of r.
Known(r) ==
  (logs[r] \cup {state[r], ctx[r], traced[r], answer[r].header, answer[r].body})
    \ {NoTrace}

\* An id that r may have when n ids were generated.
OwnId(r, i, n) == IF input[r].header = "good" THEN i = r ELSE i \in 1..n

\* All ids of r are the same, its own one.
OneId(r) ==
  /\ \A i, j \in Known(r) : i = j
  /\ \A i \in Known(r) : OwnId(r, i, fresh)
  /\ NoTrace \notin logs[r]

\* Until r has its answer scope['state'] knows its id, as soon as anything does.
StateKnows(r) == pc[r] # "done" /\ state[r] = NoTrace => Known(r) = {}

\* How far r is.
Progressed(r) ==
  /\ pc[r] = "outer" => state[r] = NoTrace /\ started[r] = 0
  /\ pc[r] = "bound" =>
       state[r] # NoTrace /\ ctx[r] = state[r] /\ traced[r] = state[r]
  /\ pc[r] # "bound" => ctx[r] = NoTrace
  /\ pc[r] = "done" => started[r] = 1

\* What r was told carries its id, but for a preflight's answer.
Marked(r) ==
  /\ started[r] = 1 /\ answer[r].header = NoTrace =>
       IsPreflight(r) /\ answer[r].status = 200
  /\ answer[r].status >= 400 => answer[r].body = answer[r].header

\* The server's lines come beside the program's.
Reported(r) == reports[r] # {} => reports[r] = {NoTrace} /\ logs[r] # {}

RequestInv(r) ==
  OneId(r) /\ StateKnows(r) /\ Progressed(r) /\ Marked(r) /\ Reported(r)

IInv ==
  /\ TypeOK
  /\ Startable(settings)
  /\ \A r \in Requests : RequestInv(r)
  /\ MessageMasked
  /\ FallbackCorsSound

-----------------------------------------------------------------------------
(* Ids and answers. *)

\* A generated id was never used; one from scope['state'] is the old one.
LEMMA TakenId ==
  ASSUME IInv, NEW r \in Requests, NEW id \in Traces, Parsed(r, id), Takes(id)
  PROVE  /\ fresh' \in 0..MaxFresh /\ fresh <= fresh'
         /\ OwnId(r, id, fresh') /\ id # NoTrace
  <1>1. fresh \in 0..MaxFresh /\ MaxFresh \in Nat
    BY ConstantAssumption DEF IInv, TypeOK
  <1>2. CASE input[r].header = "good"
    BY <1>1, <1>2, ConstantAssumption DEF Parsed, Takes, OwnId
  <1>3. CASE input[r].header # "good"
    <2>1. id = fresh + 1 /\ id \notin Requests
      BY <1>1, <1>3, ConstantAssumption DEF Parsed
    <2>. QED BY <1>1, <1>3, <2>1, ConstantAssumption DEF Takes, OwnId
  <1>. QED BY <1>2, <1>3

LEMMA ResolvedId ==
  ASSUME IInv, NEW r \in Requests, NEW id \in Traces, Resolved(r, id), pc[r] # "done"
  PROVE  /\ fresh' \in 0..MaxFresh /\ fresh <= fresh'
         /\ OwnId(r, id, fresh') /\ id # NoTrace
         /\ \A i \in Known(r) : i = id
  <1>1. CASE state[r] = NoTrace
    <2>1. Parsed(r, id) /\ Takes(id)
      BY <1>1 DEF Resolved
    <2>2. Known(r) = {}
      BY <1>1 DEF IInv, RequestInv, StateKnows
    <2>. QED BY <2>1, <2>2, TakenId
  <1>2. CASE state[r] # NoTrace
    <2>1. id = state[r] /\ fresh' = fresh /\ fresh \in 0..MaxFresh /\ MaxFresh \in Nat
      BY <1>2, ConstantAssumption DEF Resolved, IInv, TypeOK
    <2>2. id \in Known(r)
      BY <1>2, <2>1 DEF Known
    <2>3. OneId(r)
      BY DEF IInv, RequestInv
    <2>. QED BY <1>2, <2>1, <2>2, <2>3 DEF OneId
  <1>. QED BY <1>1, <1>2

\* The answers: of the route, of a handler, of the last resort.
LEMMA NothingType == Nothing \in Answers
  BY DEF Nothing, Answers

LEMMA Plain ==
  ASSUME NEW i \in Traces \cup {NoTrace}
  PROVE  LET a == [Nothing EXCEPT !.status = 200, !.header = i]
         IN /\ a \in Answers /\ a.header = i /\ a.body = NoTrace
            /\ a.status = 200 /\ a.acac = FALSE
  <1>1. [Nothing EXCEPT !.status = 200, !.header = i] \in Answers
    <2>1. ASSUME NEW a \in Answers, NEW n \in Nat
          PROVE  [a EXCEPT !.status = n, !.header = i] \in Answers
      BY DEF Answers
    <2>. QED BY <2>1, NothingType
  <1>. QED BY <1>1 DEF Nothing

LEMMA Unmarked ==
  LET a == [Nothing EXCEPT !.status = 200]
  IN /\ a \in Answers /\ a.header = NoTrace /\ a.body = NoTrace
     /\ a.status = 200 /\ a.acac = FALSE
  <1>1. [Nothing EXCEPT !.status = 200] \in Answers
    BY NothingType DEF Answers
  <1>. QED BY <1>1 DEF Nothing

LEMMA Handler ==
  ASSUME IInv, NEW r \in Requests, NEW f \in Faults, Handled(f), NEW i \in Traces
  PROVE  /\ ErrorResponse(r, f, i) \in Answers
         /\ ErrorResponse(r, f, i).header = traced[r]
         /\ ErrorResponse(r, f, i).body \in {i, NoTrace}
         /\ ErrorResponse(r, f, i).status >= 400 => ErrorResponse(r, f, i).body = i
         /\ ErrorResponse(r, f, i).status >= 500 /\ settings.env # "development"
              => ErrorResponse(r, f, i).message # "own"
         /\ ErrorResponse(r, f, i).acac = FALSE
  <1>1. f.type \in {"app", "http", "validation"} /\ f.status \in Nat
        /\ (f.type = "validation" => f.status < 500)
    BY DEF Faults, Handled
  <1>2. /\ Message(f) \in {"none", "own", "phrase", "generic", "masked"}
        /\ f.status >= 500 /\ settings.env # "development" => Message(f) # "own"
    <2>1. CASE f.type = "app"
      BY <2>1 DEF Message, Masked
    <2>2. CASE f.type = "http" /\ f.status = 204
      BY <2>2 DEF Message
    <2>3. CASE f.type = "http" /\ f.status # 204
      BY <2>3 DEF Message, Masked
    <2>4. CASE f.type = "validation"
      BY <1>1, <2>4 DEF Message
    <2>. QED BY <1>1, <2>1, <2>2, <2>3, <2>4
  <1>3. Detail(f) \in {"none", "code", "explicit", "type", "text"}
    BY <1>1 DEF Detail, Dev
  <1>4. traced[r] \in Traces \cup {NoTrace}
    BY DEF IInv, TypeOK
  <1>. QED BY <1>1, <1>2, <1>3, <1>4 DEF ErrorResponse, Answers

LEMMA Last ==
  ASSUME IInv, NEW r \in Requests, NEW i \in Traces
  PROVE  /\ LastResort(r, i) \in Answers
         /\ LastResort(r, i).header = i /\ LastResort(r, i).body = i
         /\ settings.env # "development" => LastResort(r, i).message # "own"
         /\ LastResort(r, i).acac =>
              /\ LastResort(r, i).acao = "echo"
              /\ settings.env = "production" => input[r].origin = "listed"
  <1>1. settings \in Settings /\ Startable(settings)
    BY DEF IInv, TypeOK
  <1>2. /\ FallbackOrigin(r) \in {"none", "any", "echo"}
        /\ FallbackCredentials(r) \in BOOLEAN
    BY DEF FallbackOrigin, FallbackCredentials, Settings
  <1>3. FallbackCredentials(r) =>
          /\ FallbackOrigin(r) = "echo"
          /\ settings.env = "production" => input[r].origin = "listed"
    BY <1>1 DEF FallbackOrigin, FallbackCredentials, Settings, Startable
  <1>. QED BY <1>2, <1>3 DEF LastResort, Dev, Answers

-----------------------------------------------------------------------------
(* A step is one request's: the others are as they were. *)

Alone(r) ==
  /\ UNCHANGED <<settings, input>> /\ fresh <= fresh'
  /\ \A q \in Requests : q # r =>
       /\ pc'[q] = pc[q] /\ state'[q] = state[q] /\ ctx'[q] = ctx[q]
       /\ traced'[q] = traced[q] /\ started'[q] = started[q]
       /\ answer'[q] = answer[q] /\ logs'[q] = logs[q] /\ reports'[q] = reports[q]

\* What has to be shown for the request that takes the step.
LEMMA StepOfOne ==
  ASSUME IInv, NEW r \in Requests, TypeOK', Alone(r), RequestInv(r)',
         answer'[r].status >= 500 /\ settings.env # "development"
           => answer'[r].message # "own",
         answer'[r].acac => /\ answer'[r].acao = "echo"
                            /\ settings.env = "production" => input[r].origin = "listed"
  PROVE  IInv'
  <1>1. \A q \in Requests : q # r => Known(q)' = Known(q)
    BY DEF Alone, Known
  <1>2. fresh \in Nat /\ fresh' \in Nat /\ fresh <= fresh'
    BY ConstantAssumption DEF IInv, TypeOK, Alone
  <1>3. \A q \in Requests : RequestInv(q)'
    <2>. SUFFICES ASSUME NEW q \in Requests, q # r PROVE RequestInv(q)'
      OBVIOUS
    <2>1. RequestInv(q) /\ Known(q)' = Known(q)
      BY <1>1 DEF IInv
    <2>2. \A i : OwnId(q, i, fresh) => OwnId(q, i, fresh)'
      BY <1>2 DEF OwnId, Alone
    <2>3. OneId(q)'
      BY <2>1, <2>2 DEF RequestInv, OneId, Alone
    <2>4. StateKnows(q)' /\ Progressed(q)'
      BY <2>1 DEF RequestInv, StateKnows, Progressed, Alone
    <2>5. Marked(q)' /\ Reported(q)'
      BY <2>1 DEF RequestInv, Marked, IsPreflight, Reported, Alone
    <2>. QED BY <2>3, <2>4, <2>5 DEF RequestInv
  <1>5. MessageMasked' /\ FallbackCorsSound'
    BY DEF IInv, MessageMasked, FallbackCorsSound, Alone
  <1>6. Startable(settings)'
    BY DEF IInv, Startable, Alone
  <1>. QED BY <1>3, <1>5, <1>6 DEF IInv

-----------------------------------------------------------------------------
(* The steps. *)

\* The facts about a request that its steps start from.
LEMMA Facts ==
  ASSUME IInv, NEW r \in Requests
  PROVE  /\ RequestInv(r) /\ fresh \in Nat /\ fresh <= fresh
         /\ answer[r].status >= 500 /\ settings.env # "development"
              => answer[r].message # "own"
         /\ answer[r].acac =>
              /\ answer[r].acao = "echo"
              /\ settings.env = "production" => input[r].origin = "listed"
  BY ConstantAssumption DEF IInv, TypeOK, MessageMasked, FallbackCorsSound

LEMMA PreflightKeeps ==
  ASSUME IInv, NEW r \in Requests, Preflight(r)
  PROVE  IInv'
  <1>. DEFINE a == [Nothing EXCEPT !.status = 200]
  <1>1. /\ a \in Answers /\ a.header = NoTrace /\ a.body = NoTrace
        /\ a.status = 200 /\ a.acac = FALSE
    BY Unmarked
  <1>2. /\ pc[r] = "outer" /\ IsPreflight(r) /\ pc' = [pc EXCEPT ![r] = "done"]
        /\ started' = [started EXCEPT ![r] = started[r] + 1]
        /\ answer' = [answer EXCEPT ![r] = a]
        /\ UNCHANGED <<settings, input, state, ctx, traced, logs, reports, fresh>>
    BY DEF Preflight, Send
  <1>. HIDE DEF a
  <1>3. RequestInv(r) /\ started[r] = 0 /\ state[r] = NoTrace /\ Known(r) = {} /\ fresh <= fresh
    BY <1>2, Facts DEF RequestInv, StateKnows, Progressed
  <1>4. TypeOK'
    BY <1>1, <1>2, <1>3 DEF IInv, TypeOK
  <1>5. Alone(r)
    BY <1>2, <1>3 DEF IInv, TypeOK, Alone
  <1>6. answer'[r] = a /\ started'[r] = 1 /\ pc'[r] = "done"
    BY <1>2, <1>3 DEF IInv, TypeOK
  <1>7. Known(r)' = {} /\ logs'[r] = {}
    BY <1>1, <1>2, <1>3, <1>6 DEF Known, RequestInv, OneId
  <1>8. RequestInv(r)'
    BY <1>1, <1>2, <1>3, <1>6, <1>7 DEF RequestInv, OneId, StateKnows, Progressed,
       Marked, IsPreflight, Reported
  <1>. QED BY <1>1, <1>4, <1>5, <1>6, <1>7, <1>8, StepOfOne DEF IInv

LEMMA OuterFailsKeeps ==
  ASSUME IInv, NEW r \in Requests, OuterFails(r)
  PROVE  IInv'
  <1>1. /\ pc[r] = "outer" /\ pc' = [pc EXCEPT ![r] = "failed"]
        /\ UNCHANGED <<settings, input, state, ctx, traced, started, answer, logs, reports, fresh>>
    BY DEF OuterFails
  <1>2. TypeOK' /\ Alone(r) /\ pc'[r] = "failed"
    BY <1>1, Facts DEF IInv, TypeOK, Alone
  <1>3. Known(r)' = Known(r)
    BY <1>1 DEF Known
  <1>4. RequestInv(r)'
    BY <1>1, <1>2, <1>3, Facts DEF RequestInv, OneId, StateKnows, Progressed, OwnId,
       Marked, IsPreflight, Reported
  <1>. QED BY <1>1, <1>2, <1>3, <1>4, Facts, StepOfOne

LEMMA EnterContextKeeps ==
  ASSUME IInv, NEW r \in Requests, EnterContext(r)
  PROVE  IInv'
  <1>1. PICK id \in Traces :
          /\ Parsed(r, id) /\ Takes(id)
          /\ state' = [state EXCEPT ![r] = id] /\ ctx' = [ctx EXCEPT ![r] = id]
          /\ traced' = [traced EXCEPT ![r] = id]
    BY DEF EnterContext
  <1>2. /\ pc[r] = "outer" /\ pc' = [pc EXCEPT ![r] = "bound"]
        /\ UNCHANGED <<settings, input, started, answer, logs, reports>>
    BY DEF EnterContext
  <1>3. /\ fresh' \in 0..MaxFresh /\ fresh <= fresh'
        /\ OwnId(r, id, fresh') /\ id # NoTrace
    BY <1>1, TakenId
  <1>4. Known(r) = {} /\ RequestInv(r)
    BY <1>2, Facts DEF RequestInv, StateKnows, Progressed
  <1>5. TypeOK' /\ Alone(r) /\ pc'[r] = "bound"
    BY <1>1, <1>2, <1>3 DEF IInv, TypeOK, Alone
  <1>6. state'[r] = id /\ ctx'[r] = id /\ traced'[r] = id
    BY <1>1 DEF IInv, TypeOK
  <1>7. Known(r)' = {id} /\ logs'[r] = {}
    BY <1>2, <1>3, <1>4, <1>6 DEF Known, RequestInv, OneId
  <1>8. OwnId(r, id, fresh)'
    BY <1>2, <1>3 DEF OwnId
  <1>9. RequestInv(r)'
    <2>1. OneId(r)' /\ StateKnows(r)'
      BY <1>3, <1>5, <1>6, <1>7, <1>8 DEF OneId, StateKnows
    <2>2. started[r] = 0
      BY <1>2, <1>4 DEF RequestInv, Progressed
    <2>3. Progressed(r)'
      BY <1>2, <1>3, <1>5, <1>6, <2>2 DEF Progressed
    <2>4. Marked(r)' /\ Reported(r)'
      BY <1>2, <1>4, <2>2 DEF RequestInv, Marked, Reported
    <2>. QED BY <2>1, <2>3, <2>4 DEF RequestInv
  <1>. QED BY <1>2, <1>3, <1>5, <1>7, <1>9, Facts, StepOfOne

LEMMA RouteLogsKeeps ==
  ASSUME IInv, NEW r \in Requests, RouteLogs(r)
  PROVE  IInv'
  <1>1. /\ pc[r] = "bound" /\ logs' = [logs EXCEPT ![r] = logs[r] \cup {ctx[r]}]
        /\ UNCHANGED <<settings, input, pc, state, ctx, traced, started, answer, reports, fresh>>
    BY DEF RouteLogs, Log
  <1>2. RequestInv(r) /\ ctx[r] # NoTrace /\ state[r] # NoTrace
    BY <1>1, Facts DEF RequestInv, Progressed
  <1>3. TypeOK' /\ Alone(r) /\ logs'[r] = logs[r] \cup {ctx[r]}
    BY <1>1, Facts DEF IInv, TypeOK, Alone
  <1>4. Known(r)' = Known(r)
    BY <1>1, <1>2, <1>3 DEF Known
  <1>5. RequestInv(r)'
    BY <1>1, <1>2, <1>3, <1>4 DEF RequestInv, OneId, StateKnows, Progressed, OwnId,
       Marked, IsPreflight, Reported
  <1>. QED BY <1>1, <1>3, <1>4, <1>5, Facts, StepOfOne

LEMMA RouteAnswersKeeps ==
  ASSUME IInv, NEW r \in Requests, RouteAnswers(r)
  PROVE  IInv'
  <1>. DEFINE a == [Nothing EXCEPT !.status = 200, !.header = traced[r]]
  <1>1. /\ pc[r] = "bound" /\ started[r] = 0
        /\ started' = [started EXCEPT ![r] = started[r] + 1]
        /\ answer' = [answer EXCEPT ![r] = a]
        /\ UNCHANGED <<settings, input, pc, state, ctx, traced, logs, reports, fresh>>
    BY DEF RouteAnswers, Send
  <1>2. /\ a \in Answers /\ a.header = traced[r] /\ a.body = NoTrace
        /\ a.status = 200 /\ a.acac = FALSE
    <2>1. traced[r] \in Traces \cup {NoTrace}
      BY DEF IInv, TypeOK
    <2>. QED BY <2>1, Plain
  <1>. HIDE DEF a
  <1>3. RequestInv(r) /\ traced[r] # NoTrace /\ state[r] # NoTrace /\ fresh <= fresh
    BY <1>1, Facts DEF RequestInv, Progressed
  <1>4. TypeOK' /\ Alone(r) /\ answer'[r] = a /\ started'[r] = 1
    BY <1>1, <1>2, <1>3 DEF IInv, TypeOK, Alone
  <1>5. \A i \in Known(r)' : i \in Known(r)
    BY <1>1, <1>2, <1>4 DEF Known
  <1>6. RequestInv(r)'
    BY <1>1, <1>2, <1>3, <1>4, <1>5 DEF RequestInv, OneId, StateKnows, Progressed,
       OwnId, Marked, IsPreflight, Reported
  <1>. QED BY <1>1, <1>2, <1>4, <1>5, <1>6, StepOfOne DEF IInv

LEMMA RouteEndsKeeps ==
  ASSUME IInv, NEW r \in Requests, RouteEnds(r)
  PROVE  IInv'
  <1>1. /\ pc[r] = "bound" /\ started[r] > 0
        /\ pc' = [pc EXCEPT ![r] = "done"] /\ ctx' = [ctx EXCEPT ![r] = NoTrace]
        /\ UNCHANGED <<settings, input, state, traced, started, answer, logs, reports, fresh>>
    BY DEF RouteEnds
  <1>2. TypeOK' /\ Alone(r) /\ pc'[r] = "done" /\ ctx'[r] = NoTrace /\ started[r] = 1
    BY <1>1, Facts DEF IInv, TypeOK, Alone
  <1>3. \A i \in Known(r)' : i \in Known(r)
    BY <1>1, <1>2 DEF Known
  <1>4. RequestInv(r)'
    BY <1>1, <1>2, <1>3, Facts DEF RequestInv, OneId, StateKnows, Progressed, OwnId,
       Marked, IsPreflight, Reported
  <1>. QED BY <1>1, <1>2, <1>3, <1>4, Facts, StepOfOne

LEMMA RouteFailsHandledKeeps ==
  ASSUME IInv, NEW r \in Requests, NEW f \in Faults, RouteFailsHandled(r, f)
  PROVE  IInv'
  <1>1. PICK id \in Traces : Resolved(r, id) /\ Send(r, ErrorResponse(r, f, id))
    BY DEF RouteFailsHandled
  <1>. DEFINE a == ErrorResponse(r, f, id)
  <1>2. /\ pc[r] = "bound" /\ Handled(f) /\ started[r] = 0
        /\ logs' = [logs EXCEPT ![r] = logs[r] \cup {ctx[r]}]
        /\ pc' = [pc EXCEPT ![r] = "done"] /\ ctx' = [ctx EXCEPT ![r] = NoTrace]
        /\ UNCHANGED <<settings, input, state, traced, reports>>
    BY DEF RouteFailsHandled, Log
  <1>3. started' = [started EXCEPT ![r] = started[r] + 1] /\ answer' = [answer EXCEPT ![r] = a]
    BY <1>1 DEF Send
  <1>4. /\ RequestInv(r) /\ state[r] # NoTrace /\ ctx[r] = state[r] /\ traced[r] = state[r]
        /\ fresh <= fresh
    BY <1>2, Facts DEF RequestInv, Progressed
  <1>5. id = state[r] /\ fresh' = fresh
    BY <1>1, <1>4 DEF Resolved
  <1>6. /\ a \in Answers /\ a.header = traced[r] /\ a.body \in {id, NoTrace}
        /\ a.status >= 400 => a.body = id
        /\ a.status >= 500 /\ settings.env # "development" => a.message # "own"
        /\ a.acac = FALSE
    <2>1. Handled(f) /\ id \in Traces
      BY <1>2
    <2>2. /\ a \in Answers /\ a.header = traced[r] /\ a.body \in {id, NoTrace}
          /\ a.acac = FALSE
      BY <2>1, Handler
    <2>3. a.status >= 400 => a.body = id
      BY <2>1, Handler
    <2>4. a.status >= 500 /\ settings.env # "development" => a.message # "own"
      BY <2>1, Handler
    <2>. QED BY <2>2, <2>3, <2>4
  <1>. HIDE DEF a
  <1>7. TypeOK' /\ Alone(r)
    BY <1>2, <1>3, <1>4, <1>5, <1>6 DEF IInv, TypeOK, Alone
  <1>8. /\ answer'[r] = a /\ started'[r] = 1 /\ pc'[r] = "done" /\ ctx'[r] = NoTrace
        /\ logs'[r] = logs[r] \cup {ctx[r]}
    BY <1>2, <1>3 DEF IInv, TypeOK
  <1>9. \A i \in Known(r)' : i \in Known(r)
    BY <1>2, <1>4, <1>5, <1>6, <1>8 DEF Known
  <1>10. RequestInv(r)'
    <2>1. OneId(r)' /\ StateKnows(r)' /\ Progressed(r)'
      BY <1>2, <1>4, <1>5, <1>8, <1>9 DEF RequestInv, OneId, StateKnows, Progressed,
         OwnId
    <2>2. Marked(r)' /\ Reported(r)'
      BY <1>2, <1>4, <1>5, <1>6, <1>8 DEF RequestInv, Marked, Reported
    <2>. QED BY <2>1, <2>2 DEF RequestInv
  <1>. QED BY <1>2, <1>6, <1>7, <1>8, <1>9, <1>10, StepOfOne

LEMMA RouteFailsKeeps ==
  ASSUME IInv, NEW r \in Requests, NEW f \in Faults, RouteFails(r, f)
  PROVE  IInv'
  <1>1. /\ pc[r] = "bound" /\ pc' = [pc EXCEPT ![r] = "failed"]
        /\ ctx' = [ctx EXCEPT ![r] = NoTrace]
        /\ logs' = logs \/ logs' = [logs EXCEPT ![r] = logs[r] \cup {ctx[r]}]
        /\ UNCHANGED <<settings, input, state, traced, started, answer, reports, fresh>>
    BY DEF RouteFails, Log
  <1>2. RequestInv(r) /\ state[r] # NoTrace /\ ctx[r] = state[r] /\ fresh <= fresh
    BY <1>1, Facts DEF RequestInv, Progressed
  <1>3. TypeOK' /\ Alone(r)
    BY <1>1, <1>2 DEF IInv, TypeOK, Alone
  <1>4. /\ pc'[r] = "failed" /\ ctx'[r] = NoTrace
        /\ logs'[r] = logs[r] \/ logs'[r] = logs[r] \cup {ctx[r]}
    BY <1>1 DEF IInv, TypeOK
  <1>5. \A i \in Known(r)' : i \in Known(r)
    BY <1>1, <1>2, <1>4 DEF Known
  <1>6. RequestInv(r)'
    BY <1>1, <1>2, <1>4, <1>5 DEF RequestInv, OneId, StateKnows, Progressed, OwnId,
       Marked, IsPreflight, Reported
  <1>. QED BY <1>1, <1>3, <1>5, <1>6, Facts, StepOfOne

LEMMA UnhandledKeeps ==
  ASSUME IInv, NEW r \in Requests, Unhandled(r)
  PROVE  IInv'
  <1>1. PICK id \in Traces :
          /\ Resolved(r, id) /\ logs' = [logs EXCEPT ![r] = logs[r] \cup {id}]
          /\ IF started[r] = 0 THEN Send(r, LastResort(r, id))
                               ELSE UNCHANGED <<started, answer>>
    BY DEF Unhandled, Log
  <1>2. /\ pc[r] = "failed" /\ pc' = [pc EXCEPT ![r] = "done"]
        /\ reports' = [reports EXCEPT ![r] = reports[r] \cup {ctx[r]}]
        /\ UNCHANGED <<settings, input, state, ctx, traced>>
    BY DEF Unhandled, ServerLogs
  <1>3. /\ fresh' \in 0..MaxFresh /\ fresh <= fresh'
        /\ OwnId(r, id, fresh') /\ id # NoTrace
        /\ \A i \in Known(r) : i = id
    BY <1>1, <1>2, ResolvedId
  <1>. DEFINE a == LastResort(r, id)
  <1>4. /\ a \in Answers /\ a.header = id /\ a.body = id
        /\ settings.env # "development" => a.message # "own"
        /\ a.acac => /\ a.acao = "echo"
                     /\ settings.env = "production" => input[r].origin = "listed"
    BY Last
  <1>5. \/ /\ started[r] = 0 /\ started' = [started EXCEPT ![r] = 1]
           /\ answer' = [answer EXCEPT ![r] = a]
        \/ started[r] = 1 /\ started' = started /\ answer' = answer
    BY <1>1 DEF Send, IInv, TypeOK
  <1>. HIDE DEF a
  <1>6. TypeOK' /\ Alone(r)
    BY <1>1, <1>2, <1>3, <1>4, <1>5 DEF IInv, TypeOK, Alone
  <1>7. /\ pc'[r] = "done" /\ started'[r] = 1 /\ logs'[r] = logs[r] \cup {id}
        /\ reports'[r] = reports[r] \cup {ctx[r]}
        /\ answer'[r] = a \/ (answer'[r] = answer[r] /\ started[r] = 1)
    <2>1. /\ pc'[r] = "done" /\ logs'[r] = logs[r] \cup {id}
          /\ reports'[r] = reports[r] \cup {ctx[r]}
      BY <1>1, <1>2 DEF IInv, TypeOK
    <2>2. /\ started'[r] = 1
          /\ answer'[r] = a \/ (answer'[r] = answer[r] /\ started[r] = 1)
      <3>1. DOMAIN started = Requests /\ DOMAIN answer = Requests
        BY DEF IInv, TypeOK
      <3>2. CASE started[r] = 0
        BY <1>5, <3>1, <3>2
      <3>3. CASE started[r] # 0
        BY <1>5, <3>1, <3>3
      <3>. QED BY <3>2, <3>3
    <2>. QED BY <2>1, <2>2
  <1>8. \A i \in Known(r)' : i = id
    BY <1>2, <1>3, <1>4, <1>7 DEF Known
  <1>9. RequestInv(r) /\ OwnId(r, id, fresh)' /\ ctx[r] = NoTrace
    BY <1>2, <1>3, Facts DEF OwnId, RequestInv, Progressed
  <1>10. RequestInv(r)'
    BY <1>2, <1>3, <1>4, <1>7, <1>8, <1>9 DEF RequestInv, OneId, StateKnows, Progressed,
       Marked, IsPreflight, Reported
  <1>. QED BY <1>3, <1>4, <1>6, <1>7, <1>8, <1>10, Facts, StepOfOne

-----------------------------------------------------------------------------
LEMMA InitIInv == Init => IInv
  <1>. SUFFICES ASSUME Init PROVE IInv
    OBVIOUS
  <1>1. Nothing \in Answers /\ Nothing.header = NoTrace /\ Nothing.body = NoTrace
        /\ Nothing.status = 0 /\ Nothing.acac = FALSE
    BY DEF Nothing, Answers
  <1>2. TypeOK /\ Startable(settings)
    BY <1>1, ConstantAssumption DEF Init, TypeOK
  <1>3. \A r \in Requests : Known(r) = {}
    BY <1>1 DEF Init, Known
  <1>4. \A r \in Requests : RequestInv(r)
    BY <1>1, <1>3 DEF Init, RequestInv, OneId, StateKnows, Progressed, Marked,
                       Reported
  <1>6. MessageMasked /\ FallbackCorsSound
    BY <1>1 DEF Init, MessageMasked, FallbackCorsSound
  <1>. QED BY <1>2, <1>4, <1>6 DEF IInv

LEMMA IInvariant == Spec => []IInv
  <1>1. IInv /\ [Next]_vars => IInv'
    <2>. SUFFICES ASSUME IInv, [Next]_vars PROVE IInv'
      OBVIOUS
    <2>1. ASSUME NEW r \in Requests, Step(r) PROVE IInv'
      BY <2>1, PreflightKeeps, OuterFailsKeeps, EnterContextKeeps, RouteLogsKeeps,
         RouteAnswersKeeps, RouteEndsKeeps, RouteFailsHandledKeeps, RouteFailsKeeps,
         UnhandledKeeps DEF Step
    <2>2. CASE UNCHANGED vars
      <3>. USE <2>2 DEF vars
      <3>1. TypeOK' /\ Startable(settings)'
        BY DEF IInv, TypeOK, Startable
      <3>2. \A r \in Requests : Known(r)' = Known(r)
        BY DEF Known
      <3>3. \A r \in Requests : RequestInv(r)'
        BY <3>2 DEF IInv, RequestInv, OneId, StateKnows, Progressed, OwnId,
           Marked, IsPreflight, Reported
      <3>5. MessageMasked' /\ FallbackCorsSound'
        BY DEF IInv, MessageMasked, FallbackCorsSound
      <3>. QED BY <3>1, <3>3, <3>5 DEF IInv
    <2>. QED BY <2>1, <2>2 DEF Next
  <1>. QED BY InitIInv, <1>1, PTL DEF Spec

-----------------------------------------------------------------------------
\* Every variable keeps its type.
THEOREM TypeCorrect == Spec => []TypeOK
  <1>1. IInv => TypeOK
    BY DEF IInv
  <1>. QED BY IInvariant, <1>1, PTL

\* One trace id per request, its own, whichever layer failed and whichever
\* answered: in the header of every answer but a preflight's, in an error's
\* body, in every log line of the program; and what the server reports of a
\* failure, without an id, the program has logged with it.
THEOREM TraceIsOne == Spec => []OneTrace
  <1>1. IInv => OneTrace
    <2>. SUFFICES ASSUME IInv, NEW r \in Requests
                  PROVE  LET seen == (logs[r] \cup {traced[r], answer[r].header,
                                                    answer[r].body}) \ {NoTrace}
                         IN /\ Cardinality(seen) <= 1
                            /\ NoTrace \notin logs[r]
                            /\ IF input[r].header = "good" THEN seen \subseteq {r}
                               ELSE seen \cap Requests = {}
                            /\ started[r] = 1 /\ answer[r].header = NoTrace =>
                                 IsPreflight(r) /\ answer[r].status = 200
                            /\ answer[r].status >= 400 =>
                                 answer[r].body = answer[r].header
                            /\ reports[r] # {} =>
                                 reports[r] = {NoTrace} /\ logs[r] # {}
      BY DEF OneTrace
    <2>. DEFINE seen == (logs[r] \cup {traced[r], answer[r].header, answer[r].body})
                          \ {NoTrace}
    <2>1. OneId(r) /\ fresh \in Nat /\ Marked(r) /\ Reported(r)
      BY Facts DEF RequestInv
    <2>2. seen \subseteq Known(r)
      BY DEF Known
    <2>3. Cardinality(seen) <= 1
      <3>1. CASE seen = {}
        <4>1. Cardinality(seen) = 0
          BY <3>1, FS_EmptySet
        <4>. QED BY <4>1
      <3>2. CASE seen # {}
        <4>1. PICK i : i \in seen
          BY <3>2
        <4>2. seen = {i}
          BY <2>1, <2>2, <4>1 DEF OneId
        <4>3. Cardinality({i}) = 1
          BY FS_Singleton
        <4>. QED BY <4>2, <4>3
      <3>. QED BY <3>1, <3>2
    <2>4. IF input[r].header = "good" THEN seen \subseteq {r} ELSE seen \cap Requests = {}
      BY <2>1, <2>2, ConstantAssumption DEF OneId, OwnId
    <2>. QED BY <2>1, <2>3, <2>4 DEF OneId, Marked, Reported
  <1>. QED BY IInvariant, <1>1, PTL

\* One answer for each request, whatever fails and however late.
THEOREM AnswersOnce == Spec => []OneAnswer
  <1>1. IInv => OneAnswer
    BY DEF IInv, TypeOK, RequestInv, Progressed, OneAnswer
  <1>. QED BY IInvariant, <1>1, PTL

\* Whichever handler answers, outside development an error of 500 or above
\* does not show the exception's own text as its message.
THEOREM MessagesAreMasked == Spec => []MessageMasked
  <1>1. IInv => MessageMasked
    BY DEF IInv
  <1>. QED BY IInvariant, <1>1, PTL

\* The fallback's CORS headers are sound under all settings that
\* validate_environment_settings lets start.
THEOREM FallbackIsSound == Spec => []FallbackCorsSound
  <1>1. IInv => FallbackCorsSound
    BY DEF IInv
  <1>. QED BY IInvariant, <1>1, PTL
=============================================================================
