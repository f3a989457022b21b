---------------------------- MODULE HttpPipeline ----------------------------
(***************************************************************************)
(* The main HTTP server's handler (runHTTP, buildHTTPHandler and the       *)
(* middlewares of package handlers): requests pass concurrently through    *)
(* mux -> InstrumentServer -> Recovery -> Metrics -> RateLimit -> BodyLimit*)
(* -> Logging -> ClientIP -> MCP handler, and unwind through the deferred  *)
(* functions, by a return or by a panic.                                   *)
(*                                                                         *)
(* The rate limiter is the abstract RateLimitPolicy, which RateLimiter     *)
(* implements.  The MCP handler is the SDK's: it may write a header, then  *)
(* return or panic.                                                        *)
(***************************************************************************)
EXTENDS Naturals, Sequences, FiniteSets

CONSTANTS
  Requests,         \* slots: each carries one request at a time
  Clients,          \* client addresses
  Headers,          \* what a request says of its origin, see HeaderType
  Bodies,           \* request bodies, see BodyType
  HandlerStatuses,  \* status codes the MCP handler answers with
  MaxRequestBodySize,  \* DefaultMaxRequestBodySize
  MaxBatchSize,
  GlobalRate, GlobalCap, ClientRate, ClientCap, Cost  \* of RateLimitPolicy

(* X-Client-IP and the address of the connection; X-Forwarded-For is a     *)
(* chain, empty when the header is absent.                                 *)
HeaderType ==
  [xClientIP : Clients \cup {"absent"}, xForwardedFor : Seq(Clients),
   remoteAddr : Clients]

(* complete: the client sends all of it.  json: what its text is; an       *)
(* "object" is one that decodes into the struct of mcpRequestMethod.       *)
BodyType ==
  [bytes : Nat, complete : BOOLEAN,
   json : {"none", "object", "array", "invalid"}, items : Nat,
   method : STRING, tool : STRING]

(* A process serves finitely many requests at a time; the capacities and   *)
(* rates are those of NewRateLimiter's buckets.                            *)
ASSUME PipelineAssumption ==
  /\ IsFiniteSet(Requests)
  /\ Headers \subseteq HeaderType /\ Headers # {}
  /\ Bodies \subseteq BodyType /\ Bodies # {}
  /\ HandlerStatuses \subseteq Nat
  /\ MaxRequestBodySize \in Nat /\ MaxBatchSize \in Nat
  /\ GlobalRate \in Nat /\ GlobalCap \in Nat
  /\ ClientRate \in Nat /\ ClientCap \in Nat /\ Cost \in Nat

VARIABLES
  globalCredit, clientCredit, verdict,  \* of RateLimitPolicy
  stage,      \* the layer each request is in
  header,     \* its headers
  body,       \* its body
  admitted,   \* the rate limiter let it through
  panicked,   \* a panic unwinds its goroutine
  wire,       \* the status its client receives; 0 before the header is sent
  status,     \* the status the response recorders hold; 0 for none
  mcpLog,     \* the mcp_log lines of the request
  counted,    \* the code http_requests_total counted it under; 0 for none
  activeRequests  \* the mcp_active_requests gauge

policyVars == <<globalCredit, clientCredit, verdict>>
inputVars == <<header, body>>
answerVars == <<wire, status>>
vars == <<policyVars, stage, inputVars, admitted, panicked, answerVars, mcpLog,
          counted, activeRequests>>

Policy == INSTANCE RateLimitPolicy

Move(r, from, to) == stage[r] = from /\ stage' = [stage EXCEPT ![r] = to]

(* The client receives the first header written; promhttp's delegator and  *)
(* loggingResponseWriter remember the last.                                *)
WriteHeader(r, code) ==
  /\ wire' = [wire EXCEPT ![r] = IF @ = 0 THEN code ELSE @]
  /\ status' = [status EXCEPT ![r] = code]

-----------------------------------------------------------------------------
(* Functions of the request *)

(* The key of the rate limiter: extractClientIP. *)
ExtractClientIP(h) ==
  IF h.xClientIP # "absent" THEN h.xClientIP
  ELSE IF h.xForwardedFor # <<>> THEN Head(h.xForwardedFor)
  ELSE h.remoteAddr

(* io.ReadAll over the MaxBytesReader of BodyLimitMiddleware. *)
ReadFails(b) == ~b.complete \/ b.bytes > MaxRequestBodySize

BatchOffByOne(b) == b.json = "array" /\ b.items > MaxBatchSize + 1

(* checkBatchSize: an array that does not parse counts as no batch. *)
BatchTooLarge(b) == b.json = "array" /\ b.items > MaxBatchSize

(* What mcp_log calls the request.  The struct it is decoded into accepts  *)
(* an object only.                                                         *)
McpRequestMethod(b) ==
  CASE b.bytes = 0 -> "empty_body"
    [] b.bytes > 0 /\ b.json # "object" -> "parse_error"
    [] b.bytes > 0 /\ b.json = "object" /\ b.method = "tools/call" /\ b.tool # "" -> b.tool
    [] OTHER -> IF b.method # "" THEN b.method ELSE "no_method"

-----------------------------------------------------------------------------
(* On the way in *)

(* GET /healthz bypasses every middleware. *)
Healthz(r) ==
  /\ Move(r, "idle", "done")
  /\ WriteHeader(r, 200)
  /\ UNCHANGED <<policyVars, inputVars, admitted, panicked, mcpLog, counted, activeRequests>>

DispatchUnlimited(r) ==
  /\ Move(r, "idle", "read")
  /\ \E h \in Headers, b \in Bodies :
       header' = [header EXCEPT ![r] = h] /\ body' = [body EXCEPT ![r] = b]
  /\ activeRequests' = activeRequests + 1
  /\ UNCHANGED <<policyVars, admitted, panicked, answerVars, mcpLog, counted>>

DispatchUncounted(r) ==
  /\ Move(r, "idle", "limit")
  /\ \E h \in Headers, b \in Bodies :
       header' = [header EXCEPT ![r] = h] /\ body' = [body EXCEPT ![r] = b]
  /\ UNCHANGED <<policyVars, admitted, panicked, answerVars, mcpLog, counted,
                 activeRequests>>

(* The mux picks "/": InstrumentServer and RecoveryMiddleware are entered, *)
(* and MetricsMiddleware increments the gauge.                             *)
Dispatch(r) ==
  /\ Move(r, "idle", "limit")
  /\ \E h \in Headers, b \in Bodies :
       header' = [header EXCEPT ![r] = h] /\ body' = [body EXCEPT ![r] = b]
  /\ activeRequests' = activeRequests + 1
  /\ UNCHANGED <<policyVars, admitted, panicked, answerVars, mcpLog, counted>>

(* RateLimitMiddleware asks the limiter and answers 429 for it. *)
RateLimit(r) ==
  LET c == ExtractClientIP(header[r])
  IN /\ \/ /\ Policy!Serve(c)
           /\ Move(r, "limit", "read")
           /\ admitted' = [admitted EXCEPT ![r] = TRUE]
           /\ UNCHANGED answerVars
        \/ /\ Policy!RefuseForAll(c) \/ Policy!RefuseClient(c)
           /\ Move(r, "limit", "unwind")
           /\ WriteHeader(r, 429)
           /\ UNCHANGED admitted
     /\ UNCHANGED <<inputVars, panicked, mcpLog, counted, activeRequests>>

LogLine(r, code) == [method |-> McpRequestMethod(body[r]), status |-> code]

ReadBodyLogTwice(r) ==
  /\ IF ReadFails(body[r])
     THEN Move(r, "read", "unwind") /\ WriteHeader(r, 413) /\ UNCHANGED mcpLog
     ELSE IF BatchTooLarge(body[r])
     THEN /\ Move(r, "read", "return")
          /\ mcpLog' = [mcpLog EXCEPT ![r] = Append(@, LogLine(r, 400))]
          /\ WriteHeader(r, 400)
     ELSE Move(r, "read", "handle") /\ UNCHANGED <<mcpLog, answerVars>>
  /\ UNCHANGED <<policyVars, inputVars, admitted, panicked, counted, activeRequests>>

(* The first half of LoggingMiddleware: the body is read and judged. *)
ReadBody(r) ==
  /\ IF ReadFails(body[r])
     THEN Move(r, "read", "unwind") /\ WriteHeader(r, 413) /\ UNCHANGED mcpLog
     ELSE IF BatchTooLarge(body[r])
     THEN /\ Move(r, "read", "unwind")
          /\ mcpLog' = [mcpLog EXCEPT ![r] = Append(@, LogLine(r, 400))]
          /\ WriteHeader(r, 400)
     ELSE Move(r, "read", "handle") /\ UNCHANGED <<mcpLog, answerVars>>
  /\ UNCHANGED <<policyVars, inputVars, admitted, panicked, counted, activeRequests>>

-----------------------------------------------------------------------------
(* The MCP handler *)

HandlerWrites(r) ==
  /\ stage[r] = "handle"
  /\ wire[r] = 0
  /\ \E code \in HandlerStatuses : WriteHeader(r, code)
  /\ UNCHANGED <<policyVars, stage, inputVars, admitted, panicked, mcpLog, counted,
                 activeRequests>>

HandlerReturns(r) ==
  /\ Move(r, "handle", "return")
  /\ UNCHANGED <<policyVars, inputVars, admitted, panicked, answerVars, mcpLog,
                 counted, activeRequests>>

HandlerPanics(r) ==
  /\ Move(r, "handle", "unwind")
  /\ panicked' = [panicked EXCEPT ![r] = TRUE]
  /\ UNCHANGED <<policyVars, inputVars, admitted, answerVars, mcpLog, counted,
                 activeRequests>>

-----------------------------------------------------------------------------
(* On the way out *)

(* The code a recorder reports when no header was written. *)
Recorded(r) == IF status[r] = 0 THEN 200 ELSE status[r]

(* The second half of LoggingMiddleware, which a panic skips. *)
LogRequest(r) ==
  /\ Move(r, "return", "unwind")
  /\ mcpLog' = [mcpLog EXCEPT ![r] = Append(@, LogLine(r, Recorded(r)))]
  /\ UNCHANGED <<policyVars, inputVars, admitted, panicked, answerVars, counted,
                 activeRequests>>

LeaveMetricsUndeferred(r) ==
  /\ Move(r, "unwind", "recover")
  /\ activeRequests' = IF panicked[r] THEN activeRequests ELSE activeRequests - 1
  /\ UNCHANGED <<policyVars, inputVars, admitted, panicked, answerVars, mcpLog, counted>>

(* The deferred Dec of MetricsMiddleware. *)
LeaveMetrics(r) ==
  /\ Move(r, "unwind", "recover")
  /\ activeRequests' = activeRequests - 1
  /\ UNCHANGED <<policyVars, inputVars, admitted, panicked, answerVars, mcpLog, counted>>

(* The deferred function of RecoveryMiddleware: http.Error comes too late  *)
(* when the handler had sent its header.                                   *)
Recover(r) ==
  /\ Move(r, "recover", "count")
  /\ IF panicked[r] THEN WriteHeader(r, 500) ELSE UNCHANGED answerVars
  /\ UNCHANGED <<policyVars, inputVars, admitted, panicked, mcpLog, counted, activeRequests>>

CountAsOK(r) ==
  /\ Move(r, "count", "done")
  /\ counted' = [counted EXCEPT ![r] = 200]
  /\ wire' = [wire EXCEPT ![r] = IF @ = 0 THEN 200 ELSE @]
  /\ UNCHANGED <<policyVars, inputVars, admitted, panicked, status, mcpLog, activeRequests>>

(* InstrumentServer counts the request, and net/http sends the header that *)
(* nobody wrote.                                                           *)
Count(r) ==
  /\ Move(r, "count", "done")
  /\ counted' = [counted EXCEPT ![r] = Recorded(r)]
  /\ wire' = [wire EXCEPT ![r] = IF @ = 0 THEN 200 ELSE @]
  /\ UNCHANGED <<policyVars, inputVars, admitted, panicked, status, mcpLog, activeRequests>>

-----------------------------------------------------------------------------
NoHeader == CHOOSE h \in Headers : TRUE
NoBody == CHOOSE b \in Bodies : TRUE

(* The next request comes in the same slot. *)
Reuse(r) ==
  /\ Move(r, "done", "idle")
  /\ header' = [header EXCEPT ![r] = NoHeader]
  /\ body' = [body EXCEPT ![r] = NoBody]
  /\ admitted' = [admitted EXCEPT ![r] = FALSE]
  /\ panicked' = [panicked EXCEPT ![r] = FALSE]
  /\ wire' = [wire EXCEPT ![r] = 0]
  /\ status' = [status EXCEPT ![r] = 0]
  /\ mcpLog' = [mcpLog EXCEPT ![r] = <<>>]
  /\ counted' = [counted EXCEPT ![r] = 0]
  /\ UNCHANGED <<policyVars, activeRequests>>

(* Time passes. *)
Refill ==
  /\ Policy!Refill
  /\ UNCHANGED <<stage, inputVars, admitted, panicked, answerVars, mcpLog, counted,
                 activeRequests>>

Init ==
  /\ Policy!Init
  /\ stage = [r \in Requests |-> "idle"]
  /\ header = [r \in Requests |-> NoHeader]
  /\ body = [r \in Requests |-> NoBody]
  /\ admitted = [r \in Requests |-> FALSE]
  /\ panicked = [r \in Requests |-> FALSE]
  /\ wire = [r \in Requests |-> 0]
  /\ status = [r \in Requests |-> 0]
  /\ mcpLog = [r \in Requests |-> <<>>]
  /\ counted = [r \in Requests |-> 0]
  /\ activeRequests = 0

Serving(r) ==
  \/ RateLimit(r) \/ ReadBody(r)
  \/ HandlerWrites(r) \/ HandlerReturns(r) \/ HandlerPanics(r)
  \/ LogRequest(r) \/ LeaveMetrics(r) \/ Recover(r) \/ Count(r)

Next ==
  \/ \E r \in Requests : Healthz(r) \/ Dispatch(r) \/ Serving(r) \/ Reuse(r)
  \/ Refill

Spec == Init /\ [][Next]_vars

-----------------------------------------------------------------------------
Statuses == {200, 400, 413, 429, 500} \cup HandlerStatuses
Methods ==
  {"empty_body", "parse_error", "no_method"}
    \cup {b.method : b \in Bodies} \cup {b.tool : b \in Bodies}

(* The types; every status comes from the code or from the MCP handler,    *)
(* every logged method from the code or from a body, and the gauge is      *)
(* never below zero (Inc and Dec of MetricsMiddleware).                    *)
TypeOK ==
  /\ globalCredit \in 0..GlobalCap
  /\ clientCredit \in [Clients -> 0..ClientCap]
  /\ verdict \in {"none", "allow", "deny"}
  /\ stage \in [Requests -> {"idle", "limit", "read", "handle", "return", "unwind",
                             "recover", "count", "done"}]
  /\ header \in [Requests -> Headers]
  /\ body \in [Requests -> Bodies]
  /\ admitted \in [Requests -> BOOLEAN]
  /\ panicked \in [Requests -> BOOLEAN]
  /\ wire \in [Requests -> {0} \cup Statuses]
  /\ status \in [Requests -> {0} \cup Statuses]
  /\ mcpLog \in [Requests -> Seq([method : Methods, status : Statuses])]
  /\ counted \in [Requests -> {0} \cup Statuses]
  /\ activeRequests \in 0..Cardinality(Requests)

(* The stages between the Inc and the Dec of MetricsMiddleware. *)
Inside == {"limit", "read", "handle", "return", "unwind"}

(* mcp_active_requests is the number of requests inside MetricsMiddleware, *)
(* whichever way the earlier ones left: refused, answered or panicked      *)
(* ("ensure it runs even if a downstream handler panics", metrics.go:85).  *)
GaugeCountsInFlight ==
  activeRequests = Cardinality({r \in Requests : stage[r] \in Inside})

(* The MCP handler, which calls upstream, is entered only by a request the *)
(* limiter admitted, with a body within the limit and a batch within the   *)
(* maximum (the order of buildHTTPHandler).                                *)
HandlerGuarded ==
  \A r \in Requests :
    stage[r] \in {"handle", "return"} =>
      /\ admitted[r]
      /\ body[r].complete /\ body[r].bytes <= MaxRequestBodySize
      /\ body[r].json = "array" => body[r].items <= MaxBatchSize

(* A request whose handler returned, or whose batch was refused, leaves    *)
(* one mcp_log line, with the status its client received, and every other  *)
(* request none (LoggingMiddleware).                                       *)
OneTrueLogLine ==
  \A r \in Requests :
    stage[r] = "done" =>
      IF admitted[r] /\ ~ReadFails(body[r]) /\ ~panicked[r]
      THEN Len(mcpLog[r]) = 1 /\ mcpLog[r][1].status = wire[r]
      ELSE mcpLog[r] = <<>>

(* http_requests_total counts a request under the status its client        *)
(* received, unless its handler panicked after sending a header            *)
(* (InstrumentServer around RecoveryMiddleware).                           *)
CountedAsSent ==
  \A r \in Requests :
    counted[r] # 0 /\ counted[r] # wire[r] => panicked[r] /\ counted[r] = 500

(* "parse_error - the body is not valid JSON" (middleware.go:92).          *)
ParseErrorMeansInvalidJSON ==
  \A r \in Requests : \A i \in DOMAIN mcpLog[r] :
    mcpLog[r][i].method = "parse_error" => body[r].json = "invalid"

(* LoggingMiddleware "logs a single line at INFO level with the mcp_log    *)
(* prefix" (SPEC.md:330) for a request whose body it could read.           *)
EveryReadRequestLogged ==
  \A r \in Requests :
    stage[r] = "done" /\ admitted[r] /\ ~ReadFails(body[r]) => Len(mcpLog[r]) = 1
=============================================================================
