------------------------- MODULE HttpPipelineProofs -------------------------
(***************************************************************************)
(* Proofs about HttpPipeline, for any finite number of requests in flight, *)
(* any headers, bodies and handler, and any setting of the limits.         *)
(***************************************************************************)
EXTENDS HttpPipeline, FiniteSetTheorems, TLAPS

-----------------------------------------------------------------------------
(* The inductive invariant *)

(* No layer has left a trace of the request. *)
Untouched(r) ==
  ~panicked[r] /\ wire[r] = 0 /\ status[r] = 0 /\ mcpLog[r] = <<>> /\ counted[r] = 0

(* The request passed the rate limiter and LoggingMiddleware's checks. *)
Cleared(r) == admitted[r] /\ ~ReadFails(body[r]) /\ ~BatchTooLarge(body[r])

(* The log of a request that is on its way out, or gone: one line with the *)
(* code if LoggingMiddleware ran to its end, none otherwise.               *)
LogTells(r, code) ==
  IF admitted[r] /\ ~ReadFails(body[r]) /\ ~panicked[r]
  THEN Len(mcpLog[r]) = 1 /\ mcpLog[r][1].status = code
  ELSE mcpLog[r] = <<>>

(* What each stage knows of the layers passed.  The recorders and the wire *)
(* agree until a panic that comes after the header makes them differ.      *)
RequestInv(r) ==
  /\ stage[r] \in {"idle", "limit"} => Untouched(r) /\ ~admitted[r]
  /\ stage[r] = "read" => Untouched(r) /\ admitted[r]
  /\ stage[r] \in {"handle", "return"} =>
       Cleared(r) /\ ~panicked[r] /\ status[r] = wire[r] /\ mcpLog[r] = <<>>
  /\ stage[r] \in {"unwind", "recover"} => status[r] = wire[r] /\ LogTells(r, Recorded(r))
  /\ stage[r] = "count" =>
       /\ IF panicked[r] THEN status[r] = 500 ELSE status[r] = wire[r]
       /\ LogTells(r, Recorded(r))
  /\ stage[r] # "done" => counted[r] = 0
  /\ stage[r] = "done" =>
       /\ counted[r] \in {0, wire[r]} \/ (panicked[r] /\ counted[r] = 500)
       /\ LogTells(r, wire[r])

PipelineInv == TypeOK /\ GaugeCountsInFlight /\ \A r \in Requests : RequestInv(r)

-----------------------------------------------------------------------------
(* Lemmas *)

(* The requests inside MetricsMiddleware. *)
InFlight == {r \in Requests : stage[r] \in Inside}

(* However many of the requests are in flight, their number is a possible  *)
(* value of the gauge (mcp_active_requests never goes below zero).         *)
LEMMA GaugeRange ==
  ASSUME NEW S \in SUBSET Requests
  PROVE  IsFiniteSet(S) /\ Cardinality(S) \in 0..Cardinality(Requests)
  <1>1. IsFiniteSet(S) /\ Cardinality(S) <= Cardinality(Requests)
    BY FS_Subset, PipelineAssumption
  <1>2. Cardinality(S) \in Nat /\ Cardinality(Requests) \in Nat
    BY <1>1, FS_CardinalityType, PipelineAssumption
  <1> QED
    BY <1>1, <1>2

(* One request that enters the middleware makes one more in flight (Inc of *)
(* MetricsMiddleware).                                                     *)
LEMMA Enters ==
  ASSUME TypeOK, NEW r \in Requests, NEW to,
         stage[r] \notin Inside, to \in Inside, stage' = [stage EXCEPT ![r] = to]
  PROVE  Cardinality(InFlight') = Cardinality(InFlight) + 1
  <1>1. InFlight' = InFlight \cup {r}
    BY DEF InFlight, TypeOK
  <1>2. r \notin InFlight /\ InFlight \in SUBSET Requests
    BY DEF InFlight
  <1> QED
    BY <1>1, <1>2, FS_AddElement, GaugeRange

(* One request that leaves the middleware, by whatever way, makes one less *)
(* in flight (the deferred Dec of MetricsMiddleware).                      *)
LEMMA Leaves ==
  ASSUME TypeOK, NEW r \in Requests, NEW to,
         stage[r] \in Inside, to \notin Inside, stage' = [stage EXCEPT ![r] = to]
  PROVE  Cardinality(InFlight') = Cardinality(InFlight) - 1
  <1>1. InFlight' = InFlight \ {r}
    BY DEF InFlight, TypeOK
  <1>2. r \in InFlight /\ InFlight \in SUBSET Requests
    BY DEF InFlight
  <1> QED
    BY <1>1, <1>2, FS_RemoveElement, GaugeRange

(* A request that moves between two layers inside the middleware, or       *)
(* between two outside it, leaves the number as it is.                     *)
LEMMA Stays ==
  ASSUME TypeOK, NEW r \in Requests, NEW to,
         stage[r] \in Inside <=> to \in Inside, stage' = [stage EXCEPT ![r] = to]
  PROVE  InFlight' = InFlight
  BY DEF InFlight, TypeOK

(* What a request keeps when another one moves: the requests share the     *)
(* gauge and the buckets, and nothing else.                                *)
Same(r) ==
  /\ stage'[r] = stage[r] /\ body'[r] = body[r]
  /\ admitted'[r] = admitted[r] /\ panicked'[r] = panicked[r]
  /\ wire'[r] = wire[r] /\ status'[r] = status[r]
  /\ mcpLog'[r] = mcpLog[r] /\ counted'[r] = counted[r]

(* What is known of a request holds as long as nobody touches it.          *)
LEMMA SameInv ==
  ASSUME NEW r \in Requests, RequestInv(r), Same(r)
  PROVE  RequestInv(r)'
  BY DEF RequestInv, Same, Untouched, Cleared, LogTells, Recorded

(* extractClientIP finds one of the clients, whatever the headers say.     *)
LEMMA ClientKnown == \A h \in Headers : ExtractClientIP(h) \in Clients
  BY PipelineAssumption DEF ExtractClientIP, HeaderType

(* The limiter's answers leave its buckets within their capacity (Allow).  *)
LEMMA LimiterTypes ==
  ASSUME TypeOK, NEW c \in Clients,
         Policy!Serve(c) \/ Policy!RefuseForAll(c) \/ Policy!RefuseClient(c)
  PROVE  /\ globalCredit' \in 0..GlobalCap
         /\ clientCredit' \in [Clients -> 0..ClientCap]
         /\ verdict' \in {"none", "allow", "deny"}
  <1>1. CASE Policy!Serve(c)
    BY <1>1, PipelineAssumption DEF TypeOK, Policy!Serve
  <1>2. CASE Policy!RefuseForAll(c)
    BY <1>2, PipelineAssumption DEF TypeOK, Policy!RefuseForAll
  <1>3. CASE Policy!RefuseClient(c)
    BY <1>3, PipelineAssumption DEF TypeOK, Policy!RefuseClient
  <1> QED
    BY <1>1, <1>2, <1>3

(* A line of mcp_log has its type when its status has (mcpRequestMethod    *)
(* always finds a name).                                                   *)
LEMMA LineType ==
  ASSUME TypeOK, NEW r \in Requests, NEW code \in Statuses
  PROVE  LogLine(r, code) \in [method : Methods, status : Statuses]
  <1> DEFINE b == body[r]
  <1>1. b \in Bodies /\ b.bytes \in Nat
    BY PipelineAssumption DEF TypeOK, BodyType
  <1>2. McpRequestMethod(b) \in {"empty_body", "parse_error", b.tool, b.method, "no_method"}
    BY <1>1 DEF McpRequestMethod
  <1>3. McpRequestMethod(b) \in Methods
    BY <1>1, <1>2 DEF Methods
  <1> QED
    BY <1>3 DEF LogLine

-----------------------------------------------------------------------------
(* The invariant is inductive *)

(* A step keeps the invariant if the gauge still counts right, the types   *)
(* are right and the request that moved knows what its new stage should    *)
(* know; nothing else was touched.                                         *)
LEMMA OneMoves ==
  ASSUME PipelineInv, NEW r \in Requests,
         GaugeCountsInFlight',
         activeRequests' \in 0..Cardinality(Requests) => TypeOK',
         RequestInv(r)',
         \A q \in Requests : q # r => Same(q)
  PROVE  PipelineInv'
  <1>1. activeRequests' \in 0..Cardinality(Requests)
    BY GaugeRange DEF GaugeCountsInFlight
  <1>2. ASSUME NEW q \in Requests
        PROVE  RequestInv(q)'
    <2>1. CASE q = r
      BY <2>1
    <2>2. CASE q # r
      BY <2>2, SameInv DEF PipelineInv
    <2> QED
      BY <2>1, <2>2
  <1> QED
    BY <1>1, <1>2 DEF PipelineInv

(* The codes of the code, and the handler's, are statuses, and a recorder  *)
(* without one reports one of them.                                        *)
LEMMA StatusTypes ==
  /\ 200 \in Statuses /\ 400 \in Statuses /\ 413 \in Statuses
  /\ 429 \in Statuses /\ 500 \in Statuses
  /\ \A code \in HandlerStatuses : code \in Statuses
  /\ TypeOK => \A r \in Requests : Recorded(r) \in Statuses
  BY DEF Statuses, TypeOK, Recorded

(* Writing a header keeps the types of wire and recorders. *)
LEMMA HeaderTypes ==
  ASSUME TypeOK, NEW r \in Requests, NEW code \in Statuses, WriteHeader(r, code)
  PROVE  /\ wire' \in [Requests -> {0} \cup Statuses]
         /\ status' \in [Requests -> {0} \cup Statuses]
  BY DEF TypeOK, WriteHeader

(* Another line keeps the type of mcp_log. *)
LEMMA LogTypes ==
  ASSUME TypeOK, NEW r \in Requests, NEW code \in Statuses,
         mcpLog' = [mcpLog EXCEPT ![r] = Append(@, LogLine(r, code))]
  PROVE  mcpLog' \in [Requests -> Seq([method : Methods, status : Statuses])]
  <1> DEFINE Lines == [method : Methods, status : Statuses]
  <1>1. LogLine(r, code) \in Lines
    BY LineType
  <1>2. mcpLog \in [Requests -> Seq(Lines)]
    BY DEF TypeOK
  <1>3. Append(mcpLog[r], LogLine(r, code)) \in Seq(Lines)
    <2> HIDE DEF Lines
    <2> QED
      BY <1>1, <1>2
  <1> QED
    BY <1>2, <1>3

(* The initial state satisfies the invariant. *)
LEMMA PipelineInit == Init => PipelineInv
  <1> SUFFICES ASSUME Init PROVE PipelineInv
    OBVIOUS
  <1>1. NoHeader \in Headers /\ NoBody \in Bodies
    BY PipelineAssumption DEF NoHeader, NoBody
  <1>2. InFlight = {}
    BY DEF Init, InFlight, Inside
  <1>3. GaugeCountsInFlight
    BY <1>2, FS_EmptySet DEF Init, GaugeCountsInFlight, InFlight
  <1>4. activeRequests \in 0..Cardinality(Requests)
    BY GaugeRange, <1>3 DEF GaugeCountsInFlight
  <1>5. TypeOK
    BY <1>1, <1>4, PipelineAssumption DEF Init, Policy!Init, TypeOK
  <1>6. ASSUME NEW r \in Requests
        PROVE  RequestInv(r)
    BY DEF Init, RequestInv, Untouched
  <1> QED
    BY <1>3, <1>5, <1>6 DEF PipelineInv

(* A probe passes no middleware, so it is in flight for none. *)
LEMMA HealthzInv ==
  ASSUME PipelineInv, NEW r \in Requests, Healthz(r)
  PROVE  PipelineInv'
  <1>1. stage' = [stage EXCEPT ![r] = "done"]
    BY DEF Healthz, Move
  <1>2. GaugeCountsInFlight'
    BY <1>1, Stays DEF PipelineInv, GaugeCountsInFlight, InFlight, Inside, Healthz, Move
  <1>3. activeRequests' \in 0..Cardinality(Requests) => TypeOK'
    <2>1. /\ wire' \in [Requests -> {0} \cup Statuses]
          /\ status' \in [Requests -> {0} \cup Statuses]
      BY StatusTypes, HeaderTypes DEF PipelineInv, Healthz
    <2> QED
      BY <1>1, <2>1 DEF PipelineInv, TypeOK, Healthz, policyVars, inputVars
  <1>4. RequestInv(r)'
    BY <1>1 DEF PipelineInv, TypeOK, RequestInv, Healthz, Move, WriteHeader, inputVars,
                answerVars, Untouched, LogTells
  <1>5. \A q \in Requests : q # r => Same(q)
    BY <1>1 DEF PipelineInv, TypeOK, Same, Healthz, WriteHeader, inputVars, answerVars
  <1> QED
    BY <1>2, <1>3, <1>4, <1>5, OneMoves

(* A request enters with its headers and its body, and the gauge is        *)
(* incremented with it.                                                    *)
LEMMA DispatchInv ==
  ASSUME PipelineInv, NEW r \in Requests, Dispatch(r)
  PROVE  PipelineInv'
  <1>1. stage' = [stage EXCEPT ![r] = "limit"]
    BY DEF Dispatch, Move
  <1>2. GaugeCountsInFlight'
    BY <1>1, Enters DEF PipelineInv, GaugeCountsInFlight, InFlight, Inside, Dispatch,
                        Move
  <1>3. activeRequests' \in 0..Cardinality(Requests) => TypeOK'
    BY <1>1 DEF PipelineInv, TypeOK, Dispatch, policyVars, inputVars, answerVars
  <1>4. RequestInv(r)'
    BY <1>1 DEF PipelineInv, TypeOK, RequestInv, Dispatch, Move, inputVars, answerVars,
                Untouched
  <1>5. \A q \in Requests : q # r => Same(q)
    BY <1>1 DEF PipelineInv, TypeOK, Same, Dispatch, inputVars, answerVars
  <1> QED
    BY <1>2, <1>3, <1>4, <1>5, OneMoves

(* The limiter admits the request or it leaves with 429 and no log line. *)
LEMMA RateLimitInv ==
  ASSUME PipelineInv, NEW r \in Requests, RateLimit(r)
  PROVE  PipelineInv'
  <1>1. stage[r] = "limit" /\ Untouched(r) /\ ~admitted[r]
    BY DEF PipelineInv, RequestInv, RateLimit, Move
  <1>2. PICK to \in {"read", "unwind"} : stage' = [stage EXCEPT ![r] = to]
    BY DEF RateLimit, Move
  <1>3. GaugeCountsInFlight'
    BY <1>1, <1>2, Stays DEF PipelineInv, GaugeCountsInFlight, InFlight, Inside, RateLimit
  <1>4. ExtractClientIP(header[r]) \in Clients
    BY ClientKnown DEF PipelineInv, TypeOK
  <1>5. /\ globalCredit' \in 0..GlobalCap
        /\ clientCredit' \in [Clients -> 0..ClientCap]
        /\ verdict' \in {"none", "allow", "deny"}
    BY <1>4, LimiterTypes DEF PipelineInv, RateLimit
  <1>6. activeRequests' \in 0..Cardinality(Requests) => TypeOK'
    <2>1. /\ wire' \in [Requests -> {0} \cup Statuses]
          /\ status' \in [Requests -> {0} \cup Statuses]
      BY StatusTypes, HeaderTypes DEF PipelineInv, TypeOK, RateLimit, answerVars
    <2>2. admitted' \in [Requests -> BOOLEAN]
      BY DEF PipelineInv, TypeOK, RateLimit
    <2> QED
      BY <1>2, <1>5, <2>1, <2>2 DEF PipelineInv, TypeOK, RateLimit, inputVars
  <1>7. RequestInv(r)'
    BY <1>1 DEF PipelineInv, TypeOK, RequestInv, RateLimit, Move, WriteHeader, inputVars,
                answerVars, Untouched, LogTells
  <1>8. \A q \in Requests : q # r => Same(q)
    BY <1>2 DEF PipelineInv, TypeOK, Same, RateLimit, WriteHeader, inputVars, answerVars
  <1> QED
    BY <1>3, <1>6, <1>7, <1>8, OneMoves

(* The body is refused with 413 and no line, refused with 400 and one      *)
(* line, or found fit for the handler.                                     *)
LEMMA ReadBodyInv ==
  ASSUME PipelineInv, NEW r \in Requests, ReadBody(r)
  PROVE  PipelineInv'
  <1>1. stage[r] = "read" /\ Untouched(r) /\ admitted[r]
    BY DEF PipelineInv, RequestInv, ReadBody, Move
  <1>2. PICK to \in {"handle", "unwind"} : stage' = [stage EXCEPT ![r] = to]
    BY DEF ReadBody, Move
  <1>3. GaugeCountsInFlight'
    BY <1>1, <1>2, Stays DEF PipelineInv, GaugeCountsInFlight, InFlight, Inside, ReadBody
  <1>4. mcpLog' \in [Requests -> Seq([method : Methods, status : Statuses])]
    <2>1. CASE mcpLog' = mcpLog
      BY <2>1 DEF PipelineInv, TypeOK
    <2>2. CASE mcpLog' = [mcpLog EXCEPT ![r] = Append(@, LogLine(r, 400))]
      BY <2>2, StatusTypes, LogTypes DEF PipelineInv
    <2> QED
      BY <2>1, <2>2 DEF ReadBody
  <1>5. /\ wire' \in [Requests -> {0} \cup Statuses]
        /\ status' \in [Requests -> {0} \cup Statuses]
    BY StatusTypes, HeaderTypes DEF PipelineInv, TypeOK, ReadBody, answerVars
  <1>6. activeRequests' \in 0..Cardinality(Requests) => TypeOK'
    BY <1>2, <1>4, <1>5 DEF PipelineInv, TypeOK, ReadBody, policyVars, inputVars
  <1>7. RequestInv(r)'
    <2>1. CASE ReadFails(body[r])
      BY <1>1, <2>1 DEF PipelineInv, TypeOK, RequestInv, ReadBody, Move, WriteHeader,
                        inputVars, Untouched, LogTells
    <2>2. CASE ~ReadFails(body[r]) /\ BatchTooLarge(body[r])
      <3>1. mcpLog'[r] = <<LogLine(r, 400)>>
        BY <1>1, <2>2 DEF PipelineInv, TypeOK, ReadBody, Untouched
      <3>2. Len(mcpLog'[r]) = 1 /\ mcpLog'[r][1].status = 400
        BY <3>1 DEF LogLine
      <3> QED
        BY <1>1, <2>2, <3>2 DEF PipelineInv, TypeOK, RequestInv, ReadBody, Move, WriteHeader,
                                inputVars, Untouched, LogTells, Recorded
    <2>3. CASE ~ReadFails(body[r]) /\ ~BatchTooLarge(body[r])
      BY <1>1, <2>3 DEF PipelineInv, TypeOK, RequestInv, ReadBody, Move, inputVars,
                        answerVars, Untouched, Cleared
    <2> QED
      BY <2>1, <2>2, <2>3
  <1>8. \A q \in Requests : q # r => Same(q)
    BY <1>2 DEF PipelineInv, TypeOK, Same, ReadBody, WriteHeader, inputVars, answerVars
  <1> QED
    BY <1>3, <1>6, <1>7, <1>8, OneMoves

(* The handler's first header reaches the client and the recorders alike. *)
LEMMA HandlerWritesInv ==
  ASSUME PipelineInv, NEW r \in Requests, HandlerWrites(r)
  PROVE  PipelineInv'
  <1>1. GaugeCountsInFlight'
    BY DEF PipelineInv, GaugeCountsInFlight, HandlerWrites
  <1>2. activeRequests' \in 0..Cardinality(Requests) => TypeOK'
    <2>1. /\ wire' \in [Requests -> {0} \cup Statuses]
          /\ status' \in [Requests -> {0} \cup Statuses]
      BY StatusTypes, HeaderTypes DEF PipelineInv, HandlerWrites
    <2> QED
      BY <2>1 DEF PipelineInv, TypeOK, HandlerWrites, policyVars, inputVars
  <1>3. RequestInv(r)'
    BY DEF PipelineInv, TypeOK, RequestInv, HandlerWrites, WriteHeader, inputVars, Cleared
  <1>4. \A q \in Requests : q # r => Same(q)
    BY DEF PipelineInv, TypeOK, Same, HandlerWrites, WriteHeader, inputVars
  <1> QED
    BY <1>1, <1>2, <1>3, <1>4, OneMoves

(* The handler returns, with or without a header. *)
LEMMA HandlerReturnsInv ==
  ASSUME PipelineInv, NEW r \in Requests, HandlerReturns(r)
  PROVE  PipelineInv'
  <1>1. stage' = [stage EXCEPT ![r] = "return"]
    BY DEF HandlerReturns, Move
  <1>2. GaugeCountsInFlight'
    BY <1>1, Stays DEF PipelineInv, GaugeCountsInFlight, InFlight, Inside,
                       HandlerReturns, Move
  <1>3. activeRequests' \in 0..Cardinality(Requests) => TypeOK'
    BY <1>1 DEF PipelineInv, TypeOK, HandlerReturns, policyVars, inputVars, answerVars
  <1>4. RequestInv(r)'
    BY <1>1 DEF PipelineInv, TypeOK, RequestInv, HandlerReturns, Move, inputVars,
                answerVars, Cleared
  <1>5. \A q \in Requests : q # r => Same(q)
    BY <1>1 DEF PipelineInv, TypeOK, Same, HandlerReturns, inputVars, answerVars
  <1> QED
    BY <1>2, <1>3, <1>4, <1>5, OneMoves

(* The handler panics: no line will be logged. *)
LEMMA HandlerPanicsInv ==
  ASSUME PipelineInv, NEW r \in Requests, HandlerPanics(r)
  PROVE  PipelineInv'
  <1>1. stage' = [stage EXCEPT ![r] = "unwind"]
    BY DEF HandlerPanics, Move
  <1>2. GaugeCountsInFlight'
    BY <1>1, Stays DEF PipelineInv, GaugeCountsInFlight, InFlight, Inside,
                       HandlerPanics, Move
  <1>3. activeRequests' \in 0..Cardinality(Requests) => TypeOK'
    BY <1>1 DEF PipelineInv, TypeOK, HandlerPanics, policyVars, inputVars, answerVars
  <1>4. RequestInv(r)'
    BY <1>1 DEF PipelineInv, TypeOK, RequestInv, HandlerPanics, Move, inputVars,
                answerVars, LogTells
  <1>5. \A q \in Requests : q # r => Same(q)
    BY <1>1 DEF PipelineInv, TypeOK, Same, HandlerPanics, inputVars, answerVars
  <1> QED
    BY <1>2, <1>3, <1>4, <1>5, OneMoves

(* The line is written with the code the recorder holds, which is what the *)
(* client received or will receive.                                        *)
LEMMA LogRequestInv ==
  ASSUME PipelineInv, NEW r \in Requests, LogRequest(r)
  PROVE  PipelineInv'
  <1>1. stage[r] = "return" /\ Cleared(r) /\ ~panicked[r] /\ status[r] = wire[r]
        /\ mcpLog[r] = <<>>
    BY DEF PipelineInv, RequestInv, LogRequest, Move
  <1>2. stage' = [stage EXCEPT ![r] = "unwind"]
    BY DEF LogRequest, Move
  <1>3. GaugeCountsInFlight'
    BY <1>1, <1>2, Stays DEF PipelineInv, GaugeCountsInFlight, InFlight, Inside, LogRequest
  <1>4. mcpLog' \in [Requests -> Seq([method : Methods, status : Statuses])]
    BY StatusTypes, LogTypes DEF PipelineInv, LogRequest
  <1>5. activeRequests' \in 0..Cardinality(Requests) => TypeOK'
    BY <1>2, <1>4 DEF PipelineInv, TypeOK, LogRequest, policyVars, inputVars, answerVars
  <1>6. mcpLog'[r] = <<LogLine(r, Recorded(r))>>
    BY <1>1 DEF PipelineInv, TypeOK, LogRequest
  <1>7. Len(mcpLog'[r]) = 1 /\ mcpLog'[r][1].status = Recorded(r)
    BY <1>6 DEF LogLine
  <1>8. RequestInv(r)'
    BY <1>1, <1>7 DEF PipelineInv, TypeOK, RequestInv, LogRequest, Move, inputVars,
                      answerVars, Cleared, LogTells, Recorded
  <1>9. \A q \in Requests : q # r => Same(q)
    BY <1>2 DEF PipelineInv, TypeOK, Same, LogRequest, inputVars, answerVars
  <1> QED
    BY <1>3, <1>5, <1>8, <1>9, OneMoves

(* The deferred Dec runs on every way out. *)
LEMMA LeaveMetricsInv ==
  ASSUME PipelineInv, NEW r \in Requests, LeaveMetrics(r)
  PROVE  PipelineInv'
  <1>1. stage' = [stage EXCEPT ![r] = "recover"]
    BY DEF LeaveMetrics, Move
  <1>2. GaugeCountsInFlight'
    <2>1. stage[r] \in Inside /\ "recover" \notin Inside
      BY DEF Inside, LeaveMetrics, Move
    <2>2. Cardinality(InFlight') = Cardinality(InFlight) - 1
      BY <1>1, <2>1, Leaves DEF PipelineInv
    <2>3. Cardinality(InFlight) \in Nat
      BY GaugeRange DEF InFlight
    <2> QED
      BY <2>2, <2>3 DEF PipelineInv, GaugeCountsInFlight, InFlight, LeaveMetrics
  <1>3. activeRequests' \in 0..Cardinality(Requests) => TypeOK'
    BY <1>1 DEF PipelineInv, TypeOK, LeaveMetrics, policyVars, inputVars, answerVars
  <1>4. RequestInv(r)'
    BY <1>1 DEF PipelineInv, TypeOK, RequestInv, LeaveMetrics, Move, inputVars,
                answerVars, LogTells, Recorded
  <1>5. \A q \in Requests : q # r => Same(q)
    BY <1>1 DEF PipelineInv, TypeOK, Same, LeaveMetrics, inputVars, answerVars
  <1> QED
    BY <1>2, <1>3, <1>4, <1>5, OneMoves

(* A panic is answered with 500; after a header only the recorders hear of *)
(* it.                                                                     *)
LEMMA RecoverInv ==
  ASSUME PipelineInv, NEW r \in Requests, Recover(r)
  PROVE  PipelineInv'
  <1>1. stage' = [stage EXCEPT ![r] = "count"]
    BY DEF Recover, Move
  <1>2. GaugeCountsInFlight'
    BY <1>1, Stays DEF PipelineInv, GaugeCountsInFlight, InFlight, Inside, Recover, Move
  <1>3. activeRequests' \in 0..Cardinality(Requests) => TypeOK'
    <2>1. /\ wire' \in [Requests -> {0} \cup Statuses]
          /\ status' \in [Requests -> {0} \cup Statuses]
      BY StatusTypes, HeaderTypes DEF PipelineInv, TypeOK, Recover, answerVars
    <2> QED
      BY <1>1, <2>1 DEF PipelineInv, TypeOK, Recover, policyVars, inputVars
  <1>4. RequestInv(r)'
    BY <1>1 DEF PipelineInv, TypeOK, RequestInv, Recover, Move, WriteHeader, inputVars,
                answerVars, LogTells, Recorded
  <1>5. \A q \in Requests : q # r => Same(q)
    BY <1>1 DEF PipelineInv, TypeOK, Same, Recover, WriteHeader, inputVars, answerVars
  <1> QED
    BY <1>2, <1>3, <1>4, <1>5, OneMoves

(* The code counted is the code sent, 200 for want of a header, unless a   *)
(* panic came too late.                                                    *)
LEMMA CountInv ==
  ASSUME PipelineInv, NEW r \in Requests, Count(r)
  PROVE  PipelineInv'
  <1>1. stage' = [stage EXCEPT ![r] = "done"]
    BY DEF Count, Move
  <1>2. GaugeCountsInFlight'
    BY <1>1, Stays DEF PipelineInv, GaugeCountsInFlight, InFlight, Inside, Count, Move
  <1>3. activeRequests' \in 0..Cardinality(Requests) => TypeOK'
    <2>1. Recorded(r) \in Statuses /\ 200 \in Statuses
      BY StatusTypes DEF PipelineInv
    <2>2. /\ wire' \in [Requests -> {0} \cup Statuses]
          /\ counted' \in [Requests -> {0} \cup Statuses]
      BY <2>1 DEF PipelineInv, TypeOK, Count
    <2> QED
      BY <1>1, <2>2 DEF PipelineInv, TypeOK, Count, policyVars, inputVars
  <1>4. RequestInv(r)'
    BY <1>1 DEF PipelineInv, TypeOK, RequestInv, Count, Move, inputVars, answerVars,
                LogTells, Recorded
  <1>5. \A q \in Requests : q # r => Same(q)
    BY <1>1 DEF PipelineInv, TypeOK, Same, Count, inputVars, answerVars
  <1> QED
    BY <1>2, <1>3, <1>4, <1>5, OneMoves

(* The slot forgets its request. *)
LEMMA ReuseInv ==
  ASSUME PipelineInv, NEW r \in Requests, Reuse(r)
  PROVE  PipelineInv'
  <1>1. stage' = [stage EXCEPT ![r] = "idle"]
    BY DEF Reuse, Move
  <1>2. GaugeCountsInFlight'
    BY <1>1, Stays DEF PipelineInv, GaugeCountsInFlight, InFlight, Inside, Reuse, Move
  <1>3. activeRequests' \in 0..Cardinality(Requests) => TypeOK'
    <2>1. NoHeader \in Headers /\ NoBody \in Bodies
      BY PipelineAssumption DEF NoHeader, NoBody
    <2>2. mcpLog' \in [Requests -> Seq([method : Methods, status : Statuses])]
      <3> DEFINE Lines == [method : Methods, status : Statuses]
      <3>1. mcpLog \in [Requests -> Seq(Lines)] /\ mcpLog' = [mcpLog EXCEPT ![r] = <<>>]
        BY DEF PipelineInv, TypeOK, Reuse
      <3>2. <<>> \in Seq(Lines)
        OBVIOUS
      <3> QED
        BY <3>1, <3>2
    <2> QED
      BY <1>1, <2>1, <2>2 DEF PipelineInv, TypeOK, Reuse, policyVars
  <1>4. RequestInv(r)'
    BY <1>1 DEF PipelineInv, TypeOK, RequestInv, Reuse, Move, inputVars, answerVars,
                Untouched
  <1>5. \A q \in Requests : q # r => Same(q)
    BY <1>1 DEF PipelineInv, TypeOK, Same, Reuse, inputVars, answerVars
  <1> QED
    BY <1>2, <1>3, <1>4, <1>5, OneMoves

(* Time refills the buckets up to their capacity and touches no request. *)
LEMMA RefillInv ==
  ASSUME PipelineInv, Refill
  PROVE  PipelineInv'
  <1>1. /\ globalCredit' \in 0..GlobalCap
        /\ clientCredit' \in [Clients -> 0..ClientCap]
    BY PipelineAssumption DEF PipelineInv, TypeOK, Refill, Policy!Refill, Policy!Capped
  <1>2. TypeOK'
    BY <1>1 DEF PipelineInv, TypeOK, Refill, Policy!Refill, inputVars, answerVars
  <1>3. GaugeCountsInFlight'
    BY DEF PipelineInv, GaugeCountsInFlight, Refill
  <1>4. \A r \in Requests : Same(r)
    BY DEF Same, Refill, inputVars, answerVars
  <1> QED
    BY <1>2, <1>3, <1>4, SameInv DEF PipelineInv

(* Every step keeps the invariant. *)
LEMMA PipelineStep == PipelineInv /\ [Next]_vars => PipelineInv'
  <1> SUFFICES ASSUME PipelineInv, [Next]_vars PROVE PipelineInv'
    OBVIOUS
  <1>1. ASSUME NEW r \in Requests, Healthz(r) \/ Dispatch(r) \/ Reuse(r)
        PROVE  PipelineInv'
    BY <1>1, HealthzInv, DispatchInv, ReuseInv
  <1>2. ASSUME NEW r \in Requests, Serving(r)
        PROVE  PipelineInv'
    BY <1>2, RateLimitInv, ReadBodyInv, HandlerWritesInv, HandlerReturnsInv,
       HandlerPanicsInv, LogRequestInv, LeaveMetricsInv, RecoverInv, CountInv DEF Serving
  <1>3. CASE Refill
    BY <1>3, RefillInv
  <1>4. CASE UNCHANGED vars
    <2>1. TypeOK' /\ GaugeCountsInFlight'
      BY <1>4 DEF PipelineInv, TypeOK, GaugeCountsInFlight, vars, policyVars, inputVars,
                  answerVars
    <2>2. \A r \in Requests : Same(r)
      BY <1>4 DEF Same, vars, inputVars, answerVars
    <2> QED
      BY <2>1, <2>2, SameInv DEF PipelineInv
  <1> QED
    BY <1>1, <1>2, <1>3, <1>4 DEF Next

(* The invariant holds in every behaviour of the pipeline. *)
LEMMA PipelineInvariant == Spec => []PipelineInv
  BY PipelineInit, PipelineStep, PTL DEF Spec

-----------------------------------------------------------------------------
(* Theorems *)

(* Statuses, logged methods, buckets and the gauge always have their type; *)
(* the gauge never goes below zero (Inc and Dec of MetricsMiddleware).     *)
THEOREM TypeCorrect == Spec => []TypeOK
  <1>1. PipelineInv => TypeOK
    BY DEF PipelineInv
  <1> QED
    BY <1>1, PipelineInvariant, PTL

(* mcp_active_requests is the number of requests in flight, panics or not  *)
(* (the deferred Dec, metrics.go:85).                                      *)
THEOREM GaugeRight == Spec => []GaugeCountsInFlight
  <1>1. PipelineInv => GaugeCountsInFlight
    BY DEF PipelineInv
  <1> QED
    BY <1>1, PipelineInvariant, PTL

(* Whatever is sent, the MCP handler runs only for admitted requests whose *)
(* body and batch are within the limits (the order of buildHTTPHandler).   *)
THEOREM HandlerIsGuarded == Spec => []HandlerGuarded
  <1>1. PipelineInv => HandlerGuarded
    <2> SUFFICES ASSUME PipelineInv, NEW r \in Requests, stage[r] \in {"handle", "return"}
                 PROVE  /\ admitted[r]
                        /\ body[r].complete /\ body[r].bytes <= MaxRequestBodySize
                        /\ body[r].json = "array" => body[r].items <= MaxBatchSize
      BY DEF HandlerGuarded
    <2>1. Cleared(r)
      BY DEF PipelineInv, RequestInv
    <2>2. body[r].bytes \in Nat /\ body[r].items \in Nat
      BY PipelineAssumption DEF PipelineInv, TypeOK, BodyType
    <2> QED
      BY <2>1, <2>2, PipelineAssumption DEF Cleared, ReadFails, BatchTooLarge
  <1> QED
    BY <1>1, PipelineInvariant, PTL

(* A request that ran to its end leaves one line that tells the status its *)
(* client received; refused and panicked ones leave none                   *)
(* (LoggingMiddleware).                                                    *)
THEOREM LogLineTrue == Spec => []OneTrueLogLine
  <1>1. PipelineInv => OneTrueLogLine
    BY DEF PipelineInv, RequestInv, LogTells, OneTrueLogLine
  <1> QED
    BY <1>1, PipelineInvariant, PTL

(* The counter agrees with the wire, but for panics after the header       *)
(* (InstrumentServer around RecoveryMiddleware).                           *)
THEOREM CounterTrue == Spec => []CountedAsSent
  <1>1. PipelineInv => CountedAsSent
    BY DEF PipelineInv, RequestInv, CountedAsSent
  <1> QED
    BY <1>1, PipelineInvariant, PTL
=============================================================================
