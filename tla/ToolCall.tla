------------------------------ MODULE ToolCall ------------------------------
(***************************************************************************)
(* One tools/call from its arrival at the registered handler to its answer *)
(* (registerTool): WrapAccessLog -> WrapToolHandler -> the tool's handler  *)
(* -> searchHelper -> SearchService -> the SearXNG client -> GET /search,  *)
(* and back.  Calls run concurrently and share the two metric counters.    *)
(*                                                                         *)
(* SearXNG and the resty client are external: a request is answered with   *)
(* any of Responses, or the client's timeout ends it.                      *)
(***************************************************************************)
EXTENDS Integers, Sequences, FiniteSets, FiniteSetsExt

CONSTANTS
  Calls,
  RequestIds,       \* what requestid.New may return
  Inputs,           \* decoded arguments, see InputType
  Origins,          \* gateway headers of the HTTP request, see OriginType
  Responses,        \* what resty may return, see ResponseType
  Transport,        \* the label "http" or "stdio" given at registration
  MaxQueryLength, MaxPageNumber, MaxResponseBodySize

Tools == {"search", "search_news", "search_images", "search_videos", "search_music"}

(* query: its length in bytes.                                             *)
(* maxResults: the value the pointer points to, if any.                    *)
InputType ==
  [tool : Tools, query : Nat, page : Int, categories : SUBSET STRING,
   timeRange : STRING, maxResults : SUBSET Nat]

(* "" is an absent header or an empty entry of the X-Forwarded-For chain. *)
OriginType == [xRealIP : STRING, xForwardedFor : Seq(STRING)]

(* error: resty returns an error; response: and a response that is not nil.*)
(* text: length of the JSON text, which white space may follow; json: it   *)
(* decodes; results: how many it has.                                      *)
ResponseType ==
  [error : BOOLEAN, response : BOOLEAN, status : Nat, readable : BOOLEAN,
   text : Nat, json : BOOLEAN, results : Nat]

(* max_results is a pointer to one value or to none; page 1 is within the  *)
(* limits; the placeholder of an id that is not drawn yet is no id.        *)
ASSUME CallAssumption ==
  /\ IsFiniteSet(Calls)
  /\ "none" \notin RequestIds
  /\ Inputs \subseteq InputType /\ Inputs # {}
  /\ \A i \in Inputs : IsFiniteSet(i.maxResults) /\ Cardinality(i.maxResults) <= 1
  /\ Origins \subseteq OriginType
  /\ Responses \subseteq ResponseType
  /\ Transport # ""
  /\ MaxQueryLength \in Nat /\ MaxPageNumber \in Nat \ {0}
  /\ MaxResponseBodySize \in Nat

NoResponse == [status |-> 0]

VARIABLES
  infoEnabled,  \* logger.IsLevelEnabled(InfoLevel)
  stage,        \* how far each call is
  input,        \* its arguments
  id,           \* its request id
  source,       \* where it came from, for the access log
  upstream,     \* the requests SearXNG receives for it
  response,     \* what resty returned for it
  failure,      \* the error its client gets, "none" for a result
  results,      \* the number of results its client gets
  accessLog,    \* its lines in the access log
  upstreamTotal,  \* mcp_searxng_upstream_requests_total
  toolTotal       \* mcp_tool_requests_total

callVars == <<infoEnabled, input, id, source>>
outcomeVars == <<failure, results>>
metricVars == <<upstreamTotal, toolTotal>>
vars == <<callVars, stage, upstream, response, outcomeVars, accessLog, metricVars>>

Move(c, from, to) == stage[c] = from /\ stage' = [stage EXCEPT ![c] = to]

-----------------------------------------------------------------------------
(* Functions of the call *)

(* proxyClientIP, "" when there is none *)
ProxyClientIP(o) ==
  IF o.xRealIP # "" THEN o.xRealIP
  ELSE IF o.xForwardedFor # <<>> THEN Head(o.xForwardedFor) ELSE ""

SourceNoFallback(o) == ProxyClientIP(o)

(* WrapAccessLog's source: the transport label for want of an address. *)
Source(o) == IF ProxyClientIP(o) # "" THEN ProxyClientIP(o) ELSE Transport

(* validateQuery, then validatePage *)
Validate(i) ==
  CASE i.query = 0 -> "invalid query"
    [] i.query > MaxQueryLength -> "query too long"
    [] i.query \in 1..MaxQueryLength /\ i.page > MaxPageNumber -> "page too large"
    [] OTHER -> "none"

(* The presets of the convenience tools. *)
Preset(tool) ==
  CASE tool = "search_news" -> [categories |-> {"news"}, timeRange |-> "day"]
    [] tool = "search_images" -> [categories |-> {"images"}, timeRange |-> ""]
    [] tool = "search_videos" -> [categories |-> {"videos"}, timeRange |-> ""]
    [] tool = "search_music" -> [categories |-> {"music"}, timeRange |-> ""]

(* What a handler asks of SearXNG: search passes on what it was given. *)
Scope(i) ==
  IF i.tool = "search"
  THEN [categories |-> i.categories, timeRange |-> i.timeRange]
  ELSE Preset(i.tool)

PageAsGiven(i) == i.page

(* searchHelper's default; buildSearchQuery would leave page 0 out. *)
PageNo(i) == IF i.page <= 0 THEN 1 ELSE i.page

(* doRequest and buildSearchQuery *)
UpstreamRequest(c) ==
  [id |-> id[c], q |-> input[c].query, scope |-> Scope(input[c]),
   pageno |-> PageNo(input[c])]

StatusClass(code) ==
  IF code < 300 THEN "2xx" ELSE IF code < 400 THEN "3xx"
  ELSE IF code < 500 THEN "4xx" ELSE "5xx"

(* How record labels what resty returned: a response without a status,     *)
(* which resty may return along with an error, has status 0.               *)
UpstreamClass(r) ==
  IF ~r.response THEN "error" ELSE StatusClass(r.status)

SearchErrorIgnoringStatus(r) ==
  CASE r.error -> "execute request"
    [] ~r.error /\ ~r.readable -> "read response body"
    [] ~r.error /\ r.readable /\ ~(r.json /\ r.text <= MaxResponseBodySize) -> "unmarshal"
    [] OTHER -> "none"

(* What Search returns: doRequest's checks in their order, then Unmarshal, *)
(* which fails on a text the 10 MB reader cut short.                       *)
SearchError(r) ==
  CASE r.error -> "execute request"
    [] ~r.error /\ ~r.readable -> "read response body"
    [] ~r.error /\ r.readable /\ r.status \notin 200..299 -> "API status"
    [] ~r.error /\ r.readable /\ r.status \in 200..299
         /\ ~(r.json /\ r.text <= MaxResponseBodySize) -> "unmarshal"
    [] OTHER -> "none"

(* searchHelper's truncation *)
Truncated(i, n) == Min({n} \cup i.maxResults)

-----------------------------------------------------------------------------
ReceiveReusingId(c) ==
  /\ Move(c, "idle", "validate")
  /\ \E i \in Inputs : input' = [input EXCEPT ![c] = i]
  /\ \E o \in Origins : source' = [source EXCEPT ![c] = Source(o)]
  /\ \E n \in RequestIds : id' = [id EXCEPT ![c] = n]
  /\ UNCHANGED <<infoEnabled, upstream, response, outcomeVars, accessLog, metricVars>>

(* A call comes: WrapAccessLog makes its request id and finds its source. *)
Receive(c) ==
  /\ Move(c, "idle", "validate")
  /\ \E i \in Inputs : input' = [input EXCEPT ![c] = i]
  /\ \E o \in Origins : source' = [source EXCEPT ![c] = Source(o)]
  /\ \E n \in RequestIds \ {id[d] : d \in Calls} : id' = [id EXCEPT ![c] = n]
  /\ UNCHANGED <<infoEnabled, upstream, response, outcomeVars, accessLog, metricVars>>

(* The handler refuses its arguments. *)
Reject(c) ==
  /\ Move(c, "validate", "count")
  /\ Validate(input[c]) # "none"
  /\ failure' = [failure EXCEPT ![c] = Validate(input[c])]
  /\ UNCHANGED <<callVars, upstream, response, results, accessLog, metricVars>>

(* The handler searches: the request goes to SearXNG. *)
Send(c) ==
  /\ Move(c, "validate", "wait")
  /\ Validate(input[c]) = "none"
  /\ upstream' = [upstream EXCEPT ![c] = Append(@, UpstreamRequest(c))]
  /\ UNCHANGED <<callVars, response, outcomeVars, accessLog, metricVars>>

(* resty returns: an answer, a transport error, a cancelled context. *)
Respond(c) ==
  /\ Move(c, "wait", "record")
  /\ \E r \in Responses : response' = [response EXCEPT ![c] = r]
  /\ UNCHANGED <<callVars, upstream, outcomeVars, accessLog, metricVars>>

NoTimeout(c) == FALSE /\ UNCHANGED vars

(* SetTimeout(30 s): resty gives up, with or without a response object. *)
Timeout(c) ==
  /\ Move(c, "wait", "record")
  /\ \E withResponse \in BOOLEAN :
       response' = [response EXCEPT ![c] =
         [error |-> TRUE, response |-> withResponse, status |-> 0, readable |-> FALSE,
          text |-> 0, json |-> FALSE, results |-> 0]]
  /\ UNCHANGED <<callVars, upstream, outcomeVars, accessLog, metricVars>>

RecordUnlessError(c) ==
  /\ Move(c, "record", "conclude")
  /\ upstreamTotal' = IF response[c].error THEN upstreamTotal
                      ELSE [upstreamTotal EXCEPT ![UpstreamClass(response[c])] = @ + 1]
  /\ UNCHANGED <<callVars, upstream, response, outcomeVars, accessLog, toolTotal>>

(* UpstreamMetrics.record, before the error is looked at. *)
Record(c) ==
  /\ Move(c, "record", "conclude")
  /\ upstreamTotal' = [upstreamTotal EXCEPT ![UpstreamClass(response[c])] = @ + 1]
  /\ UNCHANGED <<callVars, upstream, response, outcomeVars, accessLog, toolTotal>>

ConcludeVerbose(c) ==
  /\ Move(c, "conclude", "count")
  /\ failure' = [failure EXCEPT ![c] = SearchError(response[c])]
  /\ results' = [results EXCEPT ![c] =
                   IF SearchError(response[c]) = "none"
                   THEN Truncated(input[c], response[c].results) ELSE 0]
  /\ UNCHANGED <<callVars, upstream, response, accessLog, metricVars>>

ConcludeRetrying(c) ==
  LET failed == SearchError(response[c]) # "none"
  IN /\ Move(c, "conclude", IF failed THEN "validate" ELSE "count")
     /\ results' = [results EXCEPT ![c] = IF failed THEN 0 ELSE Truncated(input[c], response[c].results)]
     /\ UNCHANGED <<callVars, upstream, response, failure, accessLog, metricVars>>

(* The body is read and decoded.  Whatever went wrong, the client is told  *)
(* ErrSearchFailed.                                                        *)
Conclude(c) ==
  /\ Move(c, "conclude", "count")
  /\ IF SearchError(response[c]) = "none"
     THEN /\ results' = [results EXCEPT ![c] = Truncated(input[c], response[c].results)]
          /\ UNCHANGED failure
     ELSE /\ failure' = [failure EXCEPT ![c] = "search failed"]
          /\ UNCHANGED results
  /\ UNCHANGED <<callVars, upstream, response, accessLog, metricVars>>

CountBeforeOutcome(c) ==
  /\ Move(c, "count", "log")
  /\ toolTotal' = [toolTotal EXCEPT ![input[c].tool]["2xx"] = @ + 1]
  /\ UNCHANGED <<callVars, upstream, response, outcomeVars, accessLog, upstreamTotal>>

(* WrapToolHandler: every error counts as 4xx. *)
CountTool(c) ==
  /\ Move(c, "count", "log")
  /\ LET class == IF failure[c] = "none" THEN "2xx" ELSE "4xx"
     IN toolTotal' = [toolTotal EXCEPT ![input[c].tool][class] = @ + 1]
  /\ UNCHANGED <<callVars, upstream, response, outcomeVars, accessLog, upstreamTotal>>

AccessLine(c) ==
  [tool |-> input[c].tool, id |-> id[c], source |-> source[c],
   outcome |-> IF failure[c] = "none" THEN "ok" ELSE "error"]

(* WrapAccessLog writes its line and the call is answered. *)
Log(c) ==
  /\ Move(c, "log", "done")
  /\ accessLog' = IF infoEnabled
                  THEN [accessLog EXCEPT ![c] = Append(@, AccessLine(c))] ELSE accessLog
  /\ UNCHANGED <<callVars, upstream, response, outcomeVars, metricVars>>

-----------------------------------------------------------------------------
UpstreamClasses == {"2xx", "3xx", "4xx", "5xx", "error"}
ToolClasses == {"2xx", "4xx"}
NoInput == CHOOSE i \in Inputs : TRUE

Init ==
  /\ infoEnabled \in BOOLEAN
  /\ stage = [c \in Calls |-> "idle"]
  /\ input = [c \in Calls |-> NoInput]
  /\ id = [c \in Calls |-> "none"]
  /\ source = [c \in Calls |-> Transport]
  /\ upstream = [c \in Calls |-> <<>>]
  /\ response = [c \in Calls |-> NoResponse]
  /\ failure = [c \in Calls |-> "none"]
  /\ results = [c \in Calls |-> 0]
  /\ accessLog = [c \in Calls |-> <<>>]
  /\ upstreamTotal = [s \in UpstreamClasses |-> 0]
  /\ toolTotal = [t \in Tools |-> [s \in ToolClasses |-> 0]]

Handle(c) ==
  \/ Reject(c) \/ Send(c) \/ Record(c) \/ Conclude(c) \/ CountTool(c) \/ Log(c)

(* Every call has been answered. *)
AllDone == (\A c \in Calls : stage[c] = "done") /\ UNCHANGED vars

Next ==
  \/ \E c \in Calls : Receive(c) \/ Handle(c) \/ Respond(c) \/ Timeout(c)
  \/ AllDone

Spec == Init /\ [][Next]_vars

(* Goroutines are scheduled and the outbound timeout runs; SearXNG owes    *)
(* nothing.                                                                *)
FairSpec == Spec /\ \A c \in Calls : WF_vars(Handle(c)) /\ WF_vars(Timeout(c))

-----------------------------------------------------------------------------
Failures == {"invalid query", "query too long", "page too large", "search failed"}
Sent(c) == upstream[c] # <<>>
Returned(c) == stage[c] \in {"count", "log", "done"}

(* The types; an id is drawn when a call comes and a response is there     *)
(* only after a request (WrapAccessLog, doRequest).                        *)
TypeOK ==
  /\ infoEnabled \in BOOLEAN
  /\ stage \in [Calls -> {"idle", "validate", "wait", "record", "conclude", "count",
                          "log", "done"}]
  /\ input \in [Calls -> Inputs]
  /\ \A c \in Calls : id[c] \in IF stage[c] = "idle" THEN {"none"} ELSE RequestIds
  /\ \A c \in Calls : source[c] # ""
  /\ \A c \in Calls : Sent(c) \/ response[c] = NoResponse
  /\ failure \in [Calls -> {"none"} \cup Failures]
  /\ results \in [Calls -> Nat]
  /\ \A c \in Calls : Len(accessLog[c]) <= 1
  /\ upstreamTotal \in [UpstreamClasses -> Nat]
  /\ toolTotal \in [Tools -> [ToolClasses -> Nat]]

(* Whatever a client asks, SearXNG receives a query and a page within the  *)
(* limits, and the page is never left out (validateQuery, validatePage,    *)
(* searchHelper, buildSearchQuery).                                        *)
UpstreamRequestBounded ==
  \A c \in Calls : \A k \in DOMAIN upstream[c] :
    /\ upstream[c][k].q \in 1..MaxQueryLength
    /\ upstream[c][k].pageno \in 1..MaxPageNumber

(* "forwarded upstream as X-Request-ID" (requestid.go:3): the id SearXNG   *)
(* received leads to the one access log line of that call, and its tool is *)
(* the one whose preset SearXNG saw.                                       *)
LogsCorrelate ==
  \A c, d \in Calls :
    Sent(c) /\ accessLog[d] # <<>> /\ accessLog[d][1].id = upstream[c][1].id =>
      /\ c = d
      /\ accessLog[d][1].tool # "search" =>
           upstream[c][1].scope = Preset(accessLog[d][1].tool)

(* A client is told "ok" only of a 2xx answer that was read and decoded    *)
(* whole: a body cut at the 10 MB limit is an error, and results are       *)
(* missing only when max_results asked for fewer (doRequest, Search,       *)
(* searchHelper).                                                          *)
OkMeansWholeAnswer ==
  \A c \in Calls : Returned(c) /\ failure[c] = "none" =>
    LET r == response[c]
    IN /\ Sent(c)
       /\ ~r.error /\ r.readable /\ r.status \in 200..299
       /\ r.json /\ r.text <= MaxResponseBodySize
       /\ results[c] = r.results \/ (results[c] < r.results /\ results[c] \in input[c].maxResults)

(* "Sentinel errors returned to the MCP client with user-friendly          *)
(* messages" (tools.go:18): the client learns search failed of any failure *)
(* upstream, of nothing else, and never the error itself.                  *)
UpstreamErrorsHidden ==
  \A c \in Calls : Returned(c) /\ failure[c] # "none" =>
    IF Sent(c) THEN failure[c] = "search failed"
               ELSE failure[c] \in Failures \ {"search failed"}

(* The two counters, bumped at different times by different layers, agree  *)
(* with what happened to the calls: every request sent is counted once     *)
(* under its class, errors included, and every call once under its tool    *)
(* (record, WrapToolHandler).                                              *)
UpstreamCounted ==
  \A s \in UpstreamClasses :
    upstreamTotal[s] =
      Cardinality({c \in Calls : /\ Sent(c) /\ stage[c] \notin {"wait", "record"}
                                 /\ UpstreamClass(response[c]) = s})

(* mcp_tool_requests_total agrees with the access log: a line that says ok *)
(* was counted as 2xx, one that says error as 4xx, and only the calls      *)
(* between the two layers are ahead of the log (WrapAccessLog around       *)
(* WrapToolHandler).                                                       *)
CounterMatchesLog ==
  infoEnabled =>
    \A t \in Tools, s \in ToolClasses :
      LET logged == {c \in Calls : /\ accessLog[c] # <<>>
                                   /\ accessLog[c][1].tool = t
                                   /\ accessLog[c][1].outcome = IF s = "2xx" THEN "ok" ELSE "error"}
          between == {c \in Calls : /\ stage[c] = "log" /\ input[c].tool = t
                                    /\ (failure[c] = "none") = (s = "2xx")}
      IN toolTotal[t][s] = Cardinality(logged) + Cardinality(between)

(* Every call is answered although SearXNG may never answer: "the explicit *)
(* 30s timeout bounds each outbound call" (main.go:155).                   *)
EveryCallAnswered == \A c \in Calls : stage[c] = "validate" ~> stage[c] = "done"

(* A call as the promise sees it: open from its arrival to its answer,     *)
(* whatever the layers do meanwhile.                                       *)
PhaseOf(c) ==
  IF stage[c] = "idle" THEN "new"
  ELSE IF stage[c] # "done" THEN "open"
  ELSE IF failure[c] = "none" THEN "ok" ELSE "failed"

Promise == INSTANCE SearchPromise WITH
  phase <- [c \in Calls |-> PhaseOf(c)],
  asked <- [c \in Calls |-> Len(upstream[c])]

(* Every call keeps the promise: one answer, at most one request to        *)
(* SearXNG, "rather than silently retried" (main.go:157), and success only *)
(* of a call that asked.                                                   *)
ImplementsPromise == Promise!Spec
=============================================================================
