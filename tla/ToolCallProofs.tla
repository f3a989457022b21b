--------------------------- MODULE ToolCallProofs ---------------------------
(***************************************************************************)
(* Proofs about ToolCall, for any finite number of concurrent calls, any   *)
(* arguments, and anything SearXNG and resty may return.                   *)
(***************************************************************************)
EXTENDS ToolCall, FiniteSetTheorems, TLAPS

-----------------------------------------------------------------------------
(* The inductive invariant *)

(* What resty gives back when its timeout fires. *)
GaveUp(withResponse) ==
  [error |-> TRUE, response |-> withResponse, status |-> 0, readable |-> FALSE,
   text |-> 0, json |-> FALSE, results |-> 0]

Answers == Responses \cup {GaveUp(b) : b \in BOOLEAN}

(* The handler has not asked SearXNG. *)
Unasked(c) == upstream[c] = <<>> /\ response[c] = NoResponse

(* It has asked once, for what it was asked itself, which was in order. *)
AskedOnce(c) == Validate(input[c]) = "none" /\ upstream[c] = <<UpstreamRequest(c)>>

NoOutcome(c) == failure[c] = "none" /\ results[c] = 0

(* The outcome is what the validation or the answer calls for. *)
Concluded(c) ==
  \/ Unasked(c) /\ Validate(input[c]) # "none" /\ failure[c] = Validate(input[c])
  \/ /\ AskedOnce(c) /\ response[c] \in Answers
     /\ IF SearchError(response[c]) = "none"
        THEN failure[c] = "none" /\ results[c] = Truncated(input[c], response[c].results)
        ELSE failure[c] = "search failed"

(* What each stage of a call knows of the ones before. *)
CallInv(c) ==
  /\ stage[c] \in {"idle", "validate"} => Unasked(c) /\ NoOutcome(c)
  /\ stage[c] = "wait" => AskedOnce(c) /\ NoOutcome(c)
  /\ stage[c] \in {"record", "conclude"} =>
       AskedOnce(c) /\ NoOutcome(c) /\ response[c] \in Answers
  /\ stage[c] \in {"count", "log", "done"} => Concluded(c)
  /\ accessLog[c] = IF stage[c] = "done" /\ infoEnabled THEN <<AccessLine(c)>> ELSE <<>>

(* Each array has a place for every call. *)
Arrays ==
  /\ DOMAIN id = Calls /\ DOMAIN source = Calls /\ DOMAIN upstream = Calls
  /\ DOMAIN response = Calls /\ DOMAIN accessLog = Calls

(* requestid.New never draws an id twice. *)
IdsUnique == \A c, d \in Calls : id[c] = id[d] /\ id[c] # "none" => c = d

ToolCallInv ==
  TypeOK /\ Arrays /\ IdsUnique /\ \A c \in Calls : CallInv(c)

-----------------------------------------------------------------------------
(* Lemmas about the operators *)

(* What the validation lets pass is within the limits, and what it refuses *)
(* it refuses with one of its own errors (validateQuery, validatePage).    *)
LEMMA ValidateFacts ==
  ASSUME NEW i \in Inputs
  PROVE  /\ Validate(i) \in {"none", "invalid query", "query too long", "page too large"}
         /\ Validate(i) = "none" => i.query \in 1..MaxQueryLength /\ i.page <= MaxPageNumber
  <1>1. i.query \in Nat /\ i.page \in Int
    BY CallAssumption DEF InputType
  <1>2. MaxQueryLength \in Nat /\ MaxPageNumber \in Nat
    BY CallAssumption
  <1>3. CASE i.query = 0
    <2>1. ~(i.query > MaxQueryLength) /\ i.query \notin 1..MaxQueryLength
      BY <1>2, <1>3
    <2>2. Validate(i) = "invalid query"
      BY <1>3, <2>1 DEF Validate
    <2> QED
      BY <2>2
  <1>4. CASE i.query > MaxQueryLength
    <2>1. i.query # 0 /\ i.query \notin 1..MaxQueryLength
      BY <1>1, <1>2, <1>4
    <2>2. Validate(i) = "query too long"
      BY <1>4, <2>1 DEF Validate
    <2> QED
      BY <2>2
  <1>5. CASE i.query \in 1..MaxQueryLength
    <2>1. i.query # 0 /\ ~(i.query > MaxQueryLength)
      BY <1>1, <1>2, <1>5
    <2>2. CASE i.page > MaxPageNumber
      <3>1. Validate(i) = "page too large"
        BY <1>5, <2>1, <2>2 DEF Validate
      <3> QED
        BY <3>1
    <2>3. CASE ~(i.page > MaxPageNumber)
      <3>1. Validate(i) = "none"
        BY <1>5, <2>1, <2>3 DEF Validate
      <3>2. i.page <= MaxPageNumber
        BY <1>1, <1>2, <2>3
      <3> QED
        BY <1>5, <3>1, <3>2
    <2> QED
      BY <2>2, <2>3
  <1>6. i.query = 0 \/ i.query > MaxQueryLength \/ i.query \in 1..MaxQueryLength
    BY <1>1, <1>2
  <1> QED
    BY <1>3, <1>4, <1>5, <1>6

(* Whatever resty gives back has the fields the client looks at.           *)
LEMMA AnswerType == Answers \subseteq ResponseType
  <1>1. ASSUME NEW b \in BOOLEAN
        PROVE  GaveUp(b) \in ResponseType
    BY DEF GaveUp, ResponseType
  <1> QED
    BY <1>1, CallAssumption DEF Answers

(* No error of Search means a 2xx answer that was read and decoded whole   *)
(* (doRequest, Search).                                                    *)
LEMMA SearchErrorFacts ==
  ASSUME NEW r \in ResponseType, SearchError(r) = "none"
  PROVE  /\ ~r.error /\ r.readable /\ r.status \in 200..299
         /\ r.json /\ r.text <= MaxResponseBodySize
  <1>1. CASE r.error
    <2>1. SearchError(r) = "execute request"
      BY <1>1 DEF SearchError
    <2> QED
      BY <2>1
  <1>2. CASE ~r.error /\ ~r.readable
    <2>1. SearchError(r) = "read response body"
      BY <1>2 DEF SearchError
    <2> QED
      BY <2>1
  <1>3. CASE ~r.error /\ r.readable /\ r.status \notin 200..299
    <2>1. SearchError(r) = "API status"
      BY <1>3 DEF SearchError
    <2> QED
      BY <2>1
  <1>4. CASE /\ ~r.error /\ r.readable /\ r.status \in 200..299
             /\ ~(r.json /\ r.text <= MaxResponseBodySize)
    <2>1. SearchError(r) = "unmarshal"
      BY <1>4 DEF SearchError
    <2> QED
      BY <2>1
  <1> QED
    BY <1>1, <1>2, <1>3, <1>4

(* The truncation keeps everything or exactly what max_results asks for    *)
(* (searchHelper).                                                         *)
LEMMA TruncatedFacts ==
  ASSUME NEW i \in Inputs, NEW n \in Nat
  PROVE  /\ Truncated(i, n) \in Nat
         /\ \/ Truncated(i, n) = n
            \/ Truncated(i, n) < n /\ Truncated(i, n) \in i.maxResults
  <1>1. i.maxResults \in SUBSET Nat /\ IsFiniteSet(i.maxResults)
        /\ Cardinality(i.maxResults) <= 1
    BY CallAssumption DEF InputType
  <1>2. i.maxResults = {} \/ \E m \in Nat : i.maxResults = {m}
    <2>1. Cardinality(i.maxResults) = 0 \/ Cardinality(i.maxResults) = 1
      BY <1>1, FS_CardinalityType
    <2>2. CASE Cardinality(i.maxResults) = 0
      BY <1>1, <2>2, FS_EmptySet
    <2>3. CASE Cardinality(i.maxResults) = 1
      BY <1>1, <2>3, FS_Singleton
    <2> QED
      BY <2>1, <2>2, <2>3
  <1>3. \E x \in {n} \cup i.maxResults : \A y \in {n} \cup i.maxResults : x <= y
    BY <1>2
  <1>4. /\ Truncated(i, n) \in {n} \cup i.maxResults
        /\ \A y \in {n} \cup i.maxResults : Truncated(i, n) <= y
    BY <1>3 DEF Truncated, Min
  <1> QED
    BY <1>1, <1>4

(* The access log never has an empty source (WrapAccessLog). *)
LEMMA SourceNamed == \A o \in Origins : Source(o) # ""
  BY CallAssumption DEF Source

(* Whatever happened upstream has one of the labels of the counter         *)
(* (UpstreamMetrics.record).                                               *)
LEMMA ClassKnown == \A r : UpstreamClass(r) \in UpstreamClasses
  BY DEF UpstreamClass, UpstreamClasses, StatusClass

-----------------------------------------------------------------------------
(* The invariant is inductive *)

(* What a call keeps when another one moves: the calls share the counters, *)
(* and nothing else.                                                       *)
Same(c) ==
  /\ infoEnabled' = infoEnabled
  /\ stage'[c] = stage[c] /\ input'[c] = input[c]
  /\ id'[c] = id[c] /\ source'[c] = source[c]
  /\ upstream'[c] = upstream[c] /\ response'[c] = response[c]
  /\ failure'[c] = failure[c] /\ results'[c] = results[c]
  /\ accessLog'[c] = accessLog[c]

(* What is known of a call holds as long as nobody touches it. *)
LEMMA SameInv ==
  ASSUME NEW c \in Calls, CallInv(c), Same(c)
  PROVE  CallInv(c)'
  BY DEF CallInv, Same, Unasked, NoOutcome, AskedOnce, Concluded, UpstreamRequest, AccessLine

(* A sequence of one element, and what Append makes of the empty one. *)
LEMMA OneElement ==
  /\ \A x : <<x>> # <<>> /\ Len(<<x>>) = 1 /\ <<x>>[1] = x /\ DOMAIN <<x>> = {1}
  /\ \A x : Append(<<>>, x) = <<x>>
  /\ \A x : Len(<<x>>) <= 1
  /\ Len(<<>>) <= 1
  OBVIOUS

(* A step keeps the invariant if the arrays keep their types and the call  *)
(* that moved knows what its new stage should know.                        *)
LEMMA OneMoves ==
  ASSUME ToolCallInv, NEW c \in Calls,
         NEW to \in {"validate", "wait", "record", "conclude", "count", "log", "done"},
         stage' = [stage EXCEPT ![c] = to],
         input' \in [Calls -> Inputs],
         failure' \in [Calls -> {"none"} \cup Failures],
         results' \in [Calls -> Nat],
         upstreamTotal' \in [UpstreamClasses -> Nat],
         toolTotal' \in [Tools -> [ToolClasses -> Nat]],
         infoEnabled' = infoEnabled,
         id'[c] \in RequestIds, source'[c] # "",
         Arrays', IdsUnique', CallInv(c)',
         \A d \in Calls : d # c => Same(d)
  PROVE  ToolCallInv'
  <1>1. \A d \in Calls : CallInv(d)'
    <2>1. ASSUME NEW d \in Calls, d # c
          PROVE  CallInv(d)'
      BY <2>1, SameInv DEF ToolCallInv
    <2> QED
      BY <2>1
  <1>2. /\ infoEnabled' \in BOOLEAN
        /\ stage' \in [Calls -> {"idle", "validate", "wait", "record", "conclude", "count",
                                 "log", "done"}]
    BY DEF ToolCallInv, TypeOK
  <1>3. ASSUME NEW d \in Calls
        PROVE  /\ id'[d] \in IF stage'[d] = "idle" THEN {"none"} ELSE RequestIds
               /\ source'[d] # ""
    <2>1. CASE d = c
      BY <2>1 DEF ToolCallInv, TypeOK
    <2>2. CASE d # c
      BY <2>2 DEF ToolCallInv, TypeOK, Same
    <2> QED
      BY <2>1, <2>2
  <1>4. ASSUME NEW d \in Calls
        PROVE  (Sent(d) \/ response[d] = NoResponse)'
    <2>1. CallInv(d)'
      BY <1>1
    <2>2. stage'[d] \in {"idle", "validate", "wait", "record", "conclude", "count", "log", "done"}
      BY <1>2
    <2>3. Unasked(d)' \/ AskedOnce(d)'
      BY <2>1, <2>2 DEF CallInv, Concluded
    <2>4. CASE Unasked(d)'
      BY <2>4 DEF Unasked
    <2>5. CASE AskedOnce(d)'
      <3>1. upstream'[d] = <<UpstreamRequest(d)'>>
        BY <2>5 DEF AskedOnce
      <3> QED
        BY <3>1, OneElement DEF Sent
    <2> QED
      BY <2>3, <2>4, <2>5
  <1>5. ASSUME NEW d \in Calls
        PROVE  Len(accessLog'[d]) <= 1
    <2>1. accessLog'[d] = <<AccessLine(d)'>> \/ accessLog'[d] = <<>>
      BY <1>1 DEF CallInv
    <2> QED
      BY <2>1, OneElement, Zenon
  <1> QED
    BY <1>1, <1>2, <1>3, <1>4, <1>5 DEF ToolCallInv, TypeOK

(* The initial state satisfies the invariant. *)
LEMMA ToolCallInit == Init => ToolCallInv
  <1> SUFFICES ASSUME Init PROVE ToolCallInv
    OBVIOUS
  <1>1. NoInput \in Inputs /\ Transport # ""
    BY CallAssumption DEF NoInput
  <1>2. TypeOK
    <2>1. \A c \in Calls : Len(accessLog[c]) <= 1
      BY OneElement, Zenon DEF Init
    <2> QED
      BY <1>1, <2>1 DEF Init, TypeOK
  <1>3. Arrays /\ IdsUnique
    BY DEF Init, Arrays, IdsUnique
  <1>4. \A c \in Calls : CallInv(c)
    BY DEF Init, CallInv, Unasked, NoOutcome
  <1> QED
    BY <1>2, <1>3, <1>4 DEF ToolCallInv

(* No step of a call touches what another one is made of. *)
LEMMA Elsewhere ==
  ASSUME ToolCallInv, NEW c \in Calls, NEW d \in Calls, d # c,
         Receive(c) \/ Handle(c) \/ Respond(c) \/ Timeout(c)
  PROVE  Same(d)
  <1> USE DEF Move, callVars, outcomeVars
  <1>1. CASE Receive(c)
    BY <1>1 DEF ToolCallInv, TypeOK, Arrays, Same, Receive
  <1>2. CASE Reject(c)
    BY <1>2 DEF ToolCallInv, TypeOK, Same, Reject
  <1>3. CASE Send(c)
    BY <1>3 DEF ToolCallInv, TypeOK, Arrays, Same, Send
  <1>4. CASE Respond(c)
    BY <1>4 DEF ToolCallInv, TypeOK, Arrays, Same, Respond
  <1>5. CASE Timeout(c)
    BY <1>5 DEF ToolCallInv, TypeOK, Arrays, Same, Timeout
  <1>6. CASE Record(c)
    BY <1>6 DEF ToolCallInv, TypeOK, Same, Record
  <1>7. CASE Conclude(c)
    BY <1>7 DEF ToolCallInv, TypeOK, Same, Conclude
  <1>8. CASE CountTool(c)
    BY <1>8 DEF ToolCallInv, TypeOK, Same, CountTool
  <1>9. CASE Log(c)
    BY <1>9 DEF ToolCallInv, TypeOK, Arrays, Same, Log
  <1> QED
    BY <1>1, <1>2, <1>3, <1>4, <1>5, <1>6, <1>7, <1>8, <1>9 DEF Handle

(* A call comes with an id of its own and a named source. *)
LEMMA ReceiveInv ==
  ASSUME ToolCallInv, NEW c \in Calls, Receive(c)
  PROVE  ToolCallInv'
  <1>1. stage[c] = "idle" /\ stage' = [stage EXCEPT ![c] = "validate"]
    BY DEF Receive, Move
  <1>2. Unasked(c) /\ NoOutcome(c) /\ accessLog[c] = <<>>
    BY <1>1 DEF ToolCallInv, CallInv
  <1>3. PICK i \in Inputs : input' = [input EXCEPT ![c] = i]
    BY DEF Receive
  <1>4. PICK o \in Origins : source' = [source EXCEPT ![c] = Source(o)]
    BY DEF Receive
  <1>5. PICK n \in RequestIds \ {id[d] : d \in Calls} : id' = [id EXCEPT ![c] = n]
    BY DEF Receive
  <1>6. /\ input' \in [Calls -> Inputs]
        /\ failure' \in [Calls -> {"none"} \cup Failures]
        /\ results' \in [Calls -> Nat]
        /\ upstreamTotal' \in [UpstreamClasses -> Nat]
        /\ toolTotal' \in [Tools -> [ToolClasses -> Nat]]
        /\ infoEnabled' = infoEnabled
    BY <1>3 DEF ToolCallInv, TypeOK, Receive, outcomeVars, metricVars
  <1>7. id'[c] \in RequestIds /\ source'[c] # ""
    BY <1>4, <1>5, SourceNamed DEF ToolCallInv, Arrays
  <1>8. Arrays'
    BY <1>4, <1>5 DEF ToolCallInv, Arrays, Receive
  <1>9. IdsUnique'
    BY <1>5 DEF ToolCallInv, Arrays, IdsUnique
  <1>10. CallInv(c)'
    BY <1>1, <1>2, <1>6 DEF ToolCallInv, TypeOK, CallInv, Receive, outcomeVars, Unasked, NoOutcome
  <1>11. \A d \in Calls : d # c => Same(d)
    BY Elsewhere
  <1> QED
    BY <1>1, <1>6, <1>7, <1>8, <1>9, <1>10, <1>11, OneMoves

(* Arguments that are out of bounds end the call without a request. *)
LEMMA RejectInv ==
  ASSUME ToolCallInv, NEW c \in Calls, Reject(c)
  PROVE  ToolCallInv'
  <1>1. stage[c] = "validate" /\ stage' = [stage EXCEPT ![c] = "count"]
    BY DEF Reject, Move
  <1>2. Unasked(c) /\ NoOutcome(c) /\ accessLog[c] = <<>>
    BY <1>1 DEF ToolCallInv, CallInv
  <1>3. Validate(input[c]) \in Failures
    BY ValidateFacts DEF ToolCallInv, TypeOK, Reject, Failures
  <1>4. /\ input' \in [Calls -> Inputs]
        /\ failure' \in [Calls -> {"none"} \cup Failures]
        /\ results' \in [Calls -> Nat]
        /\ upstreamTotal' \in [UpstreamClasses -> Nat]
        /\ toolTotal' \in [Tools -> [ToolClasses -> Nat]]
        /\ infoEnabled' = infoEnabled
    BY <1>3 DEF ToolCallInv, TypeOK, Reject, callVars, metricVars
  <1>5. id'[c] \in RequestIds /\ source'[c] # ""
    BY <1>1 DEF ToolCallInv, TypeOK, Reject, callVars
  <1>6. Arrays' /\ IdsUnique'
    BY DEF ToolCallInv, Arrays, IdsUnique, Reject, callVars
  <1>7. CallInv(c)'
    BY <1>1, <1>2 DEF ToolCallInv, TypeOK, CallInv, Reject, callVars, Unasked, Concluded
  <1>8. \A d \in Calls : d # c => Same(d)
    BY Elsewhere DEF Handle
  <1> QED
    BY <1>1, <1>4, <1>5, <1>6, <1>7, <1>8, OneMoves

(* Arguments that are in order go to SearXNG once. *)
LEMMA SendInv ==
  ASSUME ToolCallInv, NEW c \in Calls, Send(c)
  PROVE  ToolCallInv'
  <1>1. stage[c] = "validate" /\ stage' = [stage EXCEPT ![c] = "wait"]
    BY DEF Send, Move
  <1>2. Unasked(c) /\ NoOutcome(c) /\ accessLog[c] = <<>>
    BY <1>1 DEF ToolCallInv, CallInv
  <1>3. upstream' = [upstream EXCEPT ![c] = <<UpstreamRequest(c)>>]
    BY <1>2, OneElement DEF Send, Unasked
  <1>4. /\ input' \in [Calls -> Inputs]
        /\ failure' \in [Calls -> {"none"} \cup Failures]
        /\ results' \in [Calls -> Nat]
        /\ upstreamTotal' \in [UpstreamClasses -> Nat]
        /\ toolTotal' \in [Tools -> [ToolClasses -> Nat]]
        /\ infoEnabled' = infoEnabled
    BY DEF ToolCallInv, TypeOK, Send, callVars, outcomeVars, metricVars
  <1>5. id'[c] \in RequestIds /\ source'[c] # ""
    BY <1>1 DEF ToolCallInv, TypeOK, Send, callVars
  <1>6. Arrays' /\ IdsUnique'
    BY <1>3 DEF ToolCallInv, Arrays, IdsUnique, Send, callVars
  <1>7. CallInv(c)'
    <2>1. stage'[c] = "wait" /\ accessLog'[c] = <<>> /\ NoOutcome(c)'
      BY <1>1, <1>2 DEF ToolCallInv, TypeOK, Send, outcomeVars, NoOutcome
    <2>2. AskedOnce(c)'
      BY <1>3 DEF ToolCallInv, Arrays, Send, callVars, AskedOnce, UpstreamRequest
    <2> QED
      BY <2>1, <2>2 DEF CallInv
  <1>8. \A d \in Calls : d # c => Same(d)
    BY Elsewhere DEF Handle
  <1> QED
    BY <1>1, <1>4, <1>5, <1>6, <1>7, <1>8, OneMoves

(* resty returns an answer, or gives up when the timeout fires. *)
LEMMA RespondInv ==
  ASSUME ToolCallInv, NEW c \in Calls, Respond(c) \/ Timeout(c)
  PROVE  ToolCallInv'
  <1>1. stage[c] = "wait" /\ stage' = [stage EXCEPT ![c] = "record"]
    BY DEF Respond, Timeout, Move
  <1>2. AskedOnce(c) /\ NoOutcome(c) /\ accessLog[c] = <<>>
    BY <1>1 DEF ToolCallInv, CallInv
  <1>3. PICK r \in Answers : response' = [response EXCEPT ![c] = r]
    BY DEF Respond, Timeout, Answers, GaveUp
  <1>4. UNCHANGED <<callVars, upstream, outcomeVars, accessLog, metricVars>>
    BY DEF Respond, Timeout
  <1>5. /\ input' \in [Calls -> Inputs]
        /\ failure' \in [Calls -> {"none"} \cup Failures]
        /\ results' \in [Calls -> Nat]
        /\ upstreamTotal' \in [UpstreamClasses -> Nat]
        /\ toolTotal' \in [Tools -> [ToolClasses -> Nat]]
        /\ infoEnabled' = infoEnabled
    BY <1>4 DEF ToolCallInv, TypeOK, callVars, outcomeVars, metricVars
  <1>6. id'[c] \in RequestIds /\ source'[c] # ""
    BY <1>1, <1>4 DEF ToolCallInv, TypeOK, callVars
  <1>7. Arrays' /\ IdsUnique'
    BY <1>3, <1>4 DEF ToolCallInv, Arrays, IdsUnique, callVars
  <1>8. CallInv(c)'
    <2>1. stage'[c] = "record" /\ accessLog'[c] = <<>> /\ NoOutcome(c)' /\ AskedOnce(c)'
      BY <1>1, <1>2, <1>4 DEF ToolCallInv, TypeOK, callVars, outcomeVars, NoOutcome, AskedOnce,
                              UpstreamRequest
    <2>2. response'[c] \in Answers
      BY <1>3 DEF ToolCallInv, Arrays
    <2> QED
      BY <2>1, <2>2 DEF CallInv
  <1>9. \A d \in Calls : d # c => Same(d)
    BY Elsewhere
  <1> QED
    BY <1>1, <1>5, <1>6, <1>7, <1>8, <1>9, OneMoves

(* The upstream counter is bumped before anybody looks at the answer. *)
LEMMA RecordInv ==
  ASSUME ToolCallInv, NEW c \in Calls, Record(c)
  PROVE  ToolCallInv'
  <1>1. stage[c] = "record" /\ stage' = [stage EXCEPT ![c] = "conclude"]
    BY DEF Record, Move
  <1>2. AskedOnce(c) /\ NoOutcome(c) /\ response[c] \in Answers /\ accessLog[c] = <<>>
    BY <1>1 DEF ToolCallInv, CallInv
  <1>3. upstreamTotal' \in [UpstreamClasses -> Nat]
    <2> DEFINE class == UpstreamClass(response[c])
    <2>1. class \in UpstreamClasses /\ upstreamTotal \in [UpstreamClasses -> Nat]
      BY ClassKnown DEF ToolCallInv, TypeOK
    <2>2. upstreamTotal' = [upstreamTotal EXCEPT ![class] = upstreamTotal[class] + 1]
      BY DEF Record
    <2> HIDE DEF class
    <2> QED
      BY <2>1, <2>2
  <1>4. /\ input' \in [Calls -> Inputs]
        /\ failure' \in [Calls -> {"none"} \cup Failures]
        /\ results' \in [Calls -> Nat]
        /\ toolTotal' \in [Tools -> [ToolClasses -> Nat]]
        /\ infoEnabled' = infoEnabled
    BY DEF ToolCallInv, TypeOK, Record, callVars, outcomeVars
  <1>5. id'[c] \in RequestIds /\ source'[c] # ""
    BY <1>1 DEF ToolCallInv, TypeOK, Record, callVars
  <1>6. Arrays' /\ IdsUnique'
    BY DEF ToolCallInv, Arrays, IdsUnique, Record, callVars
  <1>7. CallInv(c)'
    BY <1>1, <1>2 DEF ToolCallInv, TypeOK, CallInv, Record, callVars, outcomeVars, NoOutcome,
                      AskedOnce, UpstreamRequest
  <1>8. \A d \in Calls : d # c => Same(d)
    BY Elsewhere DEF Handle
  <1> QED
    BY <1>1, <1>3, <1>4, <1>5, <1>6, <1>7, <1>8, OneMoves

(* The answer decides the outcome: its results, or the one error the       *)
(* client may see.                                                         *)
LEMMA ConcludeInv ==
  ASSUME ToolCallInv, NEW c \in Calls, Conclude(c)
  PROVE  ToolCallInv'
  <1>1. stage[c] = "conclude" /\ stage' = [stage EXCEPT ![c] = "count"]
    BY DEF Conclude, Move
  <1>2. AskedOnce(c) /\ NoOutcome(c) /\ response[c] \in Answers /\ accessLog[c] = <<>>
    BY <1>1 DEF ToolCallInv, CallInv
  <1>3. Truncated(input[c], response[c].results) \in Nat
    BY <1>2, AnswerType, TruncatedFacts DEF ToolCallInv, TypeOK, ResponseType
  <1>4. failure' \in [Calls -> {"none"} \cup Failures] /\ results' \in [Calls -> Nat]
    BY <1>3 DEF ToolCallInv, TypeOK, Conclude, Failures
  <1>5. /\ input' \in [Calls -> Inputs]
        /\ upstreamTotal' \in [UpstreamClasses -> Nat]
        /\ toolTotal' \in [Tools -> [ToolClasses -> Nat]]
        /\ infoEnabled' = infoEnabled
    BY DEF ToolCallInv, TypeOK, Conclude, callVars, metricVars
  <1>6. id'[c] \in RequestIds /\ source'[c] # ""
    BY <1>1 DEF ToolCallInv, TypeOK, Conclude, callVars
  <1>7. Arrays' /\ IdsUnique'
    BY DEF ToolCallInv, Arrays, IdsUnique, Conclude, callVars
  <1>8. CallInv(c)'
    <2>1. AskedOnce(c)' /\ response'[c] \in Answers
      BY <1>2 DEF Conclude, callVars, AskedOnce, UpstreamRequest
    <2>2. IF SearchError(response[c]) = "none"
          THEN failure'[c] = "none" /\ results'[c] = Truncated(input[c], response[c].results)
          ELSE failure'[c] = "search failed"
      BY <1>2 DEF ToolCallInv, TypeOK, Conclude, NoOutcome
    <2>3. Concluded(c)'
      BY <2>1, <2>2 DEF Concluded, Conclude, callVars
    <2> QED
      BY <1>1, <1>2, <2>3 DEF ToolCallInv, TypeOK, CallInv, Conclude
  <1>9. \A d \in Calls : d # c => Same(d)
    BY Elsewhere DEF Handle
  <1> QED
    BY <1>1, <1>4, <1>5, <1>6, <1>7, <1>8, <1>9, OneMoves

(* The tool's counter is bumped once per call. *)
LEMMA CountToolInv ==
  ASSUME ToolCallInv, NEW c \in Calls, CountTool(c)
  PROVE  ToolCallInv'
  <1>1. stage[c] = "count" /\ stage' = [stage EXCEPT ![c] = "log"]
    BY DEF CountTool, Move
  <1>2. Concluded(c) /\ accessLog[c] = <<>>
    BY <1>1 DEF ToolCallInv, CallInv
  <1>3. toolTotal' \in [Tools -> [ToolClasses -> Nat]]
    <2>1. PICK class \in ToolClasses :
            toolTotal' = [toolTotal EXCEPT ![input[c].tool][class] = @ + 1]
      BY DEF CountTool, ToolClasses
    <2> DEFINE tool == input[c].tool
    <2>2. tool \in Tools /\ toolTotal \in [Tools -> [ToolClasses -> Nat]]
      <3>1. input[c] \in InputType
        BY CallAssumption DEF ToolCallInv, TypeOK
      <3> QED
        BY <3>1 DEF ToolCallInv, TypeOK, InputType
    <2>3. toolTotal' =
            [toolTotal EXCEPT ![tool] = [toolTotal[tool] EXCEPT ![class] = toolTotal[tool][class] + 1]]
      BY <2>1
    <2> HIDE DEF tool
    <2>4. [toolTotal[tool] EXCEPT ![class] = toolTotal[tool][class] + 1] \in [ToolClasses -> Nat]
      BY <2>2
    <2> QED
      BY <2>2, <2>3, <2>4
  <1>4. /\ input' \in [Calls -> Inputs]
        /\ failure' \in [Calls -> {"none"} \cup Failures]
        /\ results' \in [Calls -> Nat]
        /\ upstreamTotal' \in [UpstreamClasses -> Nat]
        /\ infoEnabled' = infoEnabled
    BY DEF ToolCallInv, TypeOK, CountTool, callVars, outcomeVars
  <1>5. id'[c] \in RequestIds /\ source'[c] # ""
    BY <1>1 DEF ToolCallInv, TypeOK, CountTool, callVars
  <1>6. Arrays' /\ IdsUnique'
    BY DEF ToolCallInv, Arrays, IdsUnique, CountTool, callVars
  <1>7. CallInv(c)'
    BY <1>1, <1>2 DEF ToolCallInv, TypeOK, CallInv, CountTool, callVars, outcomeVars, Concluded,
                      Unasked, AskedOnce, UpstreamRequest
  <1>8. \A d \in Calls : d # c => Same(d)
    BY Elsewhere DEF Handle
  <1> QED
    BY <1>1, <1>3, <1>4, <1>5, <1>6, <1>7, <1>8, OneMoves

(* The access log gets its line, if the level lets it through. *)
LEMMA LogInv ==
  ASSUME ToolCallInv, NEW c \in Calls, Log(c)
  PROVE  ToolCallInv'
  <1>1. stage[c] = "log" /\ stage' = [stage EXCEPT ![c] = "done"]
    BY DEF Log, Move
  <1>2. Concluded(c) /\ accessLog[c] = <<>>
    BY <1>1 DEF ToolCallInv, CallInv
  <1>3. accessLog' = IF infoEnabled THEN [accessLog EXCEPT ![c] = <<AccessLine(c)>>]
                                    ELSE accessLog
    BY <1>2, OneElement DEF Log
  <1>4. /\ input' \in [Calls -> Inputs]
        /\ failure' \in [Calls -> {"none"} \cup Failures]
        /\ results' \in [Calls -> Nat]
        /\ upstreamTotal' \in [UpstreamClasses -> Nat]
        /\ toolTotal' \in [Tools -> [ToolClasses -> Nat]]
        /\ infoEnabled' = infoEnabled
    BY DEF ToolCallInv, TypeOK, Log, callVars, outcomeVars, metricVars
  <1>5. id'[c] \in RequestIds /\ source'[c] # ""
    BY <1>1 DEF ToolCallInv, TypeOK, Log, callVars
  <1>6. Arrays' /\ IdsUnique'
    BY <1>3 DEF ToolCallInv, Arrays, IdsUnique, Log, callVars
  <1>7. CallInv(c)'
    <2>1. stage'[c] = "done" /\ Concluded(c)'
      BY <1>1, <1>2 DEF ToolCallInv, TypeOK, Log, callVars, outcomeVars, Concluded, Unasked,
                        AskedOnce, UpstreamRequest
    <2>2. AccessLine(c)' = AccessLine(c)
      BY DEF Log, callVars, outcomeVars, AccessLine
    <2>3. accessLog'[c] = IF infoEnabled' THEN <<AccessLine(c)'>> ELSE <<>>
      BY <1>2, <1>3, <1>4, <2>2 DEF ToolCallInv, Arrays
    <2> QED
      BY <2>1, <2>3 DEF CallInv
  <1>8. \A d \in Calls : d # c => Same(d)
    BY Elsewhere DEF Handle
  <1> QED
    BY <1>1, <1>4, <1>5, <1>6, <1>7, <1>8, OneMoves

(* Every step keeps the invariant. *)
LEMMA ToolCallStep == ToolCallInv /\ [Next]_vars => ToolCallInv'
  <1> SUFFICES ASSUME ToolCallInv, [Next]_vars PROVE ToolCallInv'
    OBVIOUS
  <1>1. ASSUME NEW c \in Calls, Receive(c) \/ Handle(c) \/ Respond(c) \/ Timeout(c)
        PROVE  ToolCallInv'
    BY <1>1, ReceiveInv, RejectInv, SendInv, RespondInv, RecordInv, ConcludeInv, CountToolInv,
       LogInv DEF Handle
  <1>2. CASE UNCHANGED vars
    <2>1. UNCHANGED <<infoEnabled, stage, input, id, source, upstream, response, failure,
                      results, accessLog, upstreamTotal, toolTotal>>
      BY <1>2 DEF vars, callVars, outcomeVars, metricVars
    <2>2. TypeOK' /\ Arrays' /\ IdsUnique'
      BY <2>1 DEF ToolCallInv, TypeOK, Sent, Arrays, IdsUnique
    <2>3. \A c \in Calls : Same(c)
      BY <2>1 DEF Same
    <2> QED
      BY <2>2, <2>3, SameInv DEF ToolCallInv
  <1> QED
    BY <1>1, <1>2 DEF Next, AllDone

(* The invariant holds in every behaviour. *)
LEMMA ToolCallInvariant == Spec => []ToolCallInv
  BY ToolCallInit, ToolCallStep, PTL DEF Spec

-----------------------------------------------------------------------------
(* What happens to a single call *)

(* Ids, sources, answers and log lines always have their type, and an      *)
(* answer is there only for a call that asked.                             *)
THEOREM TypeCorrect == Spec => []TypeOK
  <1>1. ToolCallInv => TypeOK
    BY DEF ToolCallInv
  <1> QED
    BY <1>1, ToolCallInvariant, PTL

(* A call that asked SearXNG asked once, with its own id, its own query    *)
(* and page in the limits, and the scope of its tool (doRequest).          *)
LEMMA SentFacts ==
  ASSUME ToolCallInv, NEW c \in Calls, Sent(c)
  PROVE  AskedOnce(c)
  <1>1. stage[c] \in {"idle", "validate", "wait", "record", "conclude", "count", "log", "done"}
    BY DEF ToolCallInv, TypeOK
  <1> QED
    BY <1>1 DEF ToolCallInv, CallInv, Concluded, Unasked, Sent

(* SearXNG receives only queries and pages within the limits, whatever     *)
(* clients ask (validateQuery, validatePage, searchHelper).                *)
THEOREM RequestsBounded == Spec => []UpstreamRequestBounded
  <1>1. ToolCallInv => UpstreamRequestBounded
    <2> SUFFICES ASSUME ToolCallInv, NEW c \in Calls, NEW k \in DOMAIN upstream[c]
                 PROVE  /\ upstream[c][k].q \in 1..MaxQueryLength
                        /\ upstream[c][k].pageno \in 1..MaxPageNumber
      BY DEF UpstreamRequestBounded
    <2>1. Sent(c)
      BY DEF Sent
    <2>2. upstream[c][k] = UpstreamRequest(c) /\ Validate(input[c]) = "none"
      BY <2>1, SentFacts, OneElement DEF AskedOnce
    <2>3. input[c] \in Inputs
      BY DEF ToolCallInv, TypeOK
    <2>4. input[c].query \in 1..MaxQueryLength /\ input[c].page <= MaxPageNumber
      BY <2>2, <2>3, ValidateFacts
    <2>5. input[c].page \in Int /\ MaxPageNumber \in Nat \ {0}
      BY <2>3, CallAssumption DEF InputType
    <2>6. PageNo(input[c]) \in 1..MaxPageNumber
      BY <2>4, <2>5 DEF PageNo
    <2> QED
      BY <2>2, <2>4, <2>6 DEF UpstreamRequest
  <1> QED
    BY <1>1, ToolCallInvariant, PTL

(* "ok" means a whole 2xx answer, cut only to max_results (doRequest,      *)
(* Search, searchHelper).                                                  *)
THEOREM OkIsWhole == Spec => []OkMeansWholeAnswer
  <1>1. ToolCallInv => OkMeansWholeAnswer
    <2> SUFFICES ASSUME ToolCallInv, NEW c \in Calls, Returned(c), failure[c] = "none"
                 PROVE  LET r == response[c]
                        IN /\ Sent(c)
                           /\ ~r.error /\ r.readable /\ r.status \in 200..299
                           /\ r.json /\ r.text <= MaxResponseBodySize
                           /\ \/ results[c] = r.results
                              \/ results[c] < r.results /\ results[c] \in input[c].maxResults
      BY DEF OkMeansWholeAnswer
    <2>1. /\ AskedOnce(c) /\ response[c] \in Answers
          /\ SearchError(response[c]) = "none"
          /\ results[c] = Truncated(input[c], response[c].results)
      BY DEF ToolCallInv, CallInv, Concluded, Returned
    <2>2. Sent(c)
      BY <2>1, OneElement DEF AskedOnce, Sent
    <2>3. response[c] \in ResponseType /\ response[c].results \in Nat
      BY <2>1, AnswerType DEF ResponseType
    <2>4. input[c] \in Inputs
      BY DEF ToolCallInv, TypeOK
    <2> QED
      BY <2>1, <2>2, <2>3, <2>4, SearchErrorFacts, TruncatedFacts
  <1> QED
    BY <1>1, ToolCallInvariant, PTL

(* A client learns that the search failed, and no more, of exactly the     *)
(* calls that asked SearXNG and failed (the sentinel errors of tools.go).  *)
THEOREM ErrorsHidden == Spec => []UpstreamErrorsHidden
  <1>1. ToolCallInv => UpstreamErrorsHidden
    <2> SUFFICES ASSUME ToolCallInv, NEW c \in Calls, Returned(c), failure[c] # "none"
                 PROVE  IF Sent(c) THEN failure[c] = "search failed"
                                   ELSE failure[c] \in Failures \ {"search failed"}
      BY DEF UpstreamErrorsHidden
    <2>1. Concluded(c)
      BY DEF ToolCallInv, CallInv, Returned
    <2>2. CASE AskedOnce(c)
      <3>1. Sent(c)
        BY <2>2, OneElement DEF AskedOnce, Sent
      <3> QED
        BY <2>1, <2>2, <3>1 DEF Concluded, AskedOnce
    <2>3. CASE Unasked(c) /\ failure[c] = Validate(input[c])
      <3>1. input[c] \in Inputs
        BY DEF ToolCallInv, TypeOK
      <3> QED
        BY <2>3, <3>1, ValidateFacts DEF Unasked, Sent, Failures
    <2> QED
      BY <2>1, <2>2, <2>3 DEF Concluded
  <1> QED
    BY <1>1, ToolCallInvariant, PTL

(* The id SearXNG received leads to the line of that call and no other, and*)
(* the line's tool is the one whose preset SearXNG saw (WrapAccessLog,     *)
(* requestid).                                                             *)
THEOREM IdsLead == Spec => []LogsCorrelate
  <1>1. ToolCallInv => LogsCorrelate
    <2> SUFFICES ASSUME ToolCallInv, NEW c \in Calls, NEW d \in Calls,
                        Sent(c), accessLog[d] # <<>>,
                        accessLog[d][1].id = upstream[c][1].id
                 PROVE  /\ c = d
                        /\ accessLog[d][1].tool # "search" =>
                             upstream[c][1].scope = Preset(accessLog[d][1].tool)
      BY DEF LogsCorrelate
    <2>1. upstream[c][1] = UpstreamRequest(c)
      BY SentFacts, OneElement DEF AskedOnce
    <2>2. accessLog[d][1] = AccessLine(d) /\ stage[d] = "done"
      BY OneElement DEF ToolCallInv, CallInv
    <2>3. id[d] = id[c]
      BY <2>1, <2>2 DEF UpstreamRequest, AccessLine
    <2>4. id[d] # "none"
      BY <2>2, CallAssumption DEF ToolCallInv, TypeOK
    <2>5. c = d
      BY <2>3, <2>4 DEF ToolCallInv, IdsUnique
    <2> QED
      BY <2>1, <2>2, <2>5 DEF UpstreamRequest, AccessLine, Scope
  <1> QED
    BY <1>1, ToolCallInvariant, PTL

-----------------------------------------------------------------------------
(* The counters *)

(* One call more or less in a set of calls. *)
LEMMA OneCall ==
  ASSUME NEW S \in SUBSET Calls, NEW c \in Calls
  PROVE  /\ Cardinality(S) \in Nat
         /\ c \notin S => Cardinality(S \cup {c}) = Cardinality(S) + 1
         /\ c \in S => Cardinality(S \ {c}) = Cardinality(S) - 1
  <1>1. IsFiniteSet(S)
    BY FS_Subset, CallAssumption
  <1> QED
    BY <1>1, FS_CardinalityType, FS_AddElement, FS_RemoveElement

(* The calls the upstream counter should show under the class s. *)
Recorded(s) ==
  {c \in Calls : /\ Sent(c) /\ stage[c] \notin {"wait", "record"}
                 /\ UpstreamClass(response[c]) = s}

(* Only UpstreamMetrics.record makes a call one of those.                  *)
LEMMA RecordedStep ==
  ASSUME ToolCallInv, NEW c \in Calls, NEW s \in UpstreamClasses,
         Receive(c) \/ Handle(c) \/ Respond(c) \/ Timeout(c)
  PROVE  Recorded(s)' = IF Record(c) /\ UpstreamClass(response[c]) = s
                        THEN Recorded(s) \cup {c} ELSE Recorded(s)
  <1> DEFINE In(d) == /\ Sent(d) /\ stage[d] \notin {"wait", "record"}
                      /\ UpstreamClass(response[d]) = s
  <1>1. ASSUME NEW d \in Calls, d # c
        PROVE  In(d)' <=> In(d)
    <2>1. Same(d)
      BY <1>1, Elsewhere
    <2> QED
      BY <2>1 DEF Same, Sent
  <1>2. CASE Record(c)
    <2>1. stage[c] = "record" /\ stage'[c] = "conclude" /\ Sent(c)
      BY <1>2, OneElement DEF ToolCallInv, TypeOK, CallInv, AskedOnce, Sent, Record, Move
    <2>2. upstream'[c] = upstream[c] /\ response'[c] = response[c]
      BY <1>2 DEF Record
    <2>3. ~In(c) /\ (In(c)' <=> UpstreamClass(response[c]) = s)
      BY <2>1, <2>2 DEF Sent
    <2> QED
      BY <1>1, <1>2, <2>3 DEF Recorded
  <1>3. CASE ~Record(c)
    <2>1. In(c)' <=> In(c)
      <3>1. CASE Receive(c) \/ Reject(c)
        <4>1. ~Sent(c)
          BY <3>1 DEF ToolCallInv, CallInv, Unasked, Sent, Receive, Reject, Move
        <4>2. upstream' = upstream
          BY <3>1 DEF Receive, Reject
        <4> QED
          BY <4>1, <4>2 DEF Sent
      <3>2. CASE Send(c)
        <4>1. ~Sent(c) /\ stage'[c] = "wait"
          BY <3>2 DEF ToolCallInv, TypeOK, CallInv, Unasked, Sent, Send, Move
        <4> QED
          BY <4>1
      <3>3. CASE Respond(c) \/ Timeout(c)
        <4>1. stage[c] = "wait" /\ stage'[c] = "record"
          BY <3>3 DEF ToolCallInv, TypeOK, Respond, Timeout, Move
        <4> QED
          BY <4>1
      <3>4. CASE Conclude(c) \/ CountTool(c) \/ Log(c)
        <4>1. stage[c] \notin {"wait", "record"} /\ stage'[c] \notin {"wait", "record"}
          BY <3>4 DEF ToolCallInv, TypeOK, Conclude, CountTool, Log, Move
        <4>2. upstream' = upstream /\ response' = response
          BY <3>4 DEF Conclude, CountTool, Log
        <4> QED
          BY <4>1, <4>2 DEF Sent
      <3> QED
        BY <1>3, <3>1, <3>2, <3>3, <3>4 DEF Handle
    <2> QED
      BY <1>1, <1>3, <2>1 DEF Recorded
  <1> QED
    BY <1>2, <1>3

(* Every request sent is counted once, errors included, under its class,   *)
(* and before anybody looks at the answer (UpstreamMetrics.record).        *)
THEOREM UpstreamCounterRight == Spec => []UpstreamCounted
  <1>1. Init => UpstreamCounted
    <2> SUFFICES ASSUME Init, NEW s \in UpstreamClasses
                 PROVE  upstreamTotal[s] = Cardinality(Recorded(s))
      BY DEF UpstreamCounted, Recorded
    <2>1. Recorded(s) = {}
      BY DEF Init, Recorded, Sent
    <2> QED
      BY <2>1, FS_EmptySet DEF Init
  <1>2. ToolCallInv /\ UpstreamCounted /\ [Next]_vars => UpstreamCounted'
    <2> SUFFICES ASSUME ToolCallInv, UpstreamCounted, [Next]_vars,
                        NEW s \in UpstreamClasses
                 PROVE  upstreamTotal'[s] = Cardinality(Recorded(s)')
      BY DEF UpstreamCounted, Recorded
    <2>1. upstreamTotal[s] = Cardinality(Recorded(s))
      BY DEF UpstreamCounted, Recorded
    <2>2. ASSUME NEW c \in Calls, Receive(c) \/ Handle(c) \/ Respond(c) \/ Timeout(c)
          PROVE  upstreamTotal'[s] = Cardinality(Recorded(s)')
      <3>1. CASE Record(c)
        <4>1. c \notin Recorded(s)
          BY <3>1 DEF Recorded, Record, Move
        <4>2. upstreamTotal'[s] = IF UpstreamClass(response[c]) = s THEN upstreamTotal[s] + 1
                                                                 ELSE upstreamTotal[s]
          BY <3>1 DEF ToolCallInv, TypeOK, Record
        <4>3. Recorded(s) \in SUBSET Calls
          BY DEF Recorded
        <4> QED
          BY <2>1, <2>2, <3>1, <4>1, <4>2, <4>3, RecordedStep, OneCall
      <3>2. CASE ~Record(c)
        <4>1. upstreamTotal' = upstreamTotal
          BY <2>2, <3>2 DEF Handle, Receive, Reject, Send, Respond, Timeout, Conclude,
                            CountTool, Log, metricVars
        <4> QED
          BY <2>1, <2>2, <3>2, <4>1, RecordedStep
      <3> QED
        BY <3>1, <3>2
    <2>3. CASE UNCHANGED vars
      <3>1. Recorded(s)' = Recorded(s) /\ upstreamTotal' = upstreamTotal
        BY <2>3 DEF Recorded, Sent, vars, metricVars
      <3> QED
        BY <2>1, <3>1
    <2> QED
      BY <2>2, <2>3 DEF Next, AllDone
  <1> QED
    BY <1>1, <1>2, ToolCallInvariant, PTL DEF Spec

(* The calls the access log shows under the tool t and the class s, and    *)
(* those counted that are about to be logged.                              *)
Logged(t, s) ==
  {c \in Calls : /\ accessLog[c] # <<>>
                 /\ accessLog[c][1].tool = t
                 /\ accessLog[c][1].outcome = IF s = "2xx" THEN "ok" ELSE "error"}
Between(t, s) ==
  {c \in Calls : /\ stage[c] = "log" /\ input[c].tool = t
                 /\ (failure[c] = "none") = (s = "2xx")}

(* The calls the counter of the tool t and the class s counts.             *)
Counts(c, t, s) == input[c].tool = t /\ ((failure[c] = "none") <=> (s = "2xx"))

(* Where a call is logged: from its end on, under its tool and its outcome.*)
LEMMA LoggedIs ==
  ASSUME ToolCallInv, infoEnabled, NEW t \in Tools, NEW s \in ToolClasses
  PROVE  /\ Logged(t, s) = {c \in Calls : stage[c] = "done" /\ Counts(c, t, s)}
         /\ Between(t, s) = {c \in Calls : stage[c] = "log" /\ Counts(c, t, s)}
  <1>1. ASSUME NEW c \in Calls
        PROVE  /\ accessLog[c] # <<>>
               /\ accessLog[c][1].tool = t
               /\ accessLog[c][1].outcome = IF s = "2xx" THEN "ok" ELSE "error"
               <=> stage[c] = "done" /\ Counts(c, t, s)
    <2>1. CASE stage[c] = "done"
      <3>1. accessLog[c] # <<>> /\ accessLog[c][1] = AccessLine(c)
        BY <2>1, OneElement DEF ToolCallInv, CallInv
      <3>2. AccessLine(c).tool = input[c].tool
            /\ AccessLine(c).outcome = IF failure[c] = "none" THEN "ok" ELSE "error"
        BY DEF AccessLine
      <3> QED
        BY <2>1, <3>1, <3>2 DEF Counts
    <2>2. CASE stage[c] # "done"
      BY <2>2 DEF ToolCallInv, CallInv
    <2> QED
      BY <2>1, <2>2
  <1> QED
    BY <1>1 DEF Logged, Between, Counts

(* The calls that WrapToolHandler has counted under the tool t and the class s *)
Counted(t, s) == {c \in Calls : stage[c] \in {"log", "done"} /\ Counts(c, t, s)}

ToolCounted == \A t \in Tools, s \in ToolClasses : toolTotal[t][s] = Cardinality(Counted(t, s))

(* Only WrapToolHandler makes a call one of those. *)
LEMMA CountedStep ==
  ASSUME ToolCallInv, NEW c \in Calls, NEW t \in Tools, NEW s \in ToolClasses,
         Receive(c) \/ Handle(c) \/ Respond(c) \/ Timeout(c)
  PROVE  Counted(t, s)' = IF CountTool(c) /\ Counts(c, t, s)
                          THEN Counted(t, s) \cup {c} ELSE Counted(t, s)
  <1> DEFINE In(d) == stage[d] \in {"log", "done"} /\ Counts(d, t, s)
  <1>1. ASSUME NEW d \in Calls, d # c
        PROVE  In(d)' <=> In(d)
    <2>1. Same(d)
      BY <1>1, Elsewhere
    <2> QED
      BY <2>1 DEF Same, Counts
  <1>2. CASE CountTool(c)
    <2>1. stage[c] = "count" /\ stage'[c] = "log"
      BY <1>2 DEF ToolCallInv, TypeOK, CountTool, Move
    <2>2. Counts(c, t, s)' <=> Counts(c, t, s)
      BY <1>2 DEF CountTool, callVars, outcomeVars, Counts
    <2>3. ~In(c) /\ (In(c)' <=> Counts(c, t, s))
      BY <2>1, <2>2
    <2> QED
      BY <1>1, <1>2, <2>3 DEF Counted
  <1>3. CASE ~CountTool(c)
    <2>1. In(c)' <=> In(c)
      <3>1. CASE Log(c)
        <4>1. stage[c] = "log" /\ stage'[c] = "done"
          BY <3>1 DEF ToolCallInv, TypeOK, Log, Move
        <4>2. Counts(c, t, s)' <=> Counts(c, t, s)
          BY <3>1 DEF Log, callVars, outcomeVars, Counts
        <4> QED
          BY <4>1, <4>2
      <3>2. CASE ~Log(c)
        <4>1. stage[c] \notin {"log", "done"} /\ stage'[c] \notin {"log", "done"}
          BY <1>3, <3>2 DEF ToolCallInv, TypeOK, Handle, Receive, Reject, Send, Respond, Timeout,
                            Record, Conclude, Move
        <4> QED
          BY <4>1
      <3> QED
        BY <3>1, <3>2
    <2> QED
      BY <1>1, <1>3, <2>1 DEF Counted
  <1> QED
    BY <1>2, <1>3

(* mcp_tool_requests_total counts every call once, whether it is logged or *)
(* not.                                                                    *)
LEMMA ToolCountedAlways == Spec => []ToolCounted
  <1>1. Init => ToolCounted
    <2> SUFFICES ASSUME Init, NEW t \in Tools, NEW s \in ToolClasses
                 PROVE  toolTotal[t][s] = Cardinality(Counted(t, s))
      BY DEF ToolCounted
    <2>1. Counted(t, s) = {}
      BY DEF Init, Counted
    <2> QED
      BY <2>1, FS_EmptySet DEF Init
  <1>2. ToolCallInv /\ ToolCounted /\ [Next]_vars => ToolCounted'
    <2> SUFFICES ASSUME ToolCallInv, ToolCounted, [Next]_vars,
                        NEW t \in Tools, NEW s \in ToolClasses
                 PROVE  toolTotal'[t][s] = Cardinality(Counted(t, s)')
      BY DEF ToolCounted
    <2>1. toolTotal[t][s] = Cardinality(Counted(t, s))
      BY DEF ToolCounted
    <2>2. ASSUME NEW c \in Calls, Receive(c) \/ Handle(c) \/ Respond(c) \/ Timeout(c)
          PROVE  toolTotal'[t][s] = Cardinality(Counted(t, s)')
      <3>1. CASE CountTool(c)
        <4>1. c \notin Counted(t, s) /\ Counted(t, s) \in SUBSET Calls
          BY <3>1 DEF Counted, CountTool, Move
        <4>2. toolTotal'[t][s] = IF Counts(c, t, s) THEN toolTotal[t][s] + 1 ELSE toolTotal[t][s]
          BY <3>1 DEF ToolCallInv, TypeOK, CountTool, Counts, ToolClasses
        <4> QED
          BY <2>1, <2>2, <3>1, <4>1, <4>2, CountedStep, OneCall
      <3>2. CASE ~CountTool(c)
        <4>1. toolTotal' = toolTotal
          BY <2>2, <3>2 DEF Handle, Receive, Reject, Send, Respond, Timeout, Record, Conclude,
                            Log, metricVars
        <4> QED
          BY <2>1, <2>2, <3>2, <4>1, CountedStep
      <3> QED
        BY <3>1, <3>2
    <2>3. CASE UNCHANGED vars
      <3>1. Counted(t, s)' = Counted(t, s) /\ toolTotal' = toolTotal
        BY <2>3 DEF Counted, Counts, vars, callVars, outcomeVars, metricVars
      <3> QED
        BY <2>1, <3>1
    <2> QED
      BY <2>2, <2>3 DEF Next, AllDone
  <1> QED
    BY <1>1, <1>2, ToolCallInvariant, PTL DEF Spec

(* The counter is the log and what is about to be logged (WrapAccessLog    *)
(* around WrapToolHandler).                                                *)
THEOREM ToolCounterRight == Spec => []CounterMatchesLog
  <1>1. ToolCallInv /\ ToolCounted => CounterMatchesLog
    <2> SUFFICES ASSUME ToolCallInv, ToolCounted, infoEnabled,
                        NEW t \in Tools, NEW s \in ToolClasses
                 PROVE  toolTotal[t][s] = Cardinality(Logged(t, s)) + Cardinality(Between(t, s))
      BY DEF CounterMatchesLog, Logged, Between
    <2>1. Counted(t, s) = Logged(t, s) \cup Between(t, s)
          /\ Logged(t, s) \cap Between(t, s) = {}
      BY LoggedIs DEF Counted
    <2>2. IsFiniteSet(Logged(t, s)) /\ IsFiniteSet(Between(t, s))
      BY FS_Subset, CallAssumption DEF Logged, Between
    <2>3. Cardinality(Logged(t, s)) \in Nat /\ Cardinality(Between(t, s)) \in Nat
      BY <2>2, FS_CardinalityType
    <2>4. Cardinality(Counted(t, s)) = Cardinality(Logged(t, s)) + Cardinality(Between(t, s))
                                         - Cardinality(Logged(t, s) \cap Between(t, s))
      BY <2>1, <2>2, FS_Union, Zenon
    <2>5. Cardinality(Logged(t, s) \cap Between(t, s)) = 0
      BY <2>1, FS_EmptySet
    <2> QED
      BY <2>3, <2>4, <2>5 DEF ToolCounted
  <1> QED
    BY <1>1, ToolCallInvariant, ToolCountedAlways, PTL

-----------------------------------------------------------------------------
(* The refinement of SearchPromise *)

(* What the promise sees of the calls that do not move stays the same. *)
LEMMA OthersSeenSame ==
  ASSUME ToolCallInv, NEW c \in Calls,
         Receive(c) \/ Handle(c) \/ Respond(c) \/ Timeout(c)
  PROVE  \A d \in Calls : d # c => PhaseOf(d)' = PhaseOf(d) /\ upstream'[d] = upstream[d]
  BY Elsewhere DEF Same, PhaseOf

(* A call that comes is opened. *)
LEMMA ReceiveOpens ==
  ASSUME ToolCallInv, NEW c \in Calls, Receive(c)
  PROVE  Promise!Open({c})
  <1>1. PhaseOf(c) = "new" /\ PhaseOf(c)' = "open" /\ upstream' = upstream
    BY DEF ToolCallInv, TypeOK, Receive, Move, PhaseOf
  <1>2. \A d \in Calls : d # c => PhaseOf(d)' = PhaseOf(d)
    BY OthersSeenSame
  <1> QED
    BY <1>1, <1>2 DEF Promise!Open

(* Sending the request is the one time SearXNG is asked. *)
LEMMA SendAsks ==
  ASSUME ToolCallInv, NEW c \in Calls, Send(c)
  PROVE  Promise!Ask(c)
  <1>1. PhaseOf(c) = "open" /\ PhaseOf(c)' = "open"
    BY DEF ToolCallInv, TypeOK, Send, Move, PhaseOf
  <1>2. upstream[c] = <<>> /\ upstream'[c] = <<UpstreamRequest(c)>>
    BY OneElement DEF ToolCallInv, Arrays, CallInv, Unasked, Send, Move
  <1>3. Len(upstream[c]) = 0 /\ Len(upstream'[c]) = 1
    BY <1>2, OneElement, Zenon
  <1>4. \A d \in Calls : d # c => PhaseOf(d)' = PhaseOf(d) /\ upstream'[d] = upstream[d]
    BY OthersSeenSame DEF Handle
  <1> QED
    BY <1>1, <1>3, <1>4 DEF Promise!Ask

(* Writing the log line answers the call, with success only if SearXNG was *)
(* asked.                                                                  *)
LEMMA LogAnswers ==
  ASSUME ToolCallInv, NEW c \in Calls, Log(c)
  PROVE  Promise!Succeed(c) \/ Promise!Fail(c)
  <1>1. PhaseOf(c) = "open" /\ PhaseOf(c)' = IF failure[c] = "none" THEN "ok" ELSE "failed"
    BY DEF ToolCallInv, TypeOK, Log, Move, outcomeVars, PhaseOf
  <1>2. upstream' = upstream
    BY DEF Log
  <1>3. \A d \in Calls : d # c => PhaseOf(d)' = PhaseOf(d)
    BY OthersSeenSame DEF Handle
  <1>4. CASE failure[c] = "none"
    <2>1. AskedOnce(c)
      BY <1>4 DEF ToolCallInv, CallInv, Concluded, Log, Move
    <2>2. Len(upstream[c]) = 1
      BY <2>1, OneElement, Zenon DEF AskedOnce
    <2> QED
      BY <1>1, <1>2, <1>3, <1>4, <2>2 DEF Promise!Succeed, Promise!Become
  <1>5. CASE failure[c] # "none"
    BY <1>1, <1>2, <1>3, <1>5 DEF Promise!Fail, Promise!Become
  <1> QED
    BY <1>4, <1>5

(* Everything between is invisible: waiting, counting, deciding. *)
LEMMA OthersStutter ==
  ASSUME ToolCallInv, NEW c \in Calls,
         Reject(c) \/ Respond(c) \/ Timeout(c) \/ Record(c) \/ Conclude(c) \/ CountTool(c)
  PROVE  UNCHANGED Promise!vars
  <1>1. PhaseOf(c)' = PhaseOf(c)
    BY DEF ToolCallInv, TypeOK, Reject, Respond, Timeout, Record, Conclude, CountTool, Move, PhaseOf
  <1>2. upstream' = upstream
    BY DEF Reject, Respond, Timeout, Record, Conclude, CountTool
  <1>3. \A d \in Calls : d # c => PhaseOf(d)' = PhaseOf(d)
    BY OthersSeenSame DEF Handle
  <1> QED
    BY <1>1, <1>2, <1>3 DEF Promise!vars

(* Every call keeps the promise: one answer, at most one request to        *)
(* SearXNG ("rather than silently retried", main.go:157), success only     *)
(* after one.                                                              *)
THEOREM CallsKeepPromise == Spec => ImplementsPromise
  <1>1. Init => Promise!Init
    BY OneElement DEF Init, PhaseOf, Promise!Init
  <1>2. ToolCallInv /\ [Next]_vars => [Promise!Next]_(Promise!vars)
    <2> SUFFICES ASSUME ToolCallInv, [Next]_vars
                 PROVE  [Promise!Next]_(Promise!vars)
      OBVIOUS
    <2>1. ASSUME NEW c \in Calls, Receive(c)
          PROVE  Promise!Next
      BY <2>1, ReceiveOpens DEF Promise!Next
    <2>2. ASSUME NEW c \in Calls, Send(c)
          PROVE  Promise!Next
      BY <2>2, SendAsks DEF Promise!Next
    <2>3. ASSUME NEW c \in Calls, Log(c)
          PROVE  Promise!Next
      BY <2>3, LogAnswers DEF Promise!Next
    <2>4. ASSUME NEW c \in Calls,
                 Reject(c) \/ Respond(c) \/ Timeout(c) \/ Record(c) \/ Conclude(c) \/ CountTool(c)
          PROVE  UNCHANGED Promise!vars
      BY <2>4, OthersStutter
    <2>5. CASE UNCHANGED vars
      BY <2>5 DEF vars, callVars, outcomeVars, PhaseOf, Promise!vars
    <2> QED
      BY <2>1, <2>2, <2>3, <2>4, <2>5 DEF Next, Handle, AllDone
  <1> QED
    BY <1>1, <1>2, ToolCallInvariant, PTL DEF Spec, ImplementsPromise, Promise!Spec
=============================================================================
