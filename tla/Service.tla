------------------------------ MODULE Service ------------------------------
(***************************************************************************)
(* The http mode end to end on one clock: an HTTP request is charged to a  *)
(* bucket of the rate limiter, its body is read, its batch of tool calls   *)
(* asks SearXNG, the answers go back.  Composes RateLimitPolicy, which     *)
(* RateLimiter implements, with SearchPromise, which ToolCall implements;  *)
(* what happens inside the layers is in HttpPipeline and ToolCall.         *)
(*                                                                         *)
(* Time advances by ticks and only when nothing is due: a goroutine that   *)
(* can run does, and a timeout fires no later than its time.  Clients may  *)
(* send slowly or go away, which cancels the calls and makes them fail at  *)
(* any time; SearXNG may answer late or never.                             *)
(***************************************************************************)
EXTENDS Integers, FiniteSets

CONSTANTS
  NumRequests,    \* bound of the model
  Headers,        \* what a request says of its origin, see HeaderType
  MaxBatchSize,
  ReadTimeout,    \* mainReadTimeout, in ticks
  OutboundTimeout,  \* restyTimeout
  WriteTimeouts,  \* the configured WRITE_TIMEOUT is one of these, 0 is none
  GlobalRate, GlobalCap, ClientRate, ClientCap, Cost,  \* of RateLimitPolicy
  MaxTime         \* bound of the model: no request arrives from here on

Hosts == {"a", "b"}
Address == [host : Hosts, port : Nat]
NoAddress == [host |-> "", port |-> 0]

(* The gateway's headers; of X-Forwarded-For the leftmost entry. *)
HeaderType ==
  [xClientIP : Address \cup {NoAddress}, xForwardedFor : Address \cup {NoAddress},
   xRealIP : Address \cup {NoAddress}, remoteAddr : Address]

(* Requests are numbered in the order they arrive in, the calls of a batch *)
(* in the order their handlers ask or give up in.                          *)
Requests == 1..NumRequests
Calls == Requests \X (1..MaxBatchSize)
CallsOf(r) == {r} \X (1..MaxBatchSize)

(* A batch may be of any size, a timeout or a rate of nothing; a request   *)
(* costs something.                                                        *)
ASSUME ServiceAssumption ==
  /\ NumRequests \in Nat /\ MaxBatchSize \in Nat /\ MaxTime \in Nat
  /\ Headers \subseteq HeaderType /\ Headers # {}
  /\ ReadTimeout \in Nat /\ OutboundTimeout \in Nat /\ WriteTimeouts \subseteq Nat
  /\ GlobalRate \in Nat /\ GlobalCap \in Nat /\ ClientRate \in Nat /\ ClientCap \in Nat
  /\ Cost \in Nat \ {0}

VARIABLES
  globalCredit, clientCredit, verdict,  \* of RateLimitPolicy
  phase, asked,  \* of SearchPromise
  now,
  writeTimeout,  \* the configured WRITE_TIMEOUT
  http,      \* where each request is
  header,    \* its headers
  start,     \* when its header was read
  askedAt,   \* when SearXNG was asked for each call, -1 before
  received   \* the answer of the call was written before the write deadline

policyVars == <<globalCredit, clientCredit, verdict>>
promiseVars == <<phase, asked>>
requestVars == <<http, header, start>>
vars == <<policyVars, promiseVars, now, writeTimeout, requestVars, askedAt, received>>

Limiter == INSTANCE RateLimitPolicy WITH Clients <- Hosts
Promise == INSTANCE SearchPromise

IsNext(r) == \A q \in 1..(r - 1) : http[q] # "idle"
Move(r, from, to) == http[r] = from /\ http' = [http EXCEPT ![r] = to]
Answered(c) == phase[c] \in {"ok", "failed"}
HandlersTurn(c) == \A i \in 1..(c[2] - 1) : asked[<<c[1], i>>] = 1 \/ Answered(<<c[1], i>>)
Batch(r) == {c \in CallsOf(r) : phase[c] # "new"}

-----------------------------------------------------------------------------
KeyOfConnection(h) == h.remoteAddr.host

(* The rate limiter's key: extractClientIP, which strips the port. *)
Key(h) ==
  IF h.xClientIP # NoAddress THEN h.xClientIP.host
  ELSE IF h.xForwardedFor # NoAddress THEN h.xForwardedFor.host
  ELSE h.remoteAddr.host

(* The access log's source: proxyClientIP, which keeps it; NoAddress is    *)
(* logged as the transport's label.                                        *)
Source(h) == IF h.xRealIP # NoAddress THEN h.xRealIP ELSE h.xForwardedFor

ZeroExpires(t) == t < writeTimeout

(* The write deadline counts from the header; a WRITE_TIMEOUT of 0 sets    *)
(* none.                                                                   *)
InWriteTimeout(t) == writeTimeout = 0 \/ t < writeTimeout

-----------------------------------------------------------------------------
ArriveUncharged(r) ==
  /\ now < MaxTime /\ IsNext(r)
  /\ Move(r, "idle", "reading")
  /\ \E h \in Headers : header' = [header EXCEPT ![r] = h]
  /\ start' = [start EXCEPT ![r] = now]
  /\ UNCHANGED <<policyVars, promiseVars, now, writeTimeout, askedAt, received>>

(* The header is read: one token pays for the whole request, before its    *)
(* body is read (RateLimitMiddleware is outside BodyLimitMiddleware).      *)
Arrive(r) ==
  /\ now < MaxTime /\ IsNext(r)
  /\ \E h \in Headers :
       /\ header' = [header EXCEPT ![r] = h]
       /\ \/ Limiter!Serve(Key(h)) /\ Move(r, "idle", "reading")
          \/ /\ Limiter!RefuseForAll(Key(h)) \/ Limiter!RefuseClient(Key(h))
             /\ Move(r, "idle", "ended")
  /\ start' = [start EXCEPT ![r] = now]
  /\ UNCHANGED <<promiseVars, now, writeTimeout, askedAt, received>>

(* The body is there: the SDK starts the calls of the batch, which run     *)
(* concurrently.                                                           *)
ReadBody(r) ==
  /\ Move(r, "reading", "running")
  /\ \E n \in 1..MaxBatchSize : Promise!Open({r} \X (1..n))
  /\ UNCHANGED <<policyVars, now, writeTimeout, header, start, askedAt, received>>

(* The body is too long, is no batch that is served, or does not come      *)
(* before the read deadline: the request is answered without a call.       *)
RefuseBody(r) ==
  /\ Move(r, "reading", "ended")
  /\ UNCHANGED <<policyVars, promiseVars, now, writeTimeout, header, start, askedAt,
                 received>>

AskUnwatched(c) ==
  /\ Promise!Ask(c)
  /\ UNCHANGED <<policyVars, now, writeTimeout, requestVars, askedAt, received>>

(* The request goes to SearXNG, watched by resty's timeout. *)
Ask(c) ==
  /\ HandlersTurn(c) /\ Promise!Ask(c)
  /\ askedAt' = [askedAt EXCEPT ![c] = now]
  /\ UNCHANGED <<policyVars, now, writeTimeout, requestVars, received>>

(* The call is answered, by SearXNG or by a timeout, and the SDK writes    *)
(* the answer at once.                                                     *)
Answer(c) ==
  /\ HandlersTurn(c)
  /\ Promise!Succeed(c) \/ Promise!Fail(c)
  /\ received' = [received EXCEPT ![c] = InWriteTimeout(now - start[c[1]])]
  /\ UNCHANGED <<policyVars, now, writeTimeout, requestVars, askedAt>>

(* The handler returns when every call of the batch is answered. *)
End(r) ==
  /\ Move(r, "running", "ended")
  /\ \A c \in Batch(r) : Answered(c)
  /\ UNCHANGED <<policyVars, promiseVars, now, writeTimeout, header, start, askedAt,
                 received>>

(* Time goes on unless a call is about to ask or a request to end, or a    *)
(* timeout is due.                                                         *)
NothingDue ==
  \A r \in Requests :
    /\ http[r] = "reading" => now < start[r] + ReadTimeout
    /\ http[r] = "running" => \E c \in Batch(r) : ~Answered(c)
    /\ \A c \in Batch(r) :
         ~Answered(c) => asked[c] = 1 /\ now < askedAt[c] + OutboundTimeout

Tick ==
  /\ now < MaxTime \/ \E r \in Requests : http[r] \in {"reading", "running"}
  /\ NothingDue
  /\ now' = now + 1
  /\ Limiter!Refill
  /\ UNCHANGED <<promiseVars, writeTimeout, requestVars, askedAt, received>>

-----------------------------------------------------------------------------
Init ==
  /\ Limiter!Init
  /\ Promise!Init
  /\ now = 0
  /\ writeTimeout \in WriteTimeouts
  /\ http = [r \in Requests |-> "idle"]
  /\ header = [r \in Requests |-> CHOOSE h \in Headers : TRUE]
  /\ start = [r \in Requests |-> 0]
  /\ askedAt = [c \in Calls |-> -1]
  /\ received = [c \in Calls |-> FALSE]

Serve(r) ==
  \/ ReadBody(r) \/ RefuseBody(r) \/ End(r)
  \/ \E c \in CallsOf(r) : Ask(c) \/ Answer(c)

Next ==
  \/ \E r \in Requests : Arrive(r) \/ Serve(r)
  \/ Tick

(* The requests have ended and time has run out. *)
AllDone ==
  /\ now >= MaxTime
  /\ \A r \in Requests : http[r] \in {"idle", "ended"}
  /\ UNCHANGED vars

Spec == Init /\ [][Next \/ AllDone]_vars

-----------------------------------------------------------------------------
(* The types; a call begins only in its request's batch and is watched     *)
(* from the moment it asks, and no request or answer outlasts its timeout  *)
(* (newMainServer, restyTimeout).                                          *)
TypeOK ==
  /\ globalCredit \in 0..GlobalCap /\ clientCredit \in [Hosts -> 0..ClientCap]
  /\ phase \in [Calls -> {"new", "open", "ok", "failed"}] /\ asked \in [Calls -> 0..1]
  /\ now \in Nat
  /\ writeTimeout \in WriteTimeouts
  /\ http \in [Requests -> {"idle", "reading", "running", "ended"}]
  /\ header \in [Requests -> Headers] /\ start \in [Requests -> 0..now]
  /\ askedAt \in [Calls -> -1..now] /\ received \in [Calls -> BOOLEAN]
  /\ \A r \in Requests :
       /\ http[r] = "reading" => now - start[r] \in 0..ReadTimeout
       /\ http[r] = "running" => now - start[r] \in 0..(ReadTimeout + OutboundTimeout)
       /\ http[r] \in {"idle", "reading"} => Batch(r) = {}
  /\ \A c \in Calls : askedAt[c] = -1 <=> asked[c] = 0

AskedIn(calls, from, to) == Cardinality({c \in calls : askedAt[c] \in from..to})

(* "MaxBatchSize ... prevent amplification attacks where a single HTTP     *)
(* request triggers many upstream API calls" (middleware.go:41): in any    *)
(* window SearXNG is asked at most a full batch for every token the global *)
(* limiter could give out from one read timeout before the window, for a   *)
(* token is taken before the body is read.                                 *)
AmplificationBound ==
  \A from \in 0..now : \A to \in from..now :
    AskedIn(Calls, from, to) <=
      MaxBatchSize * ((GlobalCap + GlobalRate * (to - from + ReadTimeout)) \div Cost)

(* The gateway names the client and its headers do not contradict another. *)
Named(h) ==
  /\ h.xForwardedFor # NoAddress
  /\ \A a \in {h.xClientIP, h.xRealIP} \ {NoAddress} : a.host = h.xForwardedFor.host

(* Where a gateway names the client and its headers do not contradict each *)
(* other, the access log's source is the host the limiter charged, so the  *)
(* log of one host shows no more calls in any window than its own bucket   *)
(* paid for, whatever connections and ports it came from (extractClientIP, *)
(* proxyClientIP).                                                         *)
LoggedHostBound ==
  \A host \in Hosts :
    LET logged == UNION {Batch(r) : r \in {q \in Requests :
                           Named(header[q]) /\ Source(header[q]).host = host}}
    IN \A from \in 0..now : \A to \in from..now :
         AskedIn(logged, from, to) <=
           MaxBatchSize * ((ClientCap + ClientRate * (to - from + ReadTimeout)) \div Cost)

(* A client receives every answer its call was logged with, if             *)
(* WRITE_TIMEOUT is none or longer than a slow body and a slow SearXNG     *)
(* together (newMainServer, restyTimeout).  The default of 60 s is not.    *)
AnswersReceived ==
  writeTimeout = 0 \/ writeTimeout > ReadTimeout + OutboundTimeout =>
    \A c \in Calls : Answered(c) => received[c]
=============================================================================
