# mcp-searxng: a verification development

TLA+ models of mcp-searxng, a read-only proxy that offers SearXNG searches as
MCP tools over stdio or Streamable HTTP, with the TLC configurations that check
them and TLAPS proofs of every safety property they check. Everything is read
from the Go code; the paths below are relative to `src/`.

## 1. The system

| Part | State | Operations | Talks to |
|---|---|---|---|
| Rate limiter, `handlers/ratelimit.go` | a global token bucket, a map from address to bucket and time of last use, `stopCh`, a ticker; a mutex over the map | `Allow`, `evictExpired` on the ticker, `Stop` | called by every HTTP request; stopped by the shutdown |
| Middlewares, `handlers/middleware.go`, `metrics.go`, `observability.go`, `clientip.go` | the in-flight gauge, `http_requests_total`, one response recorder per layer | one pass inwards and one outwards per request; a panic unwinds it | the rate limiter, then the SDK's MCP handler |
| Tool calls, `handlers/tools.go`, `accesslog.go`, `registration.go`, `requestid/`, `application/` | per call: request id, source; `mcp_tool_requests_total` | validation, presets, search, truncation, counter, access log | the SearXNG client |
| SearXNG client, `infrastructure/searxng/` | the shared resty client, `mcp_searxng_upstream_requests_total` | `Search` | SearXNG, bounded by a 30 s timeout |
| Process, `cmd/server/main.go` | listeners, two servers and their goroutines, `errCh`, the signal context, the shutdown deadline | `Run`, `runStdio`, `runHTTP`, `serve`, `awaitAndShutdown` | starts and stops all of the above |
| Configuration, `config/`, `main` | none after start-up | `Load`, `-mode` override, `Validate` | `Run` |
| Logging, `logging/` | the logger's output and level; a tree of slog handlers | set-up; slog bridge for the SDK | everything |
| Redaction, `handlers/redact.go` | none | pure | banner, access log |
| Sanitising and conversion, `handlers/tools.go`, `searxng/models.go` | none | pure | tool calls |
| Tool definitions, guidance, `handlers/registration.go`, `guidance.go` | none | static texts | the SDK |

What is hard in it: requests and tool calls are concurrent and share buckets,
gauges and counters; eviction forgets state that a later request needs; a
handler may panic after its header was sent; SearXNG may answer late, partly or
never; signals, server failures and requests arrive while the process starts or
stops. `PROJECT.json` lists these hazards line by line with the properties that
watch them. Nothing is persisted, so there is no recovery to model.

What makes each part correct:

- rate limiter: no window of time admits more than burst + rate x length, per
  client and in all, whatever is evicted when; the map is bounded; the goroutine
  ends;
- middlewares: a request reaches the MCP handler only with a token, a bounded
  body and a bounded batch; gauge, counter and log tell what happened, panics
  included;
- tool calls: SearXNG sees bounded requests only; "ok" means a whole 2xx answer;
  internal errors stay inside; ids lead from SearXNG's log to ours; counters and
  log agree; every call is answered;
- process: whatever is acquired is released; no goroutine blocks; the shutdown
  keeps its order, gives requests their grace, and ends;
- start-up: what runs has a valid configuration with the flag applied; in stdio
  mode nothing but the protocol reaches stdout; the limiter can admit; probes are
  answered in one place; the banner names the upstream without its credentials;
- slog bridge: a derived handler logs the fields of the calls that made it,
  whatever else was derived from its parents;
- results: every text and link a client gets is sanitised, in order, its own, and
  no more is lost than asked;
- all together: SearXNG is asked no more often than the tokens pay for, the log of
  a host shows what its own bucket paid for, and a client receives the answers
  that were logged.

## 2. Modules

`RateLimitPolicy` is the abstract promise of the limiter: one permanent bucket
per client and one for all, refilled every tick. No clock, map or eviction.

`RateLimiter` is the code. `clients` is the map, `global` and
`clients[c].limiter` are x/time/rate limiters: the credit at the last grant and
the moment of that grant. Credit is counted in units of 1/`TicksPerSecond`
token, so that it is an integer at every tick: a rate of `Limit` tokens per
second adds `Limit` units per tick, a request costs `TicksPerSecond` units.
`RejectGlobal`, `RejectClient` and `Admit` are the three ways out of `Allow`,
each atomic because `Allow` holds the mutex (for `evictExpired` likewise).
`EvictExpired` and `EvictorReturns` are the two arms of the goroutine's
`select`; `Tick` moves the clock and fires the ticker, whose channel holds one
firing. `window` (a window of observation that `OpenWindow` may start at any
moment) and `lastSweep` are history variables; no guard reads them.
`ServerLifecycle` is the main goroutine (`pc`), one goroutine per server
(`serve`), the requests in flight, the signal, the MCP session on stdio and the
deadline. `Init` chooses the launch mode. net/http is modelled as its callers
see it: `Shutdown` marks the server, closes the listener it serves, waits for
`Serve` to let go, and then for quiescence or the end of its context; a
kept-alive connection may still deliver a request until `Shutdown` has returned;
a server that starts serving after `Shutdown` stops at once.

`HttpPipeline` takes requests through mux, instrumentation, recovery, gauge, rate
limit, body limit and logging to the MCP handler and back. A stage is the layer
a request is in; "unwind", "recover" and "count" are the code that runs on the
way out, deferred or not. It composes `RateLimitPolicy` (INSTANCE), which is
what the refinement of `RateLimiter` entitles it to. The recorders keep the last
header written, the wire the first.

`ToolCall` follows one tools/call per element of `Calls` through
`WrapAccessLog`, `WrapToolHandler`, validation, the outgoing request, the answer,
decoding, truncation, counter and log. A text is a length and the few facts the
code asks of it; a result list is its length. Ids are fresh by construction:
`requestid.New` draws 128 random bits, which is taken as never repeating.
SearXNG and resty return any member of `Responses`, and resty may return an
error with or without a response object, since `doRequest` tests for both.

`SearchPromise` is the abstract promise of a call: it is opened, SearXNG is asked
at most once, and it succeeds, only if SearXNG was asked, or fails, once. `ToolCall`
implements it (`ImplementsPromise`): `phase` maps to where the call is and how it
ended, `asked` to the number of requests `upstream` holds for it. `Open` takes a
set of calls, for the batch of one HTTP request; `ToolCall` opens one at a time.

`Service` composes the two promises, `RateLimitPolicy` and `SearchPromise`, with
what lies between them: the limiter's key, the slow body, the batch, the access
log's source, the outbound timeout and the server's write deadline, all on one
clock. Because it stands on the two abstract specifications, it needs neither the
limiter's map nor the handlers' steps. Time advances only when nothing is due: a
goroutine that can run runs before the next tick, and a deadline fires on time.
Requests are numbered in the order of their arrival and the calls of a batch in
the order they ask in, which takes the symmetry out without losing a behaviour.
A client that goes away cancels its calls; that is `Fail`, possible at any time.

`Startup` is `main` and the parts of `Run` that depend on the configuration:
`Load` with its legacy address, the flag, the validation before and after it, the
logger and its channel, the banner, the limiter's bursts and the routes. The
parsers of the standard library are constants, functions on the texts they
accept, and envconfig's rule (a variable set to nothing is set) stands beside
`os.Getenv`'s (it is not). `MaxInt` is Go's `math.MaxInt`. `Refuse` is
`logrus.Fatalf`; `lines` collects what is logged with its channel.

`SlogBridge` is the tree of handlers the SDK derives: attributes are a slice, a
length and a place in `heap`, so that sharing is visible; `ops` remembers the
calls that made each handler, and `Promised` says what slog asks of them.
`Startup` instantiates it: the SDK derives handlers while the process serves.

`ResultMapping` follows one response through `toDomain` and `searchHelper`. A text
is a sequence of code points, a URL and a date are what the parsers make of them,
an optional value is a set of at most one element. `KeptOf` is `sanitizeOutput`'s
loop over the code points, as a recursive function of their number.

`MC*` modules hold symmetry sets and the sets of inputs; `<Module>Proofs` holds
the theorems about `<Module>` with their proofs.

## 3. Runs

Bounds are constants in the cfg files; each is chosen at or one beyond a limit
of the code, scaled down.

| Run | Question | Bounds |
|---|---|---|
| MCRateLimiter | do the window bounds and the map's bound hold, and does `RateLimiter` implement `RateLimitPolicy`? | 4 clients, 2 ticks per second, global burst unset (so twice the rate), per-client burst 1, TTL 2, a sweep every 2 ticks, 6 ticks |
| MCRateLimiterLive | do idle entries go, and does `Stop` end the goroutine? | 2 clients, 5 ticks, no symmetry |
| MCServerLifecycle | release, blocking, grace and order; does a signal or a failed server end the process? | both launch modes, two requests per server, no symmetry |
| MCHttpPipeline | do gauge, guards, log and counter tell what happened? | 2 slots (reused), 7 bodies at and around both limits, 3 kinds of origin |
| MCToolCall | bounds, correlation, truth of results and metrics; is every call answered, and does `ToolCall` implement `SearchPromise`? | 2 calls, 7 inputs, 8 answers or none |
| MCService | how often is SearXNG asked, in all and for a logged host; are logged answers received? | 3 requests, batches of 1 or 2, a body and an upstream answer that may each take a tick, 3 settings of WRITE_TIMEOUT, 3 kinds of origin |
| MCStartup | is what runs configured as documented, in every respect above? | every variable absent, empty, valid and invalid on its own in each mode, those of the logger and of the internal address together, 4 flags, 9-bit ints, 4 slog handlers |
| MCResultMapping | are results clean, and still themselves? | 3180 pairs of a response and a limit: each field through every value its conversion tells apart, code points at both sides of every boundary, 0 to 3 results, limits 0 to 9 and none |

Why they are enough. Six ticks let a bucket drain, stay idle for a TTL, be
evicted and be rebuilt with time to spend it again; four clients are one more
than the map may hold right after a sweep. `ClientCap` equals
`PerClientLimit * ClientTTL`, so eviction comes as early as the assumption of
section 5 allows. Two requests per server let one be served while
another connection idles and delivers late. Two calls are enough for
correlation, which relates pairs; the other invariants of `ToolCall` speak of
one call beside the counters all share. In `MCService` each bucket is one
token deep, so that two requests exceed it, and two bodies paid for in
successive ticks may come in the same one: `AmplificationBound` fails on this
instance when the read timeout's share is left out of it. The fields of a result
are converted one at a time and without state, so one varied field at a time is
enough for `MCResultMapping`; four handlers give a parent two children and a
grandchild. `MaxTime` bounds the clock of `RateLimiter` in `Tick`'s guard and
nothing else, and in `Service` it ends the arrivals while what has arrived goes on
to its end; slots are reused and calls are
finite, so the other modules need no bound of that kind.

Runs that end in a violation each state what a comment or SPEC.md says and show
the code doing otherwise:

| Run | What it shows |
|---|---|
| MCServerLifecycleGracefulShutdown | on a signal in http mode the shutdown deadline derives from the cancelled context, so requests in flight are cut at once (`cmd/server/main.go:416`) |
| MCHttpPipelineParseErrorMeansInvalidJSON | a valid batch is logged as parse_error (`handlers/middleware.go:104`) |
| MCHttpPipelineEveryReadRequestLogged | a panic skips the log line (`handlers/middleware.go:207`) |
| MCStartupPprofInBothModes | in http mode the internal server answers 404 for pprof (`cmd/server/main.go:378`) |

Met while modelling, and visible in the code without a run:

- a panic after the header was sent cannot answer 500, although the counter
  records one (`handlers/middleware.go:155`; `CountedAsSent` states the case);
- a cut log value has 515 characters under a bound of 512
  (`handlers/accesslog.go:31`); the query validation looks at the length alone,
  although its comment speaks of characters (`handlers/tools.go:343`);
- the banner is not "the opening log line" (`cmd/server/main.go:236`): the bound
  listener and the tool surface are logged before it; `Run` "returns an error only
  if a listener cannot be bound" (`:96`) but also returns the error of a broken
  transport (`:279`); the limiter "should not be used" after `Stop`
  (`handlers/ratelimit.go:88`) but answers the requests being drained
  (`cmd/server/main.go:420`), harmlessly, since only the eviction has ended;
- an invalid MODE stops a process whose `-mode` is valid, since `Load` validates
  before the flag is applied; a limit of a quarter of the int's range or more
  wraps its burst around, and the default burst as well (`LimiterHasBurst`
  excludes them); with INTERNAL_ADDR set to nothing and the legacy variable set,
  the legacy one wins, although the first is not unset (`SPEC.md:75`);
- the default WRITE_TIMEOUT of 60 s is shorter than 60 s of reading and 30 s of
  searching together: such a call is logged ok and its answer lost
  (`AnswersReceived` says which settings are safe);
- in stdio mode a bind that fails is reported through a logger that is silent
  unless LOG_LEVEL is set (`cmd/server/main.go:90`);
- a relative image source passes although SPEC.md:380 names three schemes
  (`handlers/tools.go:235`); a published date is passed on as it came, unlike
  every other text (`:273`); an empty `publishedDate` hides a `pubdate`
  (`searxng/models.go:101`); an answer that is null becomes an empty text;
  nested infoboxes are converted and then dropped.

## 4. Fairness

- `RateLimiter!FairSpec`: the clock runs (up to `MaxTime`); the eviction
  goroutine is scheduled; the arm of its `select` that waits for `stopCh` is
  strongly fair, because Go chooses at random among ready arms and so picks it
  in the end. The two liveness properties speak of the time the clock is given.
- `ServerLifecycle!FairSpec`: the main goroutine and the two server goroutines
  are scheduled and the deadline's timer runs. A handler that finishes, a server
  that fails, a session that ends and a signal are not assumed.
- `ToolCall!FairSpec`: the goroutine of a call is scheduled and resty's timeout
  (`main.go:162`) runs. SearXNG owes nothing.
- `HttpPipeline` states no liveness: whether a request ends is the handler's
  business. `Service` states none either: its clock cannot pass a deadline, so
  `TypeOK` bounds how long a request reads and runs, and the check for deadlock
  says the clock can go on. `Startup` and `ResultMapping` are sequential.

## 5. Proofs

Every safety property that a run checks is proved as a theorem of the
specification, for every value of the constants. The invariants the proofs rest
on were checked by TLC on the same instances as the properties before they were
proved.

| Theorem | Statement | About |
|---|---|---|
| RateLimiterProofs | | |
| TypeCorrect | `Spec => []TypeOK` | |
| LimiterImplementsPolicy | `Spec => ImplementsPolicy` | eviction is invisible |
| ClientWindowBounded, GlobalWindowBounded | `[]ClientWindowBound`, `[]GlobalWindowBound` | burst + rate x length, in every window |
| MapBounded | `[]MapBound` | the map of clients |
| ServerLifecycleProofs | | |
| TypeCorrect | `Spec => []TypeOK` | |
| Released | `[]ResourcesReleased` | listeners, limiter, outbound client |
| SendersFree | `[]NoSenderBlocked` | `errCh` has room for every sender |
| GraceGiven | `[]RequestsGetGrace` | a request is cut after its grace only |
| MetricsLast | `[]MetricsOutliveMain` | the order of the shutdown |
| HttpPipelineProofs | | |
| TypeCorrect | `Spec => []TypeOK` | |
| GaugeRight | `[]GaugeCountsInFlight` | panics included |
| HandlerIsGuarded | `[]HandlerGuarded` | token, body and batch limits |
| LogLineTrue, CounterTrue | `[]OneTrueLogLine`, `[]CountedAsSent` | log and counter against the wire |
| ToolCallProofs | | |
| TypeCorrect | `Spec => []TypeOK` | |
| RequestsBounded | `[]UpstreamRequestBounded` | what SearXNG is asked |
| OkIsWhole, ErrorsHidden | `[]OkMeansWholeAnswer`, `[]UpstreamErrorsHidden` | what a client is told |
| IdsLead | `[]LogsCorrelate` | request ids |
| UpstreamCounterRight, ToolCounterRight | `[]UpstreamCounted`, `[]CounterMatchesLog` | the two counters |
| CallsKeepPromise | `Spec => ImplementsPromise` | refinement of `SearchPromise` |
| ServiceProofs | | |
| TypeCorrect | `Spec => []TypeOK` | with it, the bounds on reading and running |
| AnswersArrive | `[]AnswersReceived` | logged answers are received |
| AmplificationBounded, LoggedHostBounded | `[]AmplificationBound`, `[]LoggedHostBound` | how often SearXNG is asked |
| StartupProofs | | |
| StdoutStaysClean | `[]StdioKeepsStdout` | |
| PrecedenceHolds | `[]Precedence` | flag, variables, defaults |
| LimiterAdmits | `[]LimiterHasBurst` | for ints of any width |
| BannerIdentifies | `[]BannerIdentifiesUpstream` | |
| ProbesHaveAPlace | `[]ProbesAnswered` | |
| SlogBridgeProofs | | |
| FieldsDerived | `[]FieldsAsDerived` | handlers of any number and depth |
| ResultMappingProofs | | |
| OutputIsClean, OutputIsFaithful | `[]OutputClean`, `[]OutputFaithful` | texts and lists of any length |

Assumptions about the constants, each in the module that declares them:

- `RateLimiter`: `ConfigAssumption` (rates are positive, as
  `config.validatePositiveInt` enforces; bursts are any integer, since a
  non-positive one takes the default) and `EvictionAssumption`,
  `ClientCap <= PerClientLimit * ClientTTL`: an idle bucket is full again before
  its client may be evicted. The code's values satisfy it by far: 2 s of refill
  against 30 minutes. It is what makes eviction invisible, and without it the
  refinement fails.
- `HttpPipeline!PipelineAssumption`, `ToolCall!CallAssumption` and
  `Service!ServiceAssumption`: the inputs have their types, the limits are
  naturals, and what is in flight at any moment is finite. `CallAssumption`
  also says that an optional argument has at most one value.
- `Startup`: `ParsersAssumption` (`strconv` returns ints, a URL has the parts
  `net/url` gives it) and `SdkAssumption` (the SDK's attributes are slog's).
- `ResultMapping!InputsAssumption`: the inputs have their types, and parsing the
  same text twice gives the same scheme.
- `ServerLifecycle` needs none.

### The arguments

**RateLimiter.** `TypeOK` is not inductive for what follows: the invariant
`LimiterInv` adds `Fresh` (a bucket last granted no later than its owner was last
seen, so an entry idle for a TTL has a bucket idle for a TTL) and `Kept` (a sweep
leaves no entry older than the TTL behind, so every entry was seen at most a TTL
before the last sweep). Lemmas about a single bucket (`CreditTick`, `CreditIdle`,
`SpendFacts`) say that reading a bucket a tick later equals refilling it by a
tick, and that after `cap <= limit * idle` it is full. The refinement maps
`globalCredit` and `clientCredit` to what the buckets would show now, a missing
entry to a full one: `Allow` maps to the policy's request, `Tick` to its refill
and everything else, eviction above all, to a stutter. The window bounds follow
from `Paid`: what a bucket holds and what was spent from it in the window never
exceed a full bucket and the window's refill. The map's bound follows from
`SeenPaid`: clients seen since any moment, each worth a token, and what the
global bucket holds never exceed a full bucket and the refill since then; `Kept`
says from which moment to count.

**ServerLifecycle.** `LifecycleInv` says which places in the code each mode has,
that nothing runs before the `go` statements, who owns the limiter at each place,
and that the main server is shut down before the metrics server and each before
it is drained. `NoSenderBlocked` rests on `OneErrorEach` (a goroutine that has
sent is gone, and the channel has a place for each), `RequestsGetGrace` on
`CutAtExit`, and `MetricsOutliveMain` on `DrainedInOrder`: a server whose shutdown
has ended serves nothing, unless the grace is over.

**HttpPipeline.** `PipelineInv` says per stage what the layers have left on a
request. The recorders and the wire agree until a panic behind the header makes
them differ; from then on the invariant keeps the two apart, which is what the
cases of `OneTrueLogLine` and `CountedAsSent` need. The gauge is the cardinality
of the requests inside `MetricsMiddleware`, so each crossing adds or takes one.

**ToolCall.** `ToolCallInv` says per stage whether SearXNG was asked (`AskedOnce`:
once, for what the validation let pass), what came back, and what is concluded
from it (`Concluded`). Ids are unique because a fresh one is outside those in
use. The counters are cardinalities of sets of calls (`ToolCounted`): a call
leaves "count" once. For the refinement, each step of the code is shown to be a
step of `SearchPromise` for its call, or to leave the mapped state alone.

**Service.** The per-call part, `CallInv`, is the deadline argument: a call asks
within a read timeout of its arrival and ends within an outbound timeout of that,
so a write deadline beyond their sum, counted from the arrival, finds the answer
written. `AmplificationBound` needs every window of the past at once: `Windows`
says of each that what it admitted cost no more than a full bucket and its
refill, with what is left in the bucket on top for the windows that last until
now. The requests that count are those whose token still stands for calls
(`Paid`); a refused one only leaves the set. A call that asked in a window belongs
to a request that arrived in the window stretched backwards by the read timeout,
and a request has at most `MaxBatchSize` calls. `LoggedHostBound` is the same for
the bucket of one host, for headers that name the host that is also the key.

**Startup.** `StartupInv`: each step has its configuration, validated and with the
flag over it; a logger is configured once, from the final configuration; every
line is on that logger's channel or on stderr. The rest is about operators: the
redaction of a URL, the bursts in wrapped arithmetic, the patterns of a ServeMux.

**SlogBridge.** The proof extends `Startup`, whose runs derive the handlers.
`SlogInv` says that a handler's slice lies in its array, that its groups are the
ones opened by the calls that made it, and that its fields are the ones these
calls gave. Arrays are never written after they are shared, since `WithAttrs`
copies. What a longer list of calls opens and gives is compared with the shorter
one's in `OpenGroupsAppend`, `GivenAppend` and `FlattenAppend`.

**ResultMapping.** `Sanitized` says that `SanitizeOutput` takes out the forbidden
code points and nothing else, and keeps the order; the invariant says each stage
holds what the one before it made of the response. The two theorems then go
through the fields of a result and of an infobox.

Induction over data. The library's induction theorems take an operator, which no
prover here can instantiate. `SlogBridgeProofs` and `ResultMappingProofs` reason
about recursive functions by their least counterexample instead: the lengths at
which the claim fails are a set of naturals, which has a least element (`Least`,
from the well-foundedness of `<`), and the defining equation leads from the
length below it to a contradiction. That such a function is defined at all is
shown in the same way. No module declares a RECURSIVE operator.

Only model-checked: liveness (`IdleEntryGoes`, `StopEndsEvictor`,
`SignalEndsProcess`, `ServerFailureEndsProcess`, `EveryCallAnswered`), since
fairness and ENABLED are beyond TLAPS; the absence of deadlock; and the runs that
end in a violation, which are counterexamples.

## 6. Not modelled

- `RedactURL`'s regular expression, `SanitizeLog` and the access log's rendering of
  arguments: text in, text out. `RedactStruct` is modelled as the banner uses it.
- `extractErrorDetail`: it words a line of the server's log.
- The log formatters; which line is written, and where, is modelled.
- The MCP SDK's protocol, its sessions and schema validation; resources and tool
  descriptions, which are static; the domain types, which have no behaviour.
- Histograms: they are observed where the counters are.
- The connection pool of resty: it limits idle connections, not requests.

Nothing is persisted and SearXNG is asked without retries, so there is no
recovery and no duplicate to model; lost and late answers are.

## 7. Plan

Done, in this order: `RateLimitPolicy`, `RateLimiter`, `RateLimiterProofs`,
`ServerLifecycle`, `HttpPipeline`, `ToolCall`; then `SearchPromise` and its
refinement, `Service`, `SlogBridge`, `Startup`, `ResultMapping`; then the proofs of
all safety properties, component by component.

What could follow: that `HttpPipeline`'s and `Service`'s use of `RateLimitPolicy`
is a step of it for each request, stated as a refinement of its own; and that
`ToolCall` and `HttpPipeline` together do what `Service` assumes of them.
