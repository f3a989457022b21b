------------------------------ MODULE Startup ------------------------------
(***************************************************************************)
(* How main gets from the environment and the -mode flag to a running      *)
(* process: configuration, its validation, the logger and its channel, the *)
(* banner, the limiter's bursts, the routes of the servers, and then the   *)
(* lines the MCP SDK logs through the slog bridge.  What the running       *)
(* process does with its listeners and signals is in ServerLifecycle.      *)
(*                                                                         *)
(* envconfig and the standard library's parsers are external: the parsers  *)
(* are constants.                                                          *)
(***************************************************************************)
EXTENDS Integers, Sequences, FiniteSets

CONSTANTS
  Environments,  \* values of the environment variables, Unset where absent
  Flags,         \* values of -mode, "" where absent
  Number,        \* strconv.ParseInt, a function of the texts it accepts
  Duration,      \* time.ParseDuration
  URL,           \* url.Parse, see URLType
  MaxInt,        \* math.MaxInt
  Attrs, Groups, MaxHandlers  \* of SlogBridge

Unset == "unset"
Variables ==
  {"SEARXNG_URL", "INTERNAL_ADDR", "PROMETHEUS_METRICS_ADDR", "RATE_LIMIT_GLOBAL",
   "RATE_LIMIT_PER_CLIENT", "WRITE_TIMEOUT", "MODE", "LOG_LEVEL", "LOG_FORMAT",
   "LOG_FILENAME"}
URLType == [scheme : STRING, user : STRING, host : STRING]

(* What the parsers return fits the types of the fields. *)
ASSUME ParsersAssumption ==
  /\ MaxInt \in Nat
  /\ \A text \in DOMAIN Number : Number[text] \in -(MaxInt + 1)..MaxInt
  /\ \A text \in DOMAIN Duration : Duration[text] \in Int
  /\ \A text \in DOMAIN URL : URL[text] \in URLType

VARIABLES
  env, flag,  \* what main is started with
  step,       \* where main is
  cfg,        \* config.Config
  logger,     \* the configured logger
  burst,      \* the bursts of the rate limiter
  lines,      \* what was logged, with the channel it went to
  heap, handlers, ops  \* of SlogBridge

slogVars == <<heap, handlers, ops>>
vars == <<env, flag, step, cfg, logger, burst, lines, slogVars>>

Slog == INSTANCE SlogBridge

(* The SDK's attributes and groups have names. *)
ASSUME SdkAssumption == Attrs \subseteq Seq(Slog!LeafType) /\ Groups \subseteq STRING

-----------------------------------------------------------------------------
(* config.Load *)

Default ==
  [v \in Variables |->
     CASE v = "INTERNAL_ADDR" -> ":8081"
       [] v = "RATE_LIMIT_GLOBAL" -> "100"
       [] v = "RATE_LIMIT_PER_CLIENT" -> "10"
       [] v = "WRITE_TIMEOUT" -> "60s"
       [] v = "MODE" -> "stdio"
       [] v = "LOG_FORMAT" -> "text"
       [] OTHER -> ""]

(* envconfig takes the default for a variable that is not set; one that is *)
(* set to nothing is set.                                                  *)
Value(v) == IF env[v] = Unset THEN Default[v] ELSE env[v]

(* os.Getenv does not tell the two apart. *)
Getenv(v) == IF env[v] = Unset THEN "" ELSE env[v]

Processed ==
  /\ env["SEARXNG_URL"] # Unset
  /\ Value("RATE_LIMIT_GLOBAL") \in DOMAIN Number
  /\ Value("RATE_LIMIT_PER_CLIENT") \in DOMAIN Number
  /\ Value("WRITE_TIMEOUT") \in DOMAIN Duration

(* LOG_LEVEL is a pointer, nil when the variable is not set. *)
Loaded ==
  [searXNGURL |-> Value("SEARXNG_URL"),
   internalAddr |-> IF Getenv("INTERNAL_ADDR") = "" /\ Getenv("PROMETHEUS_METRICS_ADDR") # ""
                    THEN Getenv("PROMETHEUS_METRICS_ADDR") ELSE Value("INTERNAL_ADDR"),
   rateLimitGlobal |-> Number[Value("RATE_LIMIT_GLOBAL")],
   rateLimitPerClient |-> Number[Value("RATE_LIMIT_PER_CLIENT")],
   writeTimeout |-> Duration[Value("WRITE_TIMEOUT")],
   mode |-> Value("MODE"),
   logLevel |-> env["LOG_LEVEL"],
   logFormat |-> Value("LOG_FORMAT"),
   logFilename |-> Value("LOG_FILENAME")]

(* logging.ParseLevel: logrus levels, the most severe lowest. *)
Level ==
  [panic |-> 0, fatal |-> 1, error |-> 2, warning |-> 3, warn |-> 3, info |-> 4, debug |-> 5]

ValidLevel(l) == l = Unset \/ l \in DOMAIN Level

IsHTTPURL(text) ==
  /\ text \in DOMAIN URL
  /\ URL[text].scheme \in {"http", "https"} /\ URL[text].host # ""

ValidatesLoosely(c) ==
  /\ IsHTTPURL(c.searXNGURL)
  /\ c.rateLimitGlobal >= 0 /\ c.rateLimitPerClient >= 0
  /\ c.writeTimeout >= 0
  /\ c.mode \in {"http", "stdio"}
  /\ ValidLevel(c.logLevel)
  /\ c.logFormat \in {"text", "json", ""}

(* Config.Validate *)
Validates(c) ==
  /\ IsHTTPURL(c.searXNGURL)
  /\ c.rateLimitGlobal >= 1 /\ c.rateLimitPerClient >= 1
  /\ c.writeTimeout >= 0
  /\ c.mode \in {"http", "stdio"}
  /\ ValidLevel(c.logLevel)
  /\ c.logFormat \in {"text", "json", ""}

-----------------------------------------------------------------------------
(* logging.New *)

(* Where an enabled logger writes. *)
Channel(c) ==
  IF c.logFilename # "" THEN "file"
  ELSE IF c.mode = "http" THEN "stdout" ELSE "discard"

Silent == [channel |-> "discard", level |-> Level.panic]

NewLogger(c) ==
  IF c.mode = "http" \/ c.logLevel # Unset
  THEN [channel |-> Channel(c),
        level |-> IF c.logLevel = Unset THEN Level.info ELSE Level[c.logLevel]]
  ELSE Silent

(* A line reaches the logger's channel if its level is enabled.            *)
(* shows: what of the configuration stands in it.                          *)
Written(level, what, shows) ==
  IF level <= logger.level /\ logger.channel # "discard"
  THEN {[to |-> logger.channel, what |-> what, shows |-> shows]} ELSE {}

NoURL == [scheme |-> "", user |-> "", host |-> ""]

(* RedactValue of a secret:"true" field; NoURL is the "<redacted>" marker. *)
RedactValue(text) == IF IsHTTPURL(text) THEN [URL[text] EXCEPT !.user = ""] ELSE NoURL

BannerRaw(c) == URL[c.searXNGURL]

(* logStartupBanner shows the URL of the configuration RedactStruct made.  *)
Banner(c) == RedactValue(c.searXNGURL)

-----------------------------------------------------------------------------
(* Go's int wraps around. *)
Wrap(n) ==
  LET words == 2 * (MaxInt + 1)
      m == n % words
  IN IF m > MaxInt THEN m - words ELSE m

(* buildHTTPHandler's burst, and NewRateLimiter's where that one is not    *)
(* positive.                                                               *)
Burst(limit) == Wrap(2 * limit)
EffectiveBurst(limit) == IF Burst(limit) <= 0 THEN Wrap(limit * 2) ELSE Burst(limit)

-----------------------------------------------------------------------------
(* The routes *)

Methods == {"GET", "HEAD", "POST"}
Paths == {"/", "/healthz", "/metrics", "/debug/pprof/"}
Servers == {"main", "internal"}

(* A ServeMux pattern, with the method "" for any. *)
Pattern(m, p, h) == [method |-> m, path |-> p, handler |-> h]

Matches(pat, m, p) ==
  /\ pat.path \in {"/", p}
  /\ pat.method = "" \/ pat.method = m \/ (pat.method = "GET" /\ m = "HEAD")

ObservabilityMuxForMetrics(includeHealthz) ==
  {Pattern("GET", "/metrics", "metrics"), Pattern("", "/debug/pprof/", "pprof")}

(* ObservabilityHandler *)
ObservabilityMux(includeHealthz) ==
  {Pattern("GET", "/metrics", "metrics"), Pattern("", "/debug/pprof/", "pprof")}
    \cup (IF includeHealthz THEN {Pattern("GET", "/healthz", "healthz")} ELSE {})

(* The most specific pattern that matches; 404 or 405 for want of one. *)
Lookup(mux, m, p) ==
  LET hits == {pat \in mux : Matches(pat, m, p)}
      exact == {pat \in hits : pat.path = p}
  IN IF hits = {} THEN "none"
     ELSE (CHOOSE pat \in IF exact # {} THEN exact ELSE hits : TRUE).handler

(* runHTTP, newMetricsServer and runStdio: which handler answers.  In http *)
(* mode the internal server passes on "GET /metrics" alone.                *)
Route(server, m, p) ==
  CASE server = "main" /\ cfg.mode = "http" ->
         Lookup({Pattern("GET", "/healthz", "healthz"), Pattern("", "/", "mcp")}, m, p)
    [] server = "internal" /\ cfg.mode = "http" ->
         IF Lookup({Pattern("GET", "/metrics", "inner")}, m, p) = "none" THEN "none"
         ELSE Lookup(ObservabilityMux(FALSE), m, p)
    [] server = "internal" /\ cfg.mode = "stdio" -> Lookup(ObservabilityMux(TRUE), m, p)
    [] OTHER -> "none"

-----------------------------------------------------------------------------
NoConfig == [mode |-> ""]
Stderr(what) == [to |-> "stderr", what |-> what, shows |-> NoURL]

Init ==
  /\ env \in Environments
  /\ flag \in Flags
  /\ step = "load"
  /\ cfg = NoConfig
  /\ logger = Silent
  /\ burst = <<>>
  /\ lines = {}
  /\ Slog!Init

Go(from, to) == step = from /\ step' = to

(* logrus.Fatalf, the standard logger's: stderr and exit. *)
Refuse(at) ==
  /\ Go(at, "exited")
  /\ lines' = lines \cup {Stderr("refusal")}
  /\ UNCHANGED <<env, flag, cfg, logger, burst, slogVars>>

Load ==
  /\ Go("load", "override")
  /\ Processed /\ Validates(Loaded)
  /\ cfg' = Loaded
  /\ UNCHANGED <<env, flag, logger, burst, lines, slogVars>>

LoadFails == Refuse("load") /\ ~(Processed /\ Validates(Loaded))

Overridden == IF flag # "" THEN [cfg EXCEPT !.mode = flag] ELSE cfg

OverrideUnlessSet ==
  /\ Go("override", "log")
  /\ cfg' = IF env["MODE"] = Unset THEN Overridden ELSE cfg
  /\ UNCHANGED <<env, flag, logger, burst, lines, slogVars>>

OverrideUnchecked ==
  /\ Go("override", "log")
  /\ cfg' = Overridden
  /\ UNCHANGED <<env, flag, logger, burst, lines, slogVars>>

(* The flag wins, and the result is validated again. *)
Override ==
  /\ Go("override", "log")
  /\ Validates(Overridden)
  /\ cfg' = Overridden
  /\ UNCHANGED <<env, flag, logger, burst, lines, slogVars>>

OverrideFails == Refuse("override") /\ ~Validates(Overridden)

OpensFile == NewLogger(cfg) # Silent /\ NewLogger(cfg).channel = "file"

ConfigureLoggerAsLoaded ==
  /\ Go("log", "run")
  /\ logger' = NewLogger(Loaded)
  /\ UNCHANGED <<env, flag, cfg, burst, lines, slogVars>>

ConfigureLogger ==
  /\ Go("log", "run")
  /\ logger' = NewLogger(cfg)
  /\ UNCHANGED <<env, flag, cfg, burst, lines, slogVars>>

(* LOG_FILENAME cannot be opened. *)
LoggerFails == Refuse("log") /\ OpensFile

(* Run binds the internal listener and says so. *)
BindInternal ==
  /\ Go("run", "build")
  /\ lines' = lines \cup Written(Level.info, "bound", NoURL)
  /\ UNCHANGED <<env, flag, cfg, logger, burst, slogVars>>

(* An address cannot be bound: logger.Fatalf, which a silent logger        *)
(* swallows.                                                               *)
BindFails ==
  /\ Go("run", "exited") \/ (cfg.mode = "http" /\ Go("build", "exited"))
  /\ lines' = lines \cup Written(Level.fatal, "refusal", NoURL)
  /\ UNCHANGED <<env, flag, cfg, logger, burst, slogVars>>

(* runHTTP and runStdio: buildServer, buildHTTPHandler, the banner. *)
Build ==
  /\ Go("build", "serving")
  /\ burst' = IF cfg.mode = "http"
              THEN <<EffectiveBurst(cfg.rateLimitGlobal), EffectiveBurst(cfg.rateLimitPerClient)>>
              ELSE burst
  /\ lines' = lines \cup Written(Level.info, "banner", Banner(cfg))
  /\ UNCHANGED <<env, flag, cfg, logger, slogVars>>

(* The SDK derives handlers from the one of logging.Slog. *)
Derive ==
  /\ step = "serving"
  /\ Slog!Next
  /\ UNCHANGED <<env, flag, step, cfg, logger, burst, lines>>

SlogLevel == [DEBUG |-> Level.debug, INFO |-> Level.info, WARN |-> Level.warn,
              ERROR |-> Level.error]

(* The SDK logs at one of slog's levels (slogLevelToLogrus, Handle). *)
SdkLogs ==
  /\ step = "serving"
  /\ \E l \in DOMAIN SlogLevel : lines' = lines \cup Written(SlogLevel[l], "sdk", NoURL)
  /\ UNCHANGED <<env, flag, step, cfg, logger, burst, slogVars>>

Next ==
  \/ Load \/ LoadFails \/ Override \/ OverrideFails \/ ConfigureLogger \/ LoggerFails
  \/ BindInternal \/ BindFails \/ Build \/ Derive \/ SdkLogs

Exited == step = "exited" /\ UNCHANGED vars

Spec == Init /\ [][Next \/ Exited]_vars

-----------------------------------------------------------------------------
Runs == step \in {"run", "build", "serving"}

(* "in stdio mode logs are never written to stdout" (SPEC.md:362), which   *)
(* carries the protocol, and without LOG_LEVEL nothing is logged at all    *)
(* (README.md:124), be it by main or by the SDK, even where MODE asked for *)
(* http and only the flag for stdio.                                       *)
StdioKeepsStdout ==
  cfg.mode = "stdio" =>
    \A l \in lines : l.to # "stdout" /\ (l.to = "file" => env["LOG_LEVEL"] # Unset)

(* What runs has a configuration that Validate accepts, the flag included: *)
(* "the -mode CLI flag overrides the MODE env var; the env var overrides   *)
(* the built-in default of stdio" (SPEC.md:24), and an INTERNAL_ADDR that  *)
(* is given wins over the legacy variable (Load, main).                    *)
Precedence ==
  Runs =>
    /\ Validates(cfg)
    /\ cfg.mode = CASE flag # "" -> flag
                     [] flag = "" /\ env["MODE"] # Unset -> env["MODE"]
                     [] OTHER -> "stdio"
    /\ Getenv("INTERNAL_ADDR") # "" => cfg.internalAddr = env["INTERNAL_ADDR"]

(* A limiter that runs can admit a request: validation keeps out the       *)
(* limits whose burst is zero, for which NewRateLimiter's default is zero  *)
(* too.  Limits of a quarter of the int's range or more are out of its     *)
(* reach: their burst wraps around, and the default as well.               *)
LimiterHasBurst ==
  step = "serving" /\ cfg.mode = "http" =>
    \A k \in 1..2 :
      LET limit == <<cfg.rateLimitGlobal, cfg.rateLimitPerClient>>[k]
      IN limit <= MaxInt \div 2 => burst[k] >= 1

(* A running process has one place that answers the health check, and one  *)
(* other than the clients' that answers the metrics, whatever the mode     *)
(* (runHTTP, newMetricsServer, runStdio).                                  *)
ProbesAnswered ==
  Runs =>
    /\ \A m \in {"GET", "HEAD"} :
         /\ Cardinality({s \in Servers : Route(s, m, "/healthz") = "healthz"}) = 1
         /\ {s \in Servers : Route(s, m, "/metrics") = "metrics"} = {"internal"}
    /\ \A m \in Methods, p \in Paths : Route("internal", m, p) # "mcp"

(* "any embedded credentials are hidden while the host stays visible"      *)
(* (main.go:213), of every configuration that starts.                      *)
BannerIdentifiesUpstream ==
  \A l \in lines : l.what = "banner" =>
    /\ l.shows.host = URL[env["SEARXNG_URL"]].host /\ l.shows.host # ""
    /\ l.shows.user = ""

(* The fields the SDK's derived handlers log through the configured logger *)
(* (logging.Slog at main.go:184), see SlogBridge.                          *)
FieldsAsDerived == Slog!FieldsAsDerived

(* "/metrics, the /debug/pprof/* endpoints ... It is served on the         *)
(* internal address INTERNAL_ADDR in both launch modes"                    *)
(* (observability.go:28).                                                  *)
PprofInBothModes == Runs => Route("internal", "GET", "/debug/pprof/") = "pprof"
=============================================================================
