--------------------------- MODULE StartupProofs ---------------------------
(***************************************************************************)
(* Proofs about Startup, for every environment, every -mode flag, whatever *)
(* the parsers accept, and ints of any width.                              *)
(***************************************************************************)
EXTENDS Startup, FiniteSetTheorems, TLAPS

-----------------------------------------------------------------------------
(* The inductive invariant *)

(* What main runs with: the environment's configuration under the flag. *)
Final == IF flag # "" THEN [Loaded EXCEPT !.mode = flag] ELSE Loaded

(* Each step of main has its configuration, validated. *)
ConfigInv ==
  /\ step \in {"load", "override", "log", "run", "build", "serving", "exited"}
  /\ step = "override" => Processed /\ cfg = Loaded
  /\ step \in {"log", "run", "build", "serving"} =>
       Processed /\ cfg = Final /\ Validates(cfg)

(* A logger is configured once, from the final configuration. *)
LoggerInv == logger = Silent \/ (cfg = Final /\ logger = NewLogger(cfg))

(* What is logged goes to the logger's channel, refusals apart, and the    *)
(* banner shows the redacted configuration.                                *)
LinesInv ==
  \A l \in lines :
    /\ l.to = "stderr" \/ (l.to = logger.channel /\ l.to # "discard")
    /\ l.what = "banner" => step = "serving" /\ l.shows = Banner(cfg)

(* The limiter has the bursts of the limits it was built with. *)
BurstInv ==
  step = "serving" /\ cfg.mode = "http" =>
    burst = <<EffectiveBurst(cfg.rateLimitGlobal), EffectiveBurst(cfg.rateLimitPerClient)>>

(* Before the logger is configured there is none. *)
StartupInv ==
  /\ ConfigInv /\ LoggerInv /\ LinesInv /\ BurstInv
  /\ step \in {"load", "override", "log"} => logger = Silent /\ lines = {}

-----------------------------------------------------------------------------
(* The configuration *)

(* Nothing main does changes the environment or the flag it was given. *)
LEMMA InputsStay ==
  ASSUME UNCHANGED <<env, flag>>
  PROVE  Loaded' = Loaded /\ Final' = Final /\ (Processed <=> Processed')
  <1>1. \A v : Value(v)' = Value(v) /\ Getenv(v)' = Getenv(v)
    BY DEF Value, Getenv
  <1>2. Loaded' = Loaded
    BY <1>1 DEF Loaded
  <1> QED
    BY <1>1, <1>2 DEF Final, Processed

(* The flag replaces the mode and nothing else. *)
LEMMA FinalFacts ==
  /\ Final.searXNGURL = Value("SEARXNG_URL")
  /\ Final.internalAddr = Loaded.internalAddr
  /\ Final.logLevel = env["LOG_LEVEL"]
  /\ Final.mode = IF flag # "" THEN flag ELSE Value("MODE")
  BY DEF Final, Loaded

(* A line goes to the channel of the logger that writes it. *)
LEMMA WrittenFacts ==
  ASSUME NEW level, NEW what, NEW shows, NEW l \in Written(level, what, shows)
  PROVE  l.to = logger.channel /\ l.to # "discard" /\ l.what = what /\ l.shows = shows
  BY DEF Written

-----------------------------------------------------------------------------
(* The actions *)

(* A refusal on stderr ends main before anything else was logged.          *)
LEMMA RefuseInv ==
  ASSUME StartupInv, NEW at \in {"load", "override", "log"}, Refuse(at)
  PROVE  StartupInv'
  <1>1. /\ step = at /\ step' = "exited" /\ lines' = lines \cup {Stderr("refusal")}
        /\ cfg' = cfg /\ logger' = logger /\ UNCHANGED <<env, flag>>
    BY DEF Refuse, Go
  <1>2. logger = Silent /\ lines = {}
    BY <1>1 DEF StartupInv
  <1>3. ConfigInv' /\ BurstInv'
    BY <1>1 DEF ConfigInv, BurstInv
  <1>4. LoggerInv'
    BY <1>1, <1>2 DEF LoggerInv, Silent
  <1>5. LinesInv'
    BY <1>1, <1>2 DEF LinesInv, Stderr
  <1> QED
    BY <1>1, <1>3, <1>4, <1>5 DEF StartupInv

(* config.Load *)
LEMMA LoadInv ==
  ASSUME StartupInv, Load
  PROVE  StartupInv'
  <1>1. /\ step = "load" /\ step' = "override" /\ cfg' = Loaded /\ Processed
        /\ logger' = logger /\ lines' = lines /\ UNCHANGED <<env, flag>>
    BY DEF Load, Go
  <1>2. logger = Silent /\ lines = {}
    BY <1>1 DEF StartupInv
  <1> QED
    BY <1>1, <1>2, InputsStay
       DEF StartupInv, ConfigInv, BurstInv, LoggerInv, LinesInv, Silent

(* The flag overrides the mode, and what comes out is validated again. *)
LEMMA OverrideInv ==
  ASSUME StartupInv, Override
  PROVE  StartupInv'
  <1>1. /\ step = "override" /\ step' = "log" /\ cfg' = Overridden /\ Validates(Overridden)
        /\ logger' = logger /\ lines' = lines /\ UNCHANGED <<env, flag>>
    BY DEF Override, Go
  <1>2. logger = Silent /\ lines = {} /\ Processed /\ Overridden = Final
    BY <1>1 DEF StartupInv, ConfigInv, Overridden, Final
  <1>3. Validates(cfg)'
    BY <1>1 DEF Validates, IsHTTPURL, ValidLevel
  <1> QED
    BY <1>1, <1>2, <1>3, InputsStay
       DEF StartupInv, ConfigInv, BurstInv, LoggerInv, LinesInv, Silent

(* logging.New, given the final configuration. *)
LEMMA ConfigureLoggerInv ==
  ASSUME StartupInv, ConfigureLogger
  PROVE  StartupInv'
  <1>1. /\ step = "log" /\ step' = "run" /\ cfg' = cfg /\ logger' = NewLogger(cfg)
        /\ lines' = lines /\ UNCHANGED <<env, flag>>
    BY DEF ConfigureLogger, Go
  <1>2. lines = {} /\ Processed /\ cfg = Final /\ Validates(cfg)
    BY <1>1 DEF StartupInv, ConfigInv
  <1>3. NewLogger(cfg)' = NewLogger(cfg)
    BY <1>1 DEF NewLogger, Channel, Silent
  <1>4. Validates(cfg)'
    BY <1>1, <1>2 DEF Validates, IsHTTPURL, ValidLevel
  <1> QED
    BY <1>1, <1>2, <1>3, <1>4, InputsStay
       DEF StartupInv, ConfigInv, BurstInv, LoggerInv, LinesInv

(* What leaves the inputs, the configuration and the logger alone and logs *)
(* a line other than the banner keeps what is known of them.               *)
LEMMA LoggingInv ==
  ASSUME StartupInv, NEW level, NEW what, what # "banner", NEW shows,
         lines' = lines \cup Written(level, what, shows),
         step \in {"run", "build", "serving"},
         \/ step' = step
         \/ step = "run" /\ step' = "build"
         \/ step # "serving" /\ step' = "exited",
         UNCHANGED <<env, flag, cfg, logger, burst>>
  PROVE  StartupInv'
  <1>1. Validates(cfg)' <=> Validates(cfg)
    BY DEF Validates, IsHTTPURL, ValidLevel
  <1>2. ConfigInv'
    BY <1>1, InputsStay DEF StartupInv, ConfigInv
  <1>3. LoggerInv'
    <2>1. NewLogger(cfg)' = NewLogger(cfg)
      BY DEF NewLogger, Channel, Silent
    <2> QED
      BY <2>1, InputsStay DEF StartupInv, LoggerInv, Silent
  <1>4. LinesInv'
    <2>1. Banner(cfg)' = Banner(cfg)
      BY DEF Banner, RedactValue, IsHTTPURL, NoURL
    <2> SUFFICES ASSUME NEW l \in lines'
                 PROVE  /\ l.to = "stderr" \/ (l.to = logger.channel /\ l.to # "discard")
                        /\ l.what = "banner" => step' = "serving" /\ l.shows = Banner(cfg)
      BY <2>1 DEF LinesInv
    <2>2. CASE l \in lines
      BY <2>2 DEF StartupInv, LinesInv
    <2>3. CASE l \in Written(level, what, shows)
      BY <2>3, WrittenFacts
    <2> QED
      BY <2>2, <2>3
  <1>5. BurstInv'
    <2>1. step' = "serving" => step = "serving"
      OBVIOUS
    <2> QED
      BY <2>1 DEF StartupInv, BurstInv, EffectiveBurst, Burst, Wrap
  <1>6. step' \notin {"load", "override", "log"}
    OBVIOUS
  <1> QED
    BY <1>2, <1>3, <1>4, <1>5, <1>6 DEF StartupInv

(* runHTTP and runStdio: the limiter is built and the banner logged. *)
LEMMA BuildInv ==
  ASSUME StartupInv, Build
  PROVE  StartupInv'
  <1>1. /\ step = "build" /\ step' = "serving" /\ cfg' = cfg /\ logger' = logger
        /\ lines' = lines \cup Written(Level.info, "banner", Banner(cfg))
        /\ UNCHANGED <<env, flag>>
        /\ burst' = IF cfg.mode = "http"
                    THEN <<EffectiveBurst(cfg.rateLimitGlobal),
                           EffectiveBurst(cfg.rateLimitPerClient)>>
                    ELSE burst
    BY DEF Build, Go
  <1>2. ConfigInv'
    <2>1. Validates(cfg)' <=> Validates(cfg)
      BY <1>1 DEF Validates, IsHTTPURL, ValidLevel
    <2> QED
      BY <1>1, <2>1, InputsStay DEF StartupInv, ConfigInv
  <1>3. LoggerInv'
    <2>1. NewLogger(cfg)' = NewLogger(cfg)
      BY <1>1 DEF NewLogger, Channel, Silent
    <2> QED
      BY <1>1, <2>1, InputsStay DEF StartupInv, LoggerInv, Silent
  <1>4. LinesInv'
    <2>1. Banner(cfg)' = Banner(cfg)
      BY <1>1 DEF Banner, RedactValue, IsHTTPURL, NoURL
    <2> SUFFICES ASSUME NEW l \in lines'
                 PROVE  /\ l.to = "stderr" \/ (l.to = logger.channel /\ l.to # "discard")
                        /\ l.what = "banner" => l.shows = Banner(cfg)
      BY <1>1, <2>1 DEF LinesInv
    <2>2. CASE l \in lines
      BY <2>2 DEF StartupInv, LinesInv
    <2>3. CASE l \in Written(Level.info, "banner", Banner(cfg))
      BY <2>3, WrittenFacts
    <2> QED
      BY <1>1, <2>2, <2>3
  <1>5. BurstInv'
    BY <1>1 DEF BurstInv, EffectiveBurst, Burst, Wrap
  <1> QED
    BY <1>1, <1>2, <1>3, <1>4, <1>5 DEF StartupInv

(* The SDK derives handlers: main's own state stays. *)
LEMMA UnchangedInv ==
  ASSUME StartupInv, UNCHANGED <<env, flag, step, cfg, logger, burst, lines>>
  PROVE  StartupInv'
  <1>1. Validates(cfg)' <=> Validates(cfg)
    BY DEF Validates, IsHTTPURL, ValidLevel
  <1>2. NewLogger(cfg)' = NewLogger(cfg) /\ Banner(cfg)' = Banner(cfg)
    BY DEF NewLogger, Channel, Silent, Banner, RedactValue, IsHTTPURL, NoURL
  <1>3. ConfigInv' /\ LoggerInv' /\ LinesInv'
    BY <1>1, <1>2, InputsStay DEF StartupInv, ConfigInv, LoggerInv, LinesInv, Silent
  <1>4. BurstInv'
    BY DEF StartupInv, BurstInv, EffectiveBurst, Burst, Wrap
  <1> QED
    BY <1>3, <1>4 DEF StartupInv, Silent

(* The invariant holds from the environment to the last line logged. *)
LEMMA StartupInvariant == Spec => []StartupInv
  <1>1. Init => StartupInv
    BY DEF Init, StartupInv, ConfigInv, LoggerInv, LinesInv, BurstInv
  <1>2. StartupInv /\ [Next \/ Exited]_vars => StartupInv'
    <2> SUFFICES ASSUME StartupInv, [Next \/ Exited]_vars
                 PROVE  StartupInv'
      OBVIOUS
    <2>1. CASE Load
      BY <2>1, LoadInv
    <2>2. CASE LoadFails \/ OverrideFails \/ LoggerFails
      BY <2>2, RefuseInv DEF LoadFails, OverrideFails, LoggerFails
    <2>3. CASE Override
      BY <2>3, OverrideInv
    <2>4. CASE ConfigureLogger
      BY <2>4, ConfigureLoggerInv
    <2>5. CASE BindInternal
      <3>1. /\ lines' = lines \cup Written(Level.info, "bound", NoURL)
            /\ step = "run" /\ step' = "build"
            /\ UNCHANGED <<env, flag, cfg, logger, burst>>
        BY <2>5 DEF BindInternal, Go
      <3>2. "bound" # "banner"
        OBVIOUS
      <3> QED
        BY <3>1, <3>2, LoggingInv
    <2>6. CASE BindFails
      BY <2>6, LoggingInv DEF BindFails, Go
    <2>7. CASE Build
      BY <2>7, BuildInv
    <2>8. CASE SdkLogs
      <3>1. PICK l \in DOMAIN SlogLevel :
              lines' = lines \cup Written(SlogLevel[l], "sdk", NoURL)
        BY <2>8 DEF SdkLogs
      <3>2. step = "serving" /\ UNCHANGED <<env, flag, step, cfg, logger, burst>>
        BY <2>8 DEF SdkLogs
      <3>3. "sdk" # "banner"
        OBVIOUS
      <3> QED
        BY <3>1, <3>2, <3>3, LoggingInv
    <2>9. CASE Derive \/ Exited \/ UNCHANGED vars
      BY <2>9, UnchangedInv DEF Derive, Exited, vars
    <2> QED
      BY <2>1, <2>2, <2>3, <2>4, <2>5, <2>6, <2>7, <2>8, <2>9 DEF Next
  <1> QED
    BY <1>1, <1>2, PTL DEF Spec

-----------------------------------------------------------------------------
(* The theorems *)

(* In stdio mode nothing is logged to stdout, and nothing to a file unless *)
(* LOG_LEVEL is set, whatever MODE said before the flag (logging.New,      *)
(* main).                                                                  *)
THEOREM StdoutStaysClean == Spec => []StdioKeepsStdout
  <1>1. StartupInv => StdioKeepsStdout
    <2> SUFFICES ASSUME StartupInv, cfg.mode = "stdio", NEW l \in lines
                 PROVE  l.to # "stdout" /\ (l.to = "file" => env["LOG_LEVEL"] # Unset)
      BY DEF StdioKeepsStdout
    <2>1. CASE l.to = "stderr"
      BY <2>1
    <2>2. CASE l.to = logger.channel /\ l.to # "discard"
      <3>1. logger # Silent
        BY <2>2 DEF Silent
      <3>2. cfg = Final /\ logger = NewLogger(cfg)
        BY <3>1 DEF StartupInv, LoggerInv
      <3>3. cfg.logLevel # Unset /\ logger.channel = Channel(cfg)
        BY <3>1, <3>2 DEF NewLogger
      <3>4. env["LOG_LEVEL"] # Unset
        BY <3>2, <3>3, FinalFacts
      <3> QED
        BY <2>2, <3>3, <3>4 DEF Channel
    <2> QED
      BY <2>1, <2>2 DEF StartupInv, LinesInv
  <1> QED
    BY <1>1, StartupInvariant, PTL

(* What runs is validated, with the flag before MODE before stdio and      *)
(* INTERNAL_ADDR before the legacy variable (config.Load, main).           *)
THEOREM PrecedenceHolds == Spec => []Precedence
  <1>1. StartupInv => Precedence
    <2> SUFFICES ASSUME StartupInv, Runs
                 PROVE  /\ Validates(cfg)
                        /\ cfg.mode = CASE flag # "" -> flag
                                         [] flag = "" /\ env["MODE"] # Unset -> env["MODE"]
                                         [] OTHER -> "stdio"
                        /\ Getenv("INTERNAL_ADDR") # ""
                             => cfg.internalAddr = env["INTERNAL_ADDR"]
      BY DEF Precedence
    <2>1. Validates(cfg) /\ cfg = Final
      BY DEF Runs, StartupInv, ConfigInv
    <2>2. Value("MODE") = IF env["MODE"] = Unset THEN "stdio" ELSE env["MODE"]
      BY DEF Value, Default, Variables
    <2>3. Getenv("INTERNAL_ADDR") # "" => Final.internalAddr = env["INTERNAL_ADDR"]
      BY FinalFacts DEF Loaded, Getenv, Value
    <2> QED
      BY <2>1, <2>2, <2>3, FinalFacts
  <1> QED
    BY <1>1, StartupInvariant, PTL

(* A burst that the int can hold is twice the limit. *)
LEMMA BurstFacts ==
  ASSUME NEW limit \in Nat \ {0}, limit <= MaxInt \div 2
  PROVE  EffectiveBurst(limit) = 2 * limit
  <1>1. MaxInt \in Nat /\ 2 * limit \in Nat \ {0} /\ 2 * limit <= MaxInt
    BY ParsersAssumption
  <1>2. (2 * limit) % (2 * (MaxInt + 1)) = 2 * limit
    BY <1>1
  <1>3. Wrap(2 * limit) = 2 * limit
    BY <1>1, <1>2 DEF Wrap
  <1> QED
    BY <1>1, <1>3 DEF EffectiveBurst, Burst

(* The limiter of a running server can let a request in, for every limit   *)
(* Validate accepts up to a quarter of the ints (buildHTTPHandler,         *)
(* NewRateLimiter).                                                        *)
THEOREM LimiterAdmits == Spec => []LimiterHasBurst
  <1>1. StartupInv => LimiterHasBurst
    <2> SUFFICES ASSUME StartupInv, step = "serving", cfg.mode = "http", NEW k \in 1..2,
                        <<cfg.rateLimitGlobal, cfg.rateLimitPerClient>>[k] <= MaxInt \div 2
                 PROVE  burst[k] >= 1
      BY DEF LimiterHasBurst
    <2> DEFINE limit == <<cfg.rateLimitGlobal, cfg.rateLimitPerClient>>[k]
    <2>1. cfg = Final /\ Processed /\ Validates(cfg)
      BY DEF StartupInv, ConfigInv
    <2>2. cfg.rateLimitGlobal = Number[Value("RATE_LIMIT_GLOBAL")]
          /\ cfg.rateLimitPerClient = Number[Value("RATE_LIMIT_PER_CLIENT")]
      BY <2>1 DEF Final, Loaded
    <2>3. cfg.rateLimitGlobal \in Nat \ {0} /\ cfg.rateLimitPerClient \in Nat \ {0}
      <3>1. \A text \in DOMAIN Number : Number[text] \in Int
        BY ParsersAssumption
      <3>2. cfg.rateLimitGlobal \in Int /\ cfg.rateLimitPerClient \in Int
        BY <2>1, <2>2, <3>1 DEF Processed
      <3>3. cfg.rateLimitGlobal >= 1 /\ cfg.rateLimitPerClient >= 1
        BY <2>1 DEF Validates
      <3> QED
        BY <3>2, <3>3
    <2>4. limit \in Nat \ {0} /\ burst[k] = EffectiveBurst(limit)
      <3>1. CASE k = 1
        BY <2>3, <3>1 DEF StartupInv, BurstInv
      <3>2. CASE k = 2
        BY <2>3, <3>2 DEF StartupInv, BurstInv
      <3> QED
        BY <3>1, <3>2
    <2>5. burst[k] = 2 * limit
      BY <2>4, BurstFacts
    <2> QED
      BY <2>4, <2>5
  <1> QED
    BY <1>1, StartupInvariant, PTL

(* The banner names the upstream host and hides the credentials, of every  *)
(* configuration that starts (logStartupBanner, RedactValue).              *)
THEOREM BannerIdentifies == Spec => []BannerIdentifiesUpstream
  <1>1. StartupInv => BannerIdentifiesUpstream
    <2> SUFFICES ASSUME StartupInv, NEW l \in lines, l.what = "banner"
                 PROVE  /\ l.shows.host = URL[env["SEARXNG_URL"]].host /\ l.shows.host # ""
                        /\ l.shows.user = ""
      BY DEF BannerIdentifiesUpstream
    <2>1. step = "serving" /\ l.shows = Banner(cfg)
      BY DEF StartupInv, LinesInv
    <2>2. cfg = Final /\ Processed /\ Validates(cfg)
      BY <2>1 DEF StartupInv, ConfigInv
    <2>3. cfg.searXNGURL = env["SEARXNG_URL"]
      BY <2>2, FinalFacts DEF Processed, Value
    <2>4. IsHTTPURL(env["SEARXNG_URL"])
      BY <2>2, <2>3 DEF Validates
    <2>5. /\ URL[env["SEARXNG_URL"]] \in URLType /\ URL[env["SEARXNG_URL"]].host # ""
          /\ l.shows = [URL[env["SEARXNG_URL"]] EXCEPT !.user = ""]
      BY <2>1, <2>3, <2>4, ParsersAssumption DEF IsHTTPURL, Banner, RedactValue
    <2> QED
      BY <2>5 DEF URLType
  <1> QED
    BY <1>1, StartupInvariant, PTL

-----------------------------------------------------------------------------
(* The routes *)

(* The pattern of a path wins over "/", and one pattern per path and       *)
(* method leaves no choice.                                                *)
LEMMA LookupExact ==
  ASSUME NEW mux, NEW m, NEW p, NEW pat \in mux, Matches(pat, m, p), pat.path = p,
         \A q \in mux : Matches(q, m, p) /\ q.path = p => q = pat
  PROVE  Lookup(mux, m, p) = pat.handler
  <1> DEFINE hits == {q \in mux : Matches(q, m, p)}
             exact == {q \in hits : q.path = p}
  <1>1. exact = {pat} /\ hits # {} /\ exact # {}
    OBVIOUS
  <1>2. Lookup(mux, m, p) =
          IF hits = {} THEN "none"
          ELSE (CHOOSE q \in IF exact # {} THEN exact ELSE hits : TRUE).handler
    BY DEF Lookup
  <1>3. (CHOOSE q \in {pat} : TRUE) = pat
    OBVIOUS
  <1> HIDE DEF hits, exact
  <1> QED
    BY <1>1, <1>2, <1>3

(* A ServeMux without a pattern that matches has no handler for a request. *)
LEMMA LookupNone ==
  ASSUME NEW mux, NEW m, NEW p, \A q \in mux : ~Matches(q, m, p)
  PROVE  Lookup(mux, m, p) = "none"
  BY DEF Lookup

(* A ServeMux answers with a handler it was given. *)
LEMMA LookupGiven ==
  ASSUME NEW mux, NEW m, NEW p
  PROVE  Lookup(mux, m, p) = "none" \/ \E pat \in mux : Lookup(mux, m, p) = pat.handler
  <1> DEFINE hits == {q \in mux : Matches(q, m, p)}
             best == IF {q \in hits : q.path = p} # {} THEN {q \in hits : q.path = p}
                     ELSE hits
  <1>1. CASE hits = {}
    BY <1>1 DEF Lookup
  <1>2. CASE hits # {}
    <2>1. best # {} /\ best \subseteq mux
      BY <1>2
    <2>2. (CHOOSE pat \in best : TRUE) \in best
      BY <2>1
    <2>3. Lookup(mux, m, p) = (CHOOSE pat \in best : TRUE).handler
      BY <1>2 DEF Lookup
    <2> HIDE DEF best
    <2> QED
      BY <2>1, <2>2, <2>3
  <1> QED
    BY <1>1, <1>2

(* The observability handler knows its own endpoints only. *)
LEMMA ObservabilityLookup ==
  ASSUME NEW withHealthz \in BOOLEAN
  PROVE  /\ \A m \in {"GET", "HEAD"} :
              /\ Lookup(ObservabilityMux(withHealthz), m, "/metrics") = "metrics"
              /\ withHealthz =>
                   Lookup(ObservabilityMux(withHealthz), m, "/healthz") = "healthz"
         /\ \A m, p : Lookup(ObservabilityMux(withHealthz), m, p) # "mcp"
  <1> DEFINE mux == ObservabilityMux(withHealthz)
             metrics == Pattern("GET", "/metrics", "metrics")
             healthz == Pattern("GET", "/healthz", "healthz")
             pprof == Pattern("", "/debug/pprof/", "pprof")
  <1>1. mux \subseteq {metrics, healthz, pprof} /\ metrics \in mux
        /\ (withHealthz => healthz \in mux)
    BY DEF ObservabilityMux
  <1>2. /\ metrics.path = "/metrics" /\ metrics.handler = "metrics"
        /\ healthz.path = "/healthz" /\ healthz.handler = "healthz"
        /\ pprof.path = "/debug/pprof/" /\ pprof.handler = "pprof"
    BY DEF Pattern
  <1>3. ASSUME NEW m \in {"GET", "HEAD"}
        PROVE  Matches(metrics, m, "/metrics") /\ Matches(healthz, m, "/healthz")
    BY DEF Matches, Pattern
  <1> HIDE DEF mux, metrics, healthz, pprof
  <1>4. ASSUME NEW m \in {"GET", "HEAD"}
        PROVE  /\ Lookup(mux, m, "/metrics") = "metrics"
               /\ withHealthz => Lookup(mux, m, "/healthz") = "healthz"
    <2>1. \A q \in mux : /\ q.path = "/metrics" => q = metrics
                         /\ q.path = "/healthz" => q = healthz
      BY <1>1, <1>2
    <2>2. Lookup(mux, m, "/metrics") = metrics.handler
      <3>1. metrics \in mux /\ Matches(metrics, m, "/metrics") /\ metrics.path = "/metrics"
        BY <1>1, <1>2, <1>3
      <3> QED
        BY <2>1, <3>1, LookupExact
    <2>3. ASSUME withHealthz
          PROVE  Lookup(mux, m, "/healthz") = healthz.handler
      <3>1. healthz \in mux /\ Matches(healthz, m, "/healthz") /\ healthz.path = "/healthz"
        BY <1>1, <1>2, <1>3, <2>3
      <3> QED
        BY <2>1, <3>1, LookupExact
    <2> QED
      BY <1>2, <2>2, <2>3
  <1>5. ASSUME NEW m, NEW p
        PROVE  Lookup(mux, m, p) # "mcp"
    <2>1. \A q \in mux : q.handler # "mcp"
      BY <1>1, <1>2
    <2> QED
      BY <2>1, LookupGiven
  <1> QED
    BY <1>4, <1>5 DEF mux

(* In http mode the main server answers the health check and passes        *)
(* everything else to the MCP handler (runHTTP).                           *)
LEMMA MainLookup ==
  ASSUME NEW m \in {"GET", "HEAD"}
  PROVE  LET mux == {Pattern("GET", "/healthz", "healthz"), Pattern("", "/", "mcp")}
         IN Lookup(mux, m, "/healthz") = "healthz" /\ Lookup(mux, m, "/metrics") # "metrics"
  <1> DEFINE healthz == Pattern("GET", "/healthz", "healthz")
             rest == Pattern("", "/", "mcp")
  <1>1. /\ healthz.path = "/healthz" /\ healthz.handler = "healthz"
        /\ rest.path = "/" /\ rest.handler = "mcp"
    BY DEF Pattern
  <1>2. Matches(healthz, m, "/healthz")
    BY DEF Matches, Pattern
  <1> HIDE DEF healthz, rest
  <1>3. Lookup({healthz, rest}, m, "/healthz") = "healthz"
    <2>1. \A q \in {healthz, rest} : q.path = "/healthz" => q = healthz
      BY <1>1
    <2>2. Lookup({healthz, rest}, m, "/healthz") = healthz.handler
      BY <1>1, <1>2, <2>1, LookupExact
    <2> QED
      BY <1>1, <2>2
  <1>4. Lookup({healthz, rest}, m, "/metrics") # "metrics"
    <2>1. \A q \in {healthz, rest} : q.handler # "metrics"
      BY <1>1
    <2> QED
      BY <2>1, LookupGiven
  <1> QED
    BY <1>3, <1>4 DEF healthz, rest

(* In http mode the internal server passes on the metrics alone            *)
(* (newMetricsServer).                                                     *)
LEMMA InnerLookup ==
  ASSUME NEW m \in {"GET", "HEAD"}
  PROVE  LET mux == {Pattern("GET", "/metrics", "inner")}
         IN Lookup(mux, m, "/healthz") = "none" /\ Lookup(mux, m, "/metrics") = "inner"
  <1> DEFINE inner == Pattern("GET", "/metrics", "inner")
  <1>1. inner.path = "/metrics" /\ inner.handler = "inner"
    BY DEF Pattern
  <1>2. Matches(inner, m, "/metrics") /\ ~Matches(inner, m, "/healthz")
    BY DEF Matches, Pattern
  <1> HIDE DEF inner
  <1>3. Lookup({inner}, m, "/healthz") = "none"
    BY <1>2, LookupNone
  <1>4. Lookup({inner}, m, "/metrics") = inner.handler
    BY <1>1, <1>2, LookupExact
  <1> QED
    BY <1>1, <1>3, <1>4 DEF inner

(* Both modes answer each probe in one place, and never the clients' calls *)
(* on the internal address (runHTTP, newMetricsServer, runStdio).          *)
THEOREM ProbesHaveAPlace == Spec => []ProbesAnswered
  <1>1. StartupInv /\ Runs => cfg.mode \in {"http", "stdio"}
    BY DEF StartupInv, ConfigInv, Runs, Validates
  <1>2. ASSUME cfg.mode = "http", NEW m \in {"GET", "HEAD"}
        PROVE  /\ Route("main", m, "/healthz") = "healthz"
               /\ Route("internal", m, "/healthz") = "none"
               /\ Route("main", m, "/metrics") # "metrics"
               /\ Route("internal", m, "/metrics") = "metrics"
    BY <1>2, MainLookup, InnerLookup, ObservabilityLookup DEF Route
  <1>3. ASSUME cfg.mode = "stdio", NEW m \in {"GET", "HEAD"}
        PROVE  /\ Route("main", m, "/healthz") = "none"
               /\ Route("internal", m, "/healthz") = "healthz"
               /\ Route("main", m, "/metrics") # "metrics"
               /\ Route("internal", m, "/metrics") = "metrics"
    BY <1>3, ObservabilityLookup DEF Route
  <1>4. ASSUME cfg.mode \in {"http", "stdio"}, NEW m, NEW p
        PROVE  Route("internal", m, p) # "mcp"
    <2>1. CASE cfg.mode = "http"
      BY <2>1, ObservabilityLookup DEF Route
    <2>2. CASE cfg.mode = "stdio"
      BY <2>2, ObservabilityLookup DEF Route
    <2> QED
      BY <1>4, <2>1, <2>2
  <1>5. StartupInv => ProbesAnswered
    <2> SUFFICES ASSUME StartupInv, Runs, NEW m \in {"GET", "HEAD"}
                 PROVE  /\ Cardinality({s \in Servers : Route(s, m, "/healthz") = "healthz"}) = 1
                        /\ {s \in Servers : Route(s, m, "/metrics") = "metrics"} = {"internal"}
      BY <1>1, <1>4 DEF ProbesAnswered
    <2>1. CASE cfg.mode = "http"
      <3>1. {s \in Servers : Route(s, m, "/healthz") = "healthz"} = {"main"}
        BY <1>2, <2>1 DEF Servers
      <3>2. {s \in Servers : Route(s, m, "/metrics") = "metrics"} = {"internal"}
        BY <1>2, <2>1 DEF Servers
      <3> QED
        BY <3>1, <3>2, FS_Singleton
    <2>2. CASE cfg.mode = "stdio"
      <3>1. {s \in Servers : Route(s, m, "/healthz") = "healthz"} = {"internal"}
        BY <1>3, <2>2 DEF Servers
      <3>2. {s \in Servers : Route(s, m, "/metrics") = "metrics"} = {"internal"}
        BY <1>3, <2>2 DEF Servers
      <3> QED
        BY <3>1, <3>2, FS_Singleton
    <2> QED
      BY <1>1, <2>1, <2>2
  <1> QED
    BY <1>5, StartupInvariant, PTL
=============================================================================
