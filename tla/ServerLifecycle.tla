-------------------------- MODULE ServerLifecycle --------------------------
(***************************************************************************)
(* The life of the process (cmd/server/main.go), from Run to the exit, in  *)
(* both launch modes: the main goroutine, one goroutine per HTTP server,   *)
(* the requests in flight, the signal, and the 30 s shutdown deadline.     *)
(*                                                                         *)
(* The servers are Go's net/http ones: Shutdown marks the server, closes   *)
(* its listener, waits for Serve to let go of it, and then polls until no  *)
(* request is in flight or its context is done.                            *)
(***************************************************************************)
EXTENDS Naturals, Sequences

CONSTANTS
  MainRequests,     \* requests a client may send to the MCP listen address
  MetricsRequests   \* requests a client may send to INTERNAL_ADDR

Servers == {"main", "metrics"}
Requests == MainRequests \cup MetricsRequests
ServerOf(r) == IF r \in MainRequests THEN "main" ELSE "metrics"

VARIABLES
  mode,          \* cfg.Mode
  pc,            \* where the main goroutine is
  listener,      \* state of the listener of each server
  cancelled,     \* ctx of signal.NotifyContext is cancelled
  serve,         \* the goroutine that runs each server
  shutting,      \* Shutdown was called on the server
  errCh,         \* the buffered channel of server errors
  limiter,       \* the rate limiter's eviction goroutine
  resty,         \* the shared outbound HTTP client
  session,       \* the MCP session on stdin and stdout
  req,           \* progress of each request
  timer,         \* the 30 s of shutdownCtx
  result         \* what Run returns

runVars == <<mode, pc>>
serverVars == <<listener, serve, shutting, errCh>>
depVars == <<limiter, resty>>
vars == <<runVars, cancelled, serverVars, depVars, session, req, timer, result>>

(* The main goroutine moves from one place of the code to another. *)
Goto(from, to) == pc = from /\ pc' = to /\ UNCHANGED mode

(* No listener is left open. *)
Unbound ==
  [s \in Servers |-> IF listener[s] = "open" THEN "closed" ELSE listener[s]]

-----------------------------------------------------------------------------
(* Run *)

BindObservability ==
  /\ Goto("bindObservability", "notify")
  /\ listener' = [listener EXCEPT !["metrics"] = "open"]
  /\ UNCHANGED <<cancelled, serve, shutting, errCh, depVars, session, req, timer,
                 result>>

BindObservabilityFails ==
  /\ Goto("bindObservability", "return")
  /\ listener' = [listener EXCEPT !["metrics"] = "failed"]
  /\ result' = "error"
  /\ UNCHANGED <<cancelled, serve, shutting, errCh, depVars, session, req, timer>>

(* From here on a signal cancels ctx instead of killing the process. *)
NotifyContext ==
  /\ Goto("notify", IF mode = "stdio" THEN "build" ELSE "bindMain")
  /\ UNCHANGED <<cancelled, serverVars, depVars, session, req, timer, result>>

BindMain ==
  /\ Goto("bindMain", "build")
  /\ listener' = [listener EXCEPT !["main"] = "open"]
  /\ UNCHANGED <<cancelled, serve, shutting, errCh, depVars, session, req, timer,
                 result>>

BindMainFails ==
  /\ Goto("bindMain", "return")
  /\ listener' = [listener EXCEPT !["main"] = "failed"]
  /\ result' = "error"
  /\ UNCHANGED <<cancelled, serve, shutting, errCh, depVars, session, req, timer>>

(* buildServer, and buildHTTPHandler in http mode: the resty client, the   *)
(* tools and the rate limiter.                                             *)
Build ==
  /\ Goto("build", "banner")
  /\ resty' = "open"
  /\ limiter' = IF mode = "http" THEN "running" ELSE "none"
  /\ UNCHANGED <<cancelled, serverVars, session, req, timer, result>>

LogStartupBanner ==
  /\ Goto("banner", "launch")
  /\ UNCHANGED <<cancelled, serverVars, depVars, session, req, timer, result>>

LaunchBoth ==
  /\ Goto("launch", IF mode = "http" THEN "await" ELSE "run")
  /\ serve' = [s \in Servers |-> "spawned"]
  /\ session' = IF mode = "stdio" THEN "open" ELSE "none"
  /\ UNCHANGED <<cancelled, listener, shutting, errCh, depVars, req, timer, result>>

(* The go statements of runHTTP and runStdio; srv.Run opens the session. *)
Launch ==
  /\ Goto("launch", IF mode = "http" THEN "await" ELSE "run")
  /\ serve' = [s \in Servers |->
                 IF s = "metrics" \/ mode = "http" THEN "spawned" ELSE "none"]
  /\ session' = IF mode = "stdio" THEN "open" ELSE "none"
  /\ UNCHANGED <<cancelled, listener, shutting, errCh, depVars, req, timer, result>>

-----------------------------------------------------------------------------
(* The goroutines that run the servers: serve, and the closure of runStdio *)

ErrChCapacityOne == 1

(* "buffered to hold both if both fail" in http mode, one in stdio mode. *)
ErrChCapacity == IF mode = "http" THEN 2 ELSE 1

(* http.Server.Serve; after Shutdown it closes its listener and returns    *)
(* ErrServerClosed at once.                                                *)
ServeStarts(s) ==
  /\ serve[s] = "spawned"
  /\ IF shutting[s]
     THEN /\ serve' = [serve EXCEPT ![s] = "done"]
          /\ listener' = [listener EXCEPT ![s] = "closed"]
     ELSE /\ serve' = [serve EXCEPT ![s] = "serving"]
          /\ UNCHANGED listener
  /\ UNCHANGED <<runVars, cancelled, shutting, errCh, depVars, session, req, timer,
                 result>>

(* ErrServerClosed is not an error. *)
ServeStops(s) ==
  /\ serve[s] = "serving"
  /\ shutting[s]
  /\ serve' = [serve EXCEPT ![s] = "done"]
  /\ UNCHANGED <<runVars, cancelled, listener, shutting, errCh, depVars, session,
                 req, timer, result>>

(* Accept fails for good: Serve closes its listener and returns an error.  *)
ServeFails(s) ==
  /\ serve[s] = "serving"
  /\ ~shutting[s]
  /\ serve' = [serve EXCEPT ![s] = "sending"]
  /\ listener' = [listener EXCEPT ![s] = "closed"]
  /\ UNCHANGED <<runVars, cancelled, shutting, errCh, depVars, session, req, timer,
                 result>>

(* errCh <- err *)
SendError(s) ==
  /\ serve[s] = "sending"
  /\ Len(errCh) < ErrChCapacity
  /\ errCh' = Append(errCh, s)
  /\ serve' = [serve EXCEPT ![s] = "done"]
  /\ UNCHANGED <<runVars, cancelled, listener, shutting, depVars, session, req,
                 timer, result>>

ServeGoroutine(s) ==
  ServeStarts(s) \/ ServeStops(s) \/ SendError(s)

-----------------------------------------------------------------------------
(* Requests *)

(* Shutdown has returned; the connections it did not close are busy. *)
ShutdownEnded(s) ==
  pc \in {"conclude", "return", "returned", "exited"}
           \cup IF s = "main" THEN {"shutdownMetrics", "drainMetrics"} ELSE {}

Accepts(s) == serve[s] = "serving" /\ listener[s] = "open"

(* An idle connection outlives the listener until Shutdown closes it. *)
KeptAlive(s) ==
  /\ \E r \in Requests : ServerOf(r) = s /\ req[r] = "done"
  /\ ~ShutdownEnded(s)

(* A request comes, on a new or an idle connection; its handler starts. *)
Arrive(r) ==
  /\ Accepts(ServerOf(r)) \/ KeptAlive(ServerOf(r))
  /\ req[r] = "idle"
  /\ req' = [req EXCEPT ![r] = "active"]
  /\ UNCHANGED <<runVars, cancelled, serverVars, depVars, session, timer, result>>

(* The response is complete.  Nothing makes a handler finish in time. *)
Finish(r) ==
  /\ req[r] = "active"
  /\ pc # "exited"
  /\ req' = [req EXCEPT ![r] = "done"]
  /\ UNCHANGED <<runVars, cancelled, serverVars, depVars, session, timer, result>>

Quiescent(s) == \A r \in Requests : ServerOf(r) = s => req[r] # "active"

-----------------------------------------------------------------------------
(* What ends the service: a signal, the client, the transport, a server    *)

(* SIGTERM or SIGINT.  Before NotifyContext it kills the process. *)
Signal ==
  /\ pc \notin {"bindObservability", "notify", "returned", "exited", "killed"}
  /\ ~cancelled
  /\ cancelled' = TRUE
  /\ UNCHANGED <<runVars, serverVars, depVars, session, req, timer, result>>

EarlySignal ==
  /\ pc \in {"bindObservability", "notify"}
  /\ pc' = "killed"
  /\ listener' = Unbound
  /\ UNCHANGED <<mode, cancelled, serve, shutting, errCh, depVars, session, req,
                 timer, result>>

(* The MCP client closes stdin, or the transport breaks. *)
SessionEnds ==
  /\ session = "open"
  /\ pc = "run"
  /\ session' \in {"ended", "failed"}
  /\ UNCHANGED <<runVars, cancelled, serverVars, depVars, req, timer, result>>

(* mcp.Server.Run returns once the session is over or ctx is cancelled;    *)
(* runStdio then gives the metrics server its 30 s, whatever became of ctx.*)
RunReturns ==
  /\ session # "open" \/ cancelled
  /\ Goto("run", "shutdownMetrics")
  /\ timer' = "running"
  /\ UNCHANGED <<cancelled, serverVars, depVars, session, req, result>>

AwaitSignalOnly ==
  /\ cancelled
  /\ Goto("await", "stopLimiter")
  /\ timer' = "running"
  /\ UNCHANGED <<cancelled, serverVars, depVars, session, req, result>>

(* The select of awaitAndShutdown, and the shutdown context it makes. *)
Await ==
  /\ Goto("await", "stopLimiter")
  /\ \/ cancelled /\ UNCHANGED errCh
     \/ errCh # <<>> /\ errCh' = Tail(errCh)
  /\ timer' = "running"
  /\ UNCHANGED <<cancelled, listener, serve, shutting, depVars, session, req, result>>

-----------------------------------------------------------------------------
(* Shutdown *)

TimerExpires ==
  /\ timer = "running"
  /\ timer' = "expired"
  /\ UNCHANGED <<runVars, cancelled, serverVars, depVars, session, req, result>>

GraceNeverOver == FALSE

(* shutdownCtx is done.  awaitAndShutdown derives it from ctx, runStdio    *)
(* from context.WithoutCancel(ctx).                                        *)
GraceOver == timer = "expired" \/ (mode = "http" /\ cancelled)

StopLimiter ==
  /\ Goto("stopLimiter", "shutdownMain")
  /\ limiter' = "stopped"
  /\ UNCHANGED <<cancelled, serverVars, resty, session, req, timer, result>>

ShutdownMetricsFirst(s) ==
  /\ IF s = "main" THEN Goto("shutdownMain", "drainMain")
                   ELSE Goto("shutdownMetrics", "drainMetrics")
  /\ shutting' = [shutting EXCEPT ![s] = TRUE, !["metrics"] = TRUE]
  /\ listener' = [listener EXCEPT ![s] = "closed", !["metrics"] = "closed"]
  /\ UNCHANGED <<cancelled, serve, errCh, depVars, session, req, timer, result>>

(* Shutdown begins: the server is marked and the listener it serves is     *)
(* closed; a listener Serve has not taken yet stays open.                  *)
BeginShutdown(s) ==
  /\ IF s = "main" THEN Goto("shutdownMain", "drainMain")
                   ELSE Goto("shutdownMetrics", "drainMetrics")
  /\ shutting' = [shutting EXCEPT ![s] = TRUE]
  /\ listener' = IF serve[s] = "serving"
                 THEN [listener EXCEPT ![s] = "closed"] ELSE listener
  /\ UNCHANGED <<cancelled, serve, errCh, depVars, session, req, timer, result>>

DrainWithoutWaiting(s) == serve[s] # "serving"

(* Shutdown ends when no request is in flight, or gives up. *)
DrainOver(s) == serve[s] # "serving" /\ (Quiescent(s) \/ GraceOver)

EndShutdown(s) ==
  /\ DrainOver(s)
  /\ IF s = "main"
     THEN Goto("drainMain", "shutdownMetrics")
     ELSE Goto("drainMetrics", IF mode = "stdio" THEN "conclude" ELSE "return")
  /\ result' = IF s = "metrics" /\ mode = "http" THEN "nil" ELSE result
  /\ UNCHANGED <<cancelled, serverVars, depVars, session, req, timer>>

(* The last lines of runStdio: a cancelled ctx hides the transport error. *)
ConcludeStdio ==
  /\ Goto("conclude", "return")
  /\ result' = IF ~cancelled /\ session = "failed" THEN "error" ELSE "nil"
  /\ UNCHANGED <<cancelled, serverVars, depVars, session, req, timer>>

ReturnLeavingListeners ==
  /\ Goto("return", "returned")
  /\ resty' = IF resty = "open" THEN "closed" ELSE resty
  /\ UNCHANGED <<cancelled, serverVars, limiter, session, req, timer, result>>

(* The deferred calls of runHTTP, runStdio and Run. *)
Return ==
  /\ Goto("return", "returned")
  /\ resty' = IF resty = "open" THEN "closed" ELSE resty
  /\ listener' = Unbound
  /\ UNCHANGED <<cancelled, serve, shutting, errCh, limiter, session, req, timer,
                 result>>

(* main returns, or ends in logger.Fatalf: what is in flight is lost. *)
Exit ==
  /\ Goto("returned", "exited")
  /\ req' = [r \in Requests |-> IF req[r] = "active" THEN "cut" ELSE req[r]]
  /\ UNCHANGED <<cancelled, serverVars, depVars, session, timer, result>>

-----------------------------------------------------------------------------
Init ==
  /\ mode \in {"http", "stdio"}
  /\ pc = "bindObservability"
  /\ listener = [s \in Servers |-> "none"]
  /\ cancelled = FALSE
  /\ serve = [s \in Servers |-> "none"]
  /\ shutting = [s \in Servers |-> FALSE]
  /\ errCh = <<>>
  /\ limiter = "none"
  /\ resty = "none"
  /\ session = "none"
  /\ req = [r \in Requests |-> "idle"]
  /\ timer = "off"
  /\ result = "none"

MainGoroutine ==
  \/ BindObservability \/ BindObservabilityFails
  \/ NotifyContext
  \/ BindMain \/ BindMainFails
  \/ Build \/ LogStartupBanner \/ Launch
  \/ RunReturns \/ Await
  \/ StopLimiter
  \/ \E s \in Servers : BeginShutdown(s) \/ EndShutdown(s)
  \/ ConcludeStdio \/ Return \/ Exit

(* The process is gone. *)
Terminated == pc \in {"exited", "killed"} /\ UNCHANGED vars

Running == pc \notin {"exited", "killed"}

Next ==
  \/ MainGoroutine
  \/ Running /\ \E s \in Servers : ServeGoroutine(s) \/ ServeFails(s)
  \/ Running /\ \E r \in Requests : Arrive(r) \/ Finish(r)
  \/ Running /\ TimerExpires
  \/ Signal \/ EarlySignal \/ SessionEnds
  \/ Terminated

Spec == Init /\ [][Next]_vars

(* Goroutines are scheduled and the deadline's timer runs.  Nothing makes  *)
(* a handler finish, a server fail, a session end or a signal arrive.      *)
FairSpec ==
  /\ Spec
  /\ WF_vars(MainGoroutine)
  /\ \A s \in Servers : WF_vars(Running /\ ServeGoroutine(s))
  /\ WF_vars(Running /\ TimerExpires)

-----------------------------------------------------------------------------
(* The types, and what each launch mode never has: stdio neither a main    *)
(* server nor a rate limiter, http no session on stdin (runStdio, runHTTP).*)
TypeOK ==
  /\ mode \in {"http", "stdio"}
  /\ pc \in {"bindObservability", "notify", "bindMain", "build", "banner", "launch",
             "await", "run", "stopLimiter", "shutdownMain", "drainMain",
             "shutdownMetrics", "drainMetrics", "conclude", "return", "returned",
             "exited", "killed"}
  /\ listener \in [Servers -> {"none", "open", "closed", "failed"}]
  /\ cancelled \in BOOLEAN
  /\ serve \in [Servers -> {"none", "spawned", "serving", "sending", "done"}]
  /\ shutting \in [Servers -> BOOLEAN]
  /\ errCh \in Seq(Servers) /\ Len(errCh) <= ErrChCapacity
  /\ limiter \in {"none", "running", "stopped"}
  /\ resty \in {"none", "open", "closed"}
  /\ session \in {"none", "open", "ended", "failed"}
  /\ req \in [Requests -> {"idle", "active", "done", "cut"}]
  /\ timer \in {"off", "running", "expired"}
  /\ result \in {"none", "nil", "error"}
  /\ mode = "stdio" =>
       limiter = "none" /\ listener["main"] = "none" /\ serve["main"] = "none"
  /\ mode = "http" => session = "none"

(* When Run returns, by whatever path, nothing it acquired is still held:  *)
(* no listener is bound, the eviction goroutine was told to stop and the   *)
(* outbound client is closed (the defers of Run, runHTTP and runStdio).    *)
ResourcesReleased ==
  pc \in {"returned", "exited"} =>
    /\ \A s \in Servers : listener[s] # "open"
    /\ limiter # "running"
    /\ resty # "open"

(* A server goroutine never blocks on errCh: "buffered to hold both if     *)
(* both fail" (main.go:324), although at most one error is ever received   *)
(* and, in stdio mode, none.                                               *)
NoSenderBlocked ==
  \A s \in Servers : serve[s] = "sending" => Len(errCh) < ErrChCapacity

(* No request that was being served when Run returned was denied its       *)
(* grace: either the 30 s were over, or ctx, which bounds them in http     *)
(* mode, had been cancelled (awaitAndShutdown, runStdio).                  *)
RequestsGetGrace ==
  \A r \in Requests :
    pc \in {"return", "returned", "exited"} /\ req[r] \in {"active", "cut"} => GraceOver

(* "gracefully shut both servers down in order" (main.go:330): while       *)
(* requests to the main server are being drained, the metrics server still *)
(* answers.                                                                *)
MetricsOutliveMain ==
  mode = "http" /\ shutting["metrics"] =>
    /\ shutting["main"]
    /\ serve["main"] # "serving"
    /\ Quiescent("main") \/ GraceOver

(* A signal ends the process, even when a handler never finishes           *)
(* (signal.NotifyContext, the deadline of shutdownCtx).                    *)
SignalEndsProcess == cancelled ~> pc = "exited"

(* In http mode the failure of either server ends the process, so a        *)
(* supervisor can restart it (awaitAndShutdown's receive from errCh).      *)
ServerFailureEndsProcess ==
  \A s \in Servers : mode = "http" /\ serve[s] = "sending" ~> pc = "exited"

(* "awaitAndShutdown blocks until ctx is cancelled or a server reports an  *)
(* error, then gracefully shuts down the main and metrics HTTP servers"    *)
(* (main.go:398): a request in flight is cut only when the 30 s of         *)
(* shutdownTimeout are over.                                               *)
GracefulShutdown == \A r \in Requests : req[r] = "cut" => timer = "expired"
=============================================================================
