----------------------- MODULE ServerLifecycleProofs -----------------------
(***************************************************************************)
(* Proofs about ServerLifecycle, in both launch modes and for any requests *)
(* to either server.                                                       *)
(***************************************************************************)
EXTENDS ServerLifecycle, TLAPS

-----------------------------------------------------------------------------
(* The inductive invariant *)

(* Each mode has its own places in the code (runStdio, runHTTP). *)
PlacesOfMode ==
  /\ mode = "http" => pc \notin {"run", "conclude"}
  /\ mode = "stdio" =>
       pc \notin {"bindMain", "await", "stopLimiter", "shutdownMain", "drainMain"}

(* Nothing runs before the go statements. *)
NotLaunched ==
  pc \in {"bindObservability", "notify", "bindMain", "build", "banner", "launch"} =>
    errCh = <<>> /\ \A s \in Servers : serve[s] = "none" /\ ~shutting[s]

(* A server that never served has had no request. *)
NoEarlyRequest ==
  \A r \in Requests : serve[ServerOf(r)] \in {"none", "spawned"} => req[r] = "idle"

(* The eviction goroutine runs from Build until it is told to stop, which  *)
(* every way on from there does.                                           *)
LimiterOwned ==
  limiter = "running" => mode = "http" /\ pc \in {"banner", "launch", "await", "stopLimiter"}

Ended(s) == IF serve[s] = "done" THEN 1 ELSE 0

(* A server goroutine reports one error and ends. *)
OneErrorEach == Len(errCh) <= Ended("main") + Ended("metrics")

(* The main server is shut down before the metrics server, and a server    *)
(* before it is drained.                                                   *)
ShutdownOrder ==
  /\ pc = "drainMain" => shutting["main"]
  /\ pc = "drainMetrics" => shutting["metrics"]
  /\ shutting["metrics"] => pc \in {"drainMetrics", "conclude", "return", "returned", "exited"}
  /\ mode = "http" /\ (shutting["metrics"] \/ pc = "shutdownMetrics") => shutting["main"]

(* The server serves no more, and neither does it a request it accepted,   *)
(* unless the grace is over.                                               *)
Drained(s) ==
  /\ serve[s] # "serving"
  /\ serve[s] = "spawned" => shutting[s]
  /\ Quiescent(s) \/ GraceOver

DrainedInOrder == \A s \in Servers : ShutdownEnded(s) => Drained(s)

(* Only the end of the process cuts a request, and only after its grace. *)
CutAtExit == \A r \in Requests : req[r] = "cut" => pc = "exited" /\ GraceOver

LifecycleInv ==
  /\ TypeOK /\ PlacesOfMode /\ NotLaunched /\ NoEarlyRequest
  /\ LimiterOwned /\ OneErrorEach /\ ShutdownOrder
  /\ DrainedInOrder /\ CutAtExit /\ ResourcesReleased

-----------------------------------------------------------------------------
(* The invariant is inductive *)

(* Every request goes to one of the two servers. *)
LEMMA ServerKnown == \A r \in Requests : ServerOf(r) \in Servers
  BY DEF ServerOf, Servers

(* Closing what is open leaves nothing open (the deferred Close calls). *)
LEMMA UnboundType ==
  ASSUME listener \in [Servers -> {"none", "open", "closed", "failed"}]
  PROVE  /\ Unbound \in [Servers -> {"none", "closed", "failed"}]
         /\ \A s \in Servers : listener[s] = "none" => Unbound[s] = "none"
  BY DEF Unbound

(* The initial state satisfies the invariant. *)
LEMMA LifecycleInit == Init => LifecycleInv
  <1> SUFFICES ASSUME Init PROVE LifecycleInv
    OBVIOUS
  <1>1. TypeOK
    <2>1. errCh \in Seq(Servers) /\ Len(errCh) <= ErrChCapacity
      BY DEF Init, ErrChCapacity
    <2>2. /\ listener \in [Servers -> {"none", "open", "closed", "failed"}]
          /\ serve \in [Servers -> {"none", "spawned", "serving", "sending", "done"}]
          /\ listener["main"] = "none" /\ serve["main"] = "none"
      BY DEF Init, Servers
    <2> QED
      BY <2>1, <2>2 DEF Init, TypeOK
  <1>2. PlacesOfMode /\ LimiterOwned /\ ResourcesReleased
    BY DEF Init, PlacesOfMode, LimiterOwned, ResourcesReleased
  <1>6. NotLaunched /\ ShutdownOrder
    BY DEF Init, NotLaunched, ShutdownOrder, Servers
  <1>3. NoEarlyRequest /\ CutAtExit
    BY DEF Init, NoEarlyRequest, CutAtExit
  <1>4. OneErrorEach
    BY DEF Init, OneErrorEach, Ended, Servers
  <1>5. DrainedInOrder
    BY DEF Init, DrainedInOrder, ShutdownEnded
  <1> QED
    BY <1>1, <1>2, <1>3, <1>4, <1>5, <1>6 DEF LifecycleInv

(* Binding the internal listener, or failing to. *)
LEMMA BindObservabilityInv ==
  ASSUME LifecycleInv, BindObservability \/ BindObservabilityFails
  PROVE  LifecycleInv'
  <1>1. TypeOK'
    BY DEF LifecycleInv, TypeOK, ErrChCapacity, BindObservability, BindObservabilityFails,
           Goto, depVars, Servers
  <1>2. PlacesOfMode'
    BY DEF PlacesOfMode, BindObservability, BindObservabilityFails, Goto
  <1>3. NotLaunched'
    BY DEF LifecycleInv, NotLaunched, BindObservability, BindObservabilityFails, Goto
  <1>4. NoEarlyRequest'
    BY ServerKnown DEF LifecycleInv, NoEarlyRequest, BindObservability,
                       BindObservabilityFails
  <1>5. LimiterOwned'
    BY DEF LifecycleInv, LimiterOwned, BindObservability, BindObservabilityFails, Goto,
           depVars
  <1>6. OneErrorEach'
    BY DEF LifecycleInv, OneErrorEach, Ended, BindObservability, BindObservabilityFails
  <1>7. ShutdownOrder'
    BY DEF LifecycleInv, ShutdownOrder, BindObservability, BindObservabilityFails, Goto
  <1>8. DrainedInOrder'
    BY DEF LifecycleInv, DrainedInOrder, Drained, Quiescent, BindObservability,
           BindObservabilityFails, Goto, NotLaunched, NoEarlyRequest
  <1>9. CutAtExit'
    BY DEF LifecycleInv, CutAtExit, BindObservability, BindObservabilityFails, Goto
  <1>10. ResourcesReleased'
    BY DEF ResourcesReleased, BindObservability, BindObservabilityFails, Goto
  <1> QED
    BY <1>1, <1>2, <1>3, <1>4, <1>5, <1>6, <1>7, <1>8, <1>9, <1>10 DEF LifecycleInv

(* Taking over the signals. *)
LEMMA NotifyContextInv ==
  ASSUME LifecycleInv, NotifyContext
  PROVE  LifecycleInv'
  <1>1. TypeOK'
    BY DEF LifecycleInv, TypeOK, ErrChCapacity, NotifyContext, Goto, serverVars, depVars
  <1>2. PlacesOfMode'
    BY DEF PlacesOfMode, NotifyContext, Goto
  <1>3. NotLaunched'
    BY DEF LifecycleInv, NotLaunched, NotifyContext, Goto, serverVars
  <1>4. NoEarlyRequest'
    BY ServerKnown DEF LifecycleInv, NoEarlyRequest, NotifyContext, serverVars
  <1>5. LimiterOwned'
    BY DEF LifecycleInv, LimiterOwned, NotifyContext, Goto, depVars
  <1>6. OneErrorEach'
    BY DEF LifecycleInv, OneErrorEach, Ended, NotifyContext, serverVars
  <1>7. ShutdownOrder'
    BY DEF LifecycleInv, ShutdownOrder, NotifyContext, Goto, serverVars
  <1>8. DrainedInOrder'
    BY DEF DrainedInOrder, ShutdownEnded, NotifyContext, Goto
  <1>9. CutAtExit'
    BY DEF LifecycleInv, CutAtExit, NotifyContext, Goto
  <1>10. ResourcesReleased'
    BY DEF ResourcesReleased, NotifyContext, Goto
  <1> QED
    BY <1>1, <1>2, <1>3, <1>4, <1>5, <1>6, <1>7, <1>8, <1>9, <1>10 DEF LifecycleInv

(* Binding the main listener, or failing to. *)
LEMMA BindMainInv ==
  ASSUME LifecycleInv, BindMain \/ BindMainFails
  PROVE  LifecycleInv'
  <1>1. TypeOK'
    BY DEF LifecycleInv, TypeOK, ErrChCapacity, BindMain, BindMainFails, Goto, depVars,
           PlacesOfMode
  <1>2. PlacesOfMode'
    BY DEF PlacesOfMode, BindMain, BindMainFails, Goto
  <1>3. NotLaunched'
    BY DEF LifecycleInv, NotLaunched, BindMain, BindMainFails, Goto
  <1>4. NoEarlyRequest'
    BY ServerKnown DEF LifecycleInv, NoEarlyRequest, BindMain, BindMainFails
  <1>5. LimiterOwned'
    BY DEF LifecycleInv, LimiterOwned, BindMain, BindMainFails, Goto, depVars
  <1>6. OneErrorEach'
    BY DEF LifecycleInv, OneErrorEach, Ended, BindMain, BindMainFails
  <1>7. ShutdownOrder'
    BY DEF LifecycleInv, ShutdownOrder, BindMain, BindMainFails, Goto
  <1>8. DrainedInOrder'
    BY DEF LifecycleInv, DrainedInOrder, Drained, Quiescent, BindMain, BindMainFails, Goto,
           NotLaunched, NoEarlyRequest
  <1>9. CutAtExit'
    BY DEF LifecycleInv, CutAtExit, BindMain, BindMainFails, Goto
  <1>10. ResourcesReleased'
    BY DEF ResourcesReleased, BindMain, BindMainFails, Goto
  <1> QED
    BY <1>1, <1>2, <1>3, <1>4, <1>5, <1>6, <1>7, <1>8, <1>9, <1>10 DEF LifecycleInv

(* Building the server and its limiter. *)
LEMMA BuildInv ==
  ASSUME LifecycleInv, Build \/ LogStartupBanner
  PROVE  LifecycleInv'
  <1>1. TypeOK'
    BY DEF LifecycleInv, TypeOK, ErrChCapacity, Build, LogStartupBanner, Goto, serverVars,
           depVars
  <1>2. PlacesOfMode'
    BY DEF PlacesOfMode, Build, LogStartupBanner, Goto
  <1>3. NotLaunched'
    BY DEF LifecycleInv, NotLaunched, Build, LogStartupBanner, Goto, serverVars
  <1>4. NoEarlyRequest'
    BY ServerKnown DEF LifecycleInv, NoEarlyRequest, Build, LogStartupBanner, serverVars
  <1>5. LimiterOwned'
    BY DEF LifecycleInv, LimiterOwned, Build, LogStartupBanner, Goto, depVars
  <1>6. OneErrorEach'
    BY DEF LifecycleInv, OneErrorEach, Ended, Build, LogStartupBanner, serverVars
  <1>7. ShutdownOrder'
    BY DEF LifecycleInv, ShutdownOrder, Build, LogStartupBanner, Goto, serverVars
  <1>8. DrainedInOrder'
    BY DEF DrainedInOrder, ShutdownEnded, Build, LogStartupBanner, Goto
  <1>9. CutAtExit'
    BY DEF LifecycleInv, CutAtExit, Build, LogStartupBanner, Goto
  <1>10. ResourcesReleased'
    BY DEF ResourcesReleased, Build, LogStartupBanner, Goto
  <1> QED
    BY <1>1, <1>2, <1>3, <1>4, <1>5, <1>6, <1>7, <1>8, <1>9, <1>10 DEF LifecycleInv

(* The go statements. *)
LEMMA LaunchInv ==
  ASSUME LifecycleInv, Launch
  PROVE  LifecycleInv'
  <1>1. TypeOK'
    BY DEF LifecycleInv, TypeOK, ErrChCapacity, Launch, Goto, depVars, Servers
  <1>2. PlacesOfMode'
    BY DEF PlacesOfMode, Launch, Goto
  <1>3. NotLaunched'
    BY DEF NotLaunched, Launch, Goto
  <1>4. NoEarlyRequest'
    BY ServerKnown DEF LifecycleInv, NoEarlyRequest, Launch, Goto, NotLaunched
  <1>5. LimiterOwned'
    BY DEF LifecycleInv, LimiterOwned, Launch, Goto, depVars
  <1>6. OneErrorEach'
    BY DEF LifecycleInv, OneErrorEach, Ended, Launch, Goto, NotLaunched
  <1>7. ShutdownOrder'
    BY DEF LifecycleInv, ShutdownOrder, Launch, Goto
  <1>8. DrainedInOrder'
    BY DEF DrainedInOrder, ShutdownEnded, Launch, Goto
  <1>9. CutAtExit'
    BY DEF LifecycleInv, CutAtExit, Launch, Goto
  <1>10. ResourcesReleased'
    BY DEF ResourcesReleased, Launch, Goto
  <1> QED
    BY <1>1, <1>2, <1>3, <1>4, <1>5, <1>6, <1>7, <1>8, <1>9, <1>10 DEF LifecycleInv

(* A server goroutine starts. *)
LEMMA ServeStartsInv ==
  ASSUME LifecycleInv, NEW z \in Servers, ServeStarts(z)
  PROVE  LifecycleInv'
  <1>1. TypeOK'
    BY DEF LifecycleInv, TypeOK, ErrChCapacity, ServeStarts, runVars, depVars, Servers
  <1>2. PlacesOfMode'
    BY DEF LifecycleInv, PlacesOfMode, ServeStarts, runVars
  <1>3. NotLaunched'
    BY DEF LifecycleInv, NotLaunched, ServeStarts, runVars
  <1>4. NoEarlyRequest'
    BY ServerKnown DEF LifecycleInv, TypeOK, NoEarlyRequest, ServeStarts
  <1>5. LimiterOwned'
    BY DEF LifecycleInv, LimiterOwned, ServeStarts, runVars, depVars
  <1>6. OneErrorEach'
    BY DEF LifecycleInv, TypeOK, OneErrorEach, Ended, ServeStarts, Servers
  <1>7. ShutdownOrder'
    BY DEF LifecycleInv, ShutdownOrder, ServeStarts, runVars
  <1>8. DrainedInOrder'
    BY DEF LifecycleInv, TypeOK, DrainedInOrder, Drained, ShutdownEnded, Quiescent,
           GraceOver, ServeStarts, runVars
  <1>9. CutAtExit'
    BY DEF LifecycleInv, CutAtExit, GraceOver, ServeStarts, runVars
  <1>10. ResourcesReleased'
    BY DEF LifecycleInv, TypeOK, ResourcesReleased, ServeStarts, runVars, depVars
  <1> QED
    BY <1>1, <1>2, <1>3, <1>4, <1>5, <1>6, <1>7, <1>8, <1>9, <1>10 DEF LifecycleInv

(* A server goroutine ends, or fails. *)
LEMMA ServeEndsInv ==
  ASSUME LifecycleInv, NEW z \in Servers, ServeStops(z) \/ ServeFails(z)
  PROVE  LifecycleInv'
  <1>1. TypeOK'
    BY DEF LifecycleInv, TypeOK, ErrChCapacity, ServeStops, ServeFails, runVars, depVars,
           Servers
  <1>2. PlacesOfMode'
    BY DEF LifecycleInv, PlacesOfMode, ServeStops, ServeFails, runVars
  <1>3. NotLaunched'
    BY DEF LifecycleInv, NotLaunched, ServeStops, ServeFails, runVars
  <1>4. NoEarlyRequest'
    BY ServerKnown DEF LifecycleInv, TypeOK, NoEarlyRequest, ServeStops, ServeFails
  <1>5. LimiterOwned'
    BY DEF LifecycleInv, LimiterOwned, ServeStops, ServeFails, runVars, depVars
  <1>6. OneErrorEach'
    BY DEF LifecycleInv, TypeOK, OneErrorEach, Ended, ServeStops, ServeFails, Servers
  <1>7. ShutdownOrder'
    BY DEF LifecycleInv, ShutdownOrder, ServeStops, ServeFails, runVars
  <1>8. DrainedInOrder'
    BY DEF LifecycleInv, TypeOK, DrainedInOrder, Drained, ShutdownEnded, Quiescent,
           GraceOver, ServeStops, ServeFails, runVars
  <1>9. CutAtExit'
    BY DEF LifecycleInv, CutAtExit, GraceOver, ServeStops, ServeFails, runVars
  <1>10. ResourcesReleased'
    BY DEF LifecycleInv, TypeOK, ResourcesReleased, ServeStops, ServeFails, runVars, depVars
  <1> QED
    BY <1>1, <1>2, <1>3, <1>4, <1>5, <1>6, <1>7, <1>8, <1>9, <1>10 DEF LifecycleInv

(* A server goroutine reports its error. *)
LEMMA SendErrorInv ==
  ASSUME LifecycleInv, NEW z \in Servers, SendError(z)
  PROVE  LifecycleInv'
  <1>1. TypeOK'
    BY DEF LifecycleInv, TypeOK, ErrChCapacity, SendError, runVars, depVars
  <1>2. PlacesOfMode'
    BY DEF LifecycleInv, PlacesOfMode, SendError, runVars
  <1>3. NotLaunched'
    BY DEF LifecycleInv, NotLaunched, SendError, runVars
  <1>4. NoEarlyRequest'
    BY ServerKnown DEF LifecycleInv, NoEarlyRequest, SendError
  <1>5. LimiterOwned'
    BY DEF LifecycleInv, LimiterOwned, SendError, runVars, depVars
  <1>6. OneErrorEach'
    BY DEF LifecycleInv, TypeOK, OneErrorEach, Ended, SendError, Servers
  <1>7. ShutdownOrder'
    BY DEF LifecycleInv, ShutdownOrder, SendError, runVars
  <1>8. DrainedInOrder'
    BY DEF LifecycleInv, DrainedInOrder, Drained, ShutdownEnded, Quiescent, GraceOver,
           SendError, runVars
  <1>9. CutAtExit'
    BY DEF LifecycleInv, CutAtExit, GraceOver, SendError, runVars
  <1>10. ResourcesReleased'
    BY DEF LifecycleInv, ResourcesReleased, SendError, runVars, depVars
  <1> QED
    BY <1>1, <1>2, <1>3, <1>4, <1>5, <1>6, <1>7, <1>8, <1>9, <1>10 DEF LifecycleInv

(* A request arrives. *)
LEMMA ArriveInv ==
  ASSUME LifecycleInv, NEW q \in Requests, Arrive(q)
  PROVE  LifecycleInv'
  <1>1. TypeOK'
    BY DEF LifecycleInv, TypeOK, ErrChCapacity, Arrive, runVars, serverVars, depVars
  <1>2. PlacesOfMode'
    BY DEF LifecycleInv, PlacesOfMode, Arrive, runVars
  <1>3. NotLaunched'
    BY DEF LifecycleInv, NotLaunched, Arrive, runVars, serverVars
  <1>4. NoEarlyRequest'
    BY ServerKnown DEF LifecycleInv, NoEarlyRequest, Arrive, Accepts, KeptAlive, serverVars
  <1>5. LimiterOwned'
    BY DEF LifecycleInv, LimiterOwned, Arrive, runVars, depVars
  <1>6. OneErrorEach'
    BY DEF LifecycleInv, OneErrorEach, Ended, Arrive, serverVars
  <1>7. ShutdownOrder'
    BY DEF LifecycleInv, ShutdownOrder, Arrive, runVars, serverVars
  <1>8. DrainedInOrder'
    BY DEF LifecycleInv, DrainedInOrder, Drained, ShutdownEnded, Quiescent, GraceOver,
           Arrive, Accepts, KeptAlive, runVars, serverVars
  <1>9. CutAtExit'
    BY DEF LifecycleInv, CutAtExit, GraceOver, Arrive, runVars
  <1>10. ResourcesReleased'
    BY DEF LifecycleInv, ResourcesReleased, Arrive, runVars, serverVars, depVars
  <1> QED
    BY <1>1, <1>2, <1>3, <1>4, <1>5, <1>6, <1>7, <1>8, <1>9, <1>10 DEF LifecycleInv

(* A request is answered. *)
LEMMA FinishInv ==
  ASSUME LifecycleInv, NEW q \in Requests, Finish(q)
  PROVE  LifecycleInv'
  <1>1. TypeOK'
    BY DEF LifecycleInv, TypeOK, ErrChCapacity, Finish, runVars, serverVars, depVars
  <1>2. PlacesOfMode'
    BY DEF LifecycleInv, PlacesOfMode, Finish, runVars
  <1>3. NotLaunched'
    BY DEF LifecycleInv, NotLaunched, Finish, runVars, serverVars
  <1>4. NoEarlyRequest'
    BY ServerKnown DEF LifecycleInv, NoEarlyRequest, Finish, serverVars
  <1>5. LimiterOwned'
    BY DEF LifecycleInv, LimiterOwned, Finish, runVars, depVars
  <1>6. OneErrorEach'
    BY DEF LifecycleInv, OneErrorEach, Ended, Finish, serverVars
  <1>7. ShutdownOrder'
    BY DEF LifecycleInv, ShutdownOrder, Finish, runVars, serverVars
  <1>8. DrainedInOrder'
    BY DEF LifecycleInv, DrainedInOrder, Drained, ShutdownEnded, Quiescent, GraceOver,
           Finish, runVars, serverVars
  <1>9. CutAtExit'
    BY DEF LifecycleInv, CutAtExit, Finish
  <1>10. ResourcesReleased'
    BY DEF LifecycleInv, ResourcesReleased, Finish, runVars, serverVars, depVars
  <1> QED
    BY <1>1, <1>2, <1>3, <1>4, <1>5, <1>6, <1>7, <1>8, <1>9, <1>10 DEF LifecycleInv

(* The signal, the session's end and the timer. *)
LEMMA EventsInv ==
  ASSUME LifecycleInv, Signal \/ EarlySignal \/ SessionEnds \/ TimerExpires
  PROVE  LifecycleInv'
  <1>1. TypeOK'
    <2>1. CASE EarlySignal
      <3>1. /\ listener' \in [Servers -> {"none", "open", "closed", "failed"}]
            /\ listener["main"] = "none" => listener'["main"] = "none"
        BY <2>1, UnboundType DEF LifecycleInv, TypeOK, EarlySignal, Servers
      <3> QED
        BY <2>1, <3>1 DEF LifecycleInv, TypeOK, ErrChCapacity, EarlySignal, depVars
    <2>2. CASE Signal \/ SessionEnds \/ TimerExpires
      BY <2>2 DEF LifecycleInv, TypeOK, ErrChCapacity, Signal, SessionEnds, TimerExpires,
                  runVars, serverVars, depVars
    <2> QED
      BY <2>1, <2>2
  <1>2. PlacesOfMode'
    BY UnboundType DEF LifecycleInv, PlacesOfMode, Signal, EarlySignal, SessionEnds,
                       TimerExpires, runVars
  <1>3. NotLaunched'
    BY UnboundType DEF LifecycleInv, NotLaunched, Signal, EarlySignal, SessionEnds,
                       TimerExpires, runVars, serverVars
  <1>4. NoEarlyRequest'
    BY UnboundType DEF LifecycleInv, NoEarlyRequest, Signal, EarlySignal, SessionEnds,
                       TimerExpires, serverVars
  <1>5. LimiterOwned'
    BY UnboundType DEF LifecycleInv, LimiterOwned, Signal, EarlySignal, SessionEnds,
                       TimerExpires, runVars, depVars
  <1>6. OneErrorEach'
    BY UnboundType DEF LifecycleInv, OneErrorEach, Ended, Signal, EarlySignal, SessionEnds,
                       TimerExpires, serverVars
  <1>7. ShutdownOrder'
    BY UnboundType DEF LifecycleInv, ShutdownOrder, Signal, EarlySignal, SessionEnds,
                       TimerExpires, runVars, serverVars
  <1>8. DrainedInOrder'
    BY UnboundType DEF LifecycleInv, DrainedInOrder, Drained, ShutdownEnded, Quiescent,
                       GraceOver, Signal, EarlySignal, SessionEnds, TimerExpires, runVars,
                       serverVars
  <1>9. CutAtExit'
    BY UnboundType DEF LifecycleInv, CutAtExit, GraceOver, Signal, EarlySignal, SessionEnds,
                       TimerExpires, runVars
  <1>10. ResourcesReleased'
    BY UnboundType DEF LifecycleInv, ResourcesReleased, Signal, EarlySignal, SessionEnds,
                       TimerExpires, runVars, serverVars, depVars
  <1> QED
    BY <1>1, <1>2, <1>3, <1>4, <1>5, <1>6, <1>7, <1>8, <1>9, <1>10 DEF LifecycleInv

(* The wait is over. *)
LEMMA AwaitInv ==
  ASSUME LifecycleInv, RunReturns \/ Await \/ StopLimiter
  PROVE  LifecycleInv'
  <1>1. TypeOK'
    BY DEF LifecycleInv, TypeOK, ErrChCapacity, RunReturns, Await, StopLimiter, Goto,
           serverVars, depVars, PlacesOfMode
  <1>2. PlacesOfMode'
    BY DEF LifecycleInv, PlacesOfMode, RunReturns, Await, StopLimiter, Goto
  <1>3. NotLaunched'
    BY DEF NotLaunched, RunReturns, Await, StopLimiter, Goto
  <1>4. NoEarlyRequest'
    BY ServerKnown DEF LifecycleInv, NoEarlyRequest, RunReturns, Await, StopLimiter,
                       serverVars
  <1>5. LimiterOwned'
    BY DEF LifecycleInv, LimiterOwned, RunReturns, Await, StopLimiter, Goto, depVars
  <1>6. OneErrorEach'
    BY DEF LifecycleInv, OneErrorEach, Ended, RunReturns, Await, StopLimiter, serverVars
  <1>7. ShutdownOrder'
    BY DEF LifecycleInv, ShutdownOrder, RunReturns, Await, StopLimiter, Goto, serverVars,
           PlacesOfMode
  <1>8. DrainedInOrder'
    BY DEF LifecycleInv, TypeOK, DrainedInOrder, Drained, ShutdownEnded, Quiescent,
           RunReturns, Await, StopLimiter, Goto, serverVars, NoEarlyRequest, PlacesOfMode
  <1>9. CutAtExit'
    BY DEF LifecycleInv, CutAtExit, RunReturns, Await, StopLimiter, Goto
  <1>10. ResourcesReleased'
    BY DEF ResourcesReleased, RunReturns, Await, StopLimiter, Goto
  <1> QED
    BY <1>1, <1>2, <1>3, <1>4, <1>5, <1>6, <1>7, <1>8, <1>9, <1>10 DEF LifecycleInv

(* A shutdown begins. *)
LEMMA BeginShutdownInv ==
  ASSUME LifecycleInv, NEW z \in Servers, BeginShutdown(z)
  PROVE  LifecycleInv'
  <1>1. TypeOK'
    BY DEF LifecycleInv, TypeOK, ErrChCapacity, BeginShutdown, Goto, depVars
  <1>2. PlacesOfMode'
    BY DEF LifecycleInv, PlacesOfMode, BeginShutdown, Goto
  <1>3. NotLaunched'
    BY DEF NotLaunched, BeginShutdown, Goto
  <1>4. NoEarlyRequest'
    BY ServerKnown DEF LifecycleInv, NoEarlyRequest, BeginShutdown
  <1>5. LimiterOwned'
    BY DEF LifecycleInv, LimiterOwned, BeginShutdown, Goto, depVars
  <1>6. OneErrorEach'
    BY DEF LifecycleInv, OneErrorEach, Ended, BeginShutdown
  <1>7. ShutdownOrder'
    BY DEF LifecycleInv, TypeOK, ShutdownOrder, BeginShutdown, Goto, Servers
  <1>8. DrainedInOrder'
    BY DEF LifecycleInv, DrainedInOrder, Drained, ShutdownEnded, Quiescent, GraceOver,
           BeginShutdown, Goto
  <1>9. CutAtExit'
    BY DEF LifecycleInv, CutAtExit, BeginShutdown, Goto
  <1>10. ResourcesReleased'
    BY DEF ResourcesReleased, BeginShutdown, Goto
  <1> QED
    BY <1>1, <1>2, <1>3, <1>4, <1>5, <1>6, <1>7, <1>8, <1>9, <1>10 DEF LifecycleInv

(* A shutdown ends. *)
LEMMA EndShutdownInv ==
  ASSUME LifecycleInv, NEW z \in Servers, EndShutdown(z)
  PROVE  LifecycleInv'
  <1>1. TypeOK'
    BY DEF LifecycleInv, TypeOK, ErrChCapacity, EndShutdown, Goto, serverVars, depVars
  <1>2. PlacesOfMode'
    BY DEF PlacesOfMode, EndShutdown, Goto
  <1>3. NotLaunched'
    BY DEF NotLaunched, EndShutdown, Goto
  <1>4. NoEarlyRequest'
    BY ServerKnown DEF LifecycleInv, NoEarlyRequest, EndShutdown, serverVars
  <1>5. LimiterOwned'
    BY DEF LifecycleInv, LimiterOwned, EndShutdown, Goto, depVars
  <1>6. OneErrorEach'
    BY DEF LifecycleInv, OneErrorEach, Ended, EndShutdown, serverVars
  <1>7. ShutdownOrder'
    BY DEF LifecycleInv, ShutdownOrder, EndShutdown, Goto, serverVars
  <1>8. DrainedInOrder'
    BY DEF LifecycleInv, DrainedInOrder, Drained, ShutdownEnded, Quiescent, GraceOver,
           EndShutdown, DrainOver, Goto, serverVars, ShutdownOrder, Servers
  <1>9. CutAtExit'
    BY DEF LifecycleInv, CutAtExit, EndShutdown, Goto
  <1>10. ResourcesReleased'
    BY DEF ResourcesReleased, EndShutdown, Goto
  <1> QED
    BY <1>1, <1>2, <1>3, <1>4, <1>5, <1>6, <1>7, <1>8, <1>9, <1>10 DEF LifecycleInv

(* The deferred calls. *)
LEMMA ReturnInv ==
  ASSUME LifecycleInv, ConcludeStdio \/ Return
  PROVE  LifecycleInv'
  <1>1. TypeOK'
    BY UnboundType DEF LifecycleInv, TypeOK, ErrChCapacity, ConcludeStdio, Return, Goto,
                       serverVars, depVars, Servers
  <1>2. PlacesOfMode'
    BY UnboundType DEF PlacesOfMode, ConcludeStdio, Return, Goto
  <1>3. NotLaunched'
    BY UnboundType DEF NotLaunched, ConcludeStdio, Return, Goto
  <1>4. NoEarlyRequest'
    BY UnboundType DEF LifecycleInv, NoEarlyRequest, ConcludeStdio, Return, serverVars
  <1>5. LimiterOwned'
    BY UnboundType DEF LifecycleInv, LimiterOwned, ConcludeStdio, Return, Goto, depVars
  <1>6. OneErrorEach'
    BY UnboundType DEF LifecycleInv, OneErrorEach, Ended, ConcludeStdio, Return, serverVars
  <1>7. ShutdownOrder'
    BY UnboundType DEF LifecycleInv, ShutdownOrder, ConcludeStdio, Return, Goto, serverVars
  <1>8. DrainedInOrder'
    BY UnboundType DEF LifecycleInv, DrainedInOrder, Drained, ShutdownEnded, Quiescent,
                       GraceOver, ConcludeStdio, Return, Goto, serverVars
  <1>9. CutAtExit'
    BY UnboundType DEF LifecycleInv, CutAtExit, ConcludeStdio, Return, Goto
  <1>10. ResourcesReleased'
    BY UnboundType DEF LifecycleInv, TypeOK, ResourcesReleased, ConcludeStdio, Return, Goto,
                       LimiterOwned
  <1> QED
    BY <1>1, <1>2, <1>3, <1>4, <1>5, <1>6, <1>7, <1>8, <1>9, <1>10 DEF LifecycleInv

(* The process ends. *)
LEMMA ExitInv ==
  ASSUME LifecycleInv, Exit
  PROVE  LifecycleInv'
  <1>1. TypeOK'
    BY DEF LifecycleInv, TypeOK, ErrChCapacity, Exit, Goto, serverVars, depVars
  <1>2. PlacesOfMode'
    BY DEF PlacesOfMode, Exit, Goto
  <1>3. NotLaunched'
    BY DEF NotLaunched, Exit, Goto
  <1>4. NoEarlyRequest'
    BY ServerKnown DEF LifecycleInv, NoEarlyRequest, Exit, serverVars
  <1>5. LimiterOwned'
    BY DEF LifecycleInv, LimiterOwned, Exit, Goto, depVars
  <1>6. OneErrorEach'
    BY DEF LifecycleInv, OneErrorEach, Ended, Exit, serverVars
  <1>7. ShutdownOrder'
    BY DEF LifecycleInv, ShutdownOrder, Exit, Goto, serverVars
  <1>8. DrainedInOrder'
    BY DEF LifecycleInv, DrainedInOrder, Drained, ShutdownEnded, Quiescent, Exit, Goto,
           serverVars
  <1>9. CutAtExit'
    <2> SUFFICES ASSUME NEW r \in Requests, req'[r] = "cut"
                 PROVE  pc' = "exited" /\ GraceOver'
      BY DEF CutAtExit
    <2>1. pc = "returned" /\ pc' = "exited" /\ GraceOver' = GraceOver
      BY DEF Exit, Goto, GraceOver
    <2>2. req[r] = "active"
      BY <2>1 DEF LifecycleInv, CutAtExit, Exit
    <2>3. Drained(ServerOf(r))
      BY <2>1, ServerKnown DEF LifecycleInv, DrainedInOrder, ShutdownEnded
    <2> QED
      BY <2>1, <2>2, <2>3 DEF Drained, Quiescent
  <1>10. ResourcesReleased'
    BY DEF LifecycleInv, ResourcesReleased, Exit, Goto, serverVars, depVars
  <1> QED
    BY <1>1, <1>2, <1>3, <1>4, <1>5, <1>6, <1>7, <1>8, <1>9, <1>10 DEF LifecycleInv

(* Every step keeps the invariant. *)
LEMMA LifecycleStep == LifecycleInv /\ [Next]_vars => LifecycleInv'
  <1> SUFFICES ASSUME LifecycleInv, [Next]_vars PROVE LifecycleInv'
    OBVIOUS
  <1>1. CASE MainGoroutine
    BY <1>1, BindObservabilityInv, NotifyContextInv, BindMainInv, BuildInv, LaunchInv,
       AwaitInv, BeginShutdownInv, EndShutdownInv, ReturnInv, ExitInv DEF MainGoroutine
  <1>2. CASE \E s \in Servers : ServeGoroutine(s) \/ ServeFails(s)
    BY <1>2, ServeStartsInv, ServeEndsInv, SendErrorInv DEF ServeGoroutine
  <1>3. CASE \E r \in Requests : Arrive(r) \/ Finish(r)
    BY <1>3, ArriveInv, FinishInv
  <1>4. CASE Signal \/ EarlySignal \/ SessionEnds \/ TimerExpires
    BY <1>4, EventsInv
  <1>5. CASE UNCHANGED vars
    <2>1. UNCHANGED <<mode, pc, listener, cancelled, serve, shutting, errCh, limiter, resty,
                      session, req, timer, result>>
      BY <1>5 DEF vars, runVars, serverVars, depVars
    <2>2. TypeOK' /\ PlacesOfMode' /\ NotLaunched' /\ NoEarlyRequest' /\ LimiterOwned'
      BY <2>1 DEF LifecycleInv, TypeOK, ErrChCapacity, PlacesOfMode, NotLaunched,
                  NoEarlyRequest, LimiterOwned
    <2>3. OneErrorEach' /\ ShutdownOrder' /\ CutAtExit' /\ ResourcesReleased'
      BY <2>1 DEF LifecycleInv, OneErrorEach, Ended, ShutdownOrder, CutAtExit, GraceOver,
                  ResourcesReleased
    <2>4. DrainedInOrder'
      BY <2>1 DEF LifecycleInv, DrainedInOrder, ShutdownEnded, Drained, Quiescent, GraceOver
    <2> QED
      BY <2>2, <2>3, <2>4 DEF LifecycleInv
  <1> QED
    BY <1>1, <1>2, <1>3, <1>4, <1>5 DEF Next, Terminated

(* The invariant holds in every behaviour of the process. *)
LEMMA LifecycleInvariant == Spec => []LifecycleInv
  BY LifecycleInit, LifecycleStep, PTL DEF Spec

-----------------------------------------------------------------------------
(* Theorems *)

(* The types, and what each launch mode never has (runStdio, runHTTP). *)
THEOREM TypeCorrect == Spec => []TypeOK
  <1>1. LifecycleInv => TypeOK
    BY DEF LifecycleInv
  <1> QED
    BY <1>1, LifecycleInvariant, PTL

(* Run returns with no listener bound, no eviction goroutine running and   *)
(* the outbound client closed, by whatever path (its defers, and those of  *)
(* runHTTP and runStdio).                                                  *)
THEOREM Released == Spec => []ResourcesReleased
  <1>1. LifecycleInv => ResourcesReleased
    BY DEF LifecycleInv
  <1> QED
    BY <1>1, LifecycleInvariant, PTL

(* errCh always has room for the goroutine that has an error to report     *)
(* (main.go:324).                                                          *)
THEOREM SendersFree == Spec => []NoSenderBlocked
  <1>1. LifecycleInv => NoSenderBlocked
    <2> SUFFICES ASSUME LifecycleInv, NEW s \in Servers, serve[s] = "sending"
                 PROVE  Len(errCh) < ErrChCapacity
      BY DEF NoSenderBlocked
    <2>1. Len(errCh) <= Ended("main") + Ended("metrics") /\ Len(errCh) \in Nat
      BY DEF LifecycleInv, OneErrorEach, TypeOK
    <2>2. CASE mode = "http"
      <3>1. Ended("main") + Ended("metrics") <= 1
        BY DEF Ended, Servers
      <3> QED
        BY <2>1, <2>2, <3>1 DEF ErrChCapacity, Ended
    <2>3. CASE mode = "stdio"
      <3>1. Ended("main") = 0 /\ Ended("metrics") = 0
        BY <2>3 DEF LifecycleInv, TypeOK, Ended, Servers
      <3> QED
        BY <2>1, <2>3, <3>1 DEF ErrChCapacity
    <2> QED
      BY <2>2, <2>3 DEF LifecycleInv, TypeOK
  <1> QED
    BY <1>1, LifecycleInvariant, PTL

(* A request that was being served when Run returned had its grace         *)
(* (awaitAndShutdown, runStdio).                                           *)
THEOREM GraceGiven == Spec => []RequestsGetGrace
  <1>1. LifecycleInv => RequestsGetGrace
    <2> SUFFICES ASSUME LifecycleInv, NEW r \in Requests,
                        pc \in {"return", "returned", "exited"}, req[r] \in {"active", "cut"}
                 PROVE  GraceOver
      BY DEF RequestsGetGrace
    <2>1. CASE req[r] = "cut"
      BY <2>1 DEF LifecycleInv, CutAtExit
    <2>2. CASE req[r] = "active"
      <3>1. Drained(ServerOf(r))
        BY ServerKnown DEF LifecycleInv, DrainedInOrder, ShutdownEnded
      <3> QED
        BY <2>2, <3>1 DEF Drained, Quiescent
    <2> QED
      BY <2>1, <2>2
  <1> QED
    BY <1>1, LifecycleInvariant, PTL

(* The metrics server is not shut down before the main server has drained  *)
(* (main.go:330).                                                          *)
THEOREM MetricsLast == Spec => []MetricsOutliveMain
  <1>1. LifecycleInv => MetricsOutliveMain
    <2> SUFFICES ASSUME LifecycleInv, mode = "http", shutting["metrics"]
                 PROVE  /\ shutting["main"]
                        /\ serve["main"] # "serving"
                        /\ Quiescent("main") \/ GraceOver
      BY DEF MetricsOutliveMain
    <2>1. shutting["main"]
      BY DEF LifecycleInv, ShutdownOrder
    <2>2. ShutdownEnded("main")
      BY DEF LifecycleInv, ShutdownOrder, ShutdownEnded
    <2>3. Drained("main")
      BY <2>2 DEF LifecycleInv, DrainedInOrder, Servers
    <2> QED
      BY <2>1, <2>3 DEF Drained
  <1> QED
    BY <1>1, LifecycleInvariant, PTL
=============================================================================
