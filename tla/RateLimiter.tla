---------------------------- MODULE RateLimiter ----------------------------
(***************************************************************************)
(* handlers.RateLimiter (handlers/ratelimit.go): a global token bucket, a  *)
(* map from client address to a token bucket of its own, created on the    *)
(* client's first request, and a background goroutine that evicts the      *)
(* limiters of idle clients.                                               *)
(*                                                                         *)
(* Time is a number of ticks, TicksPerSecond of them in a second.  A       *)
(* bucket counts credit instead of fractional tokens: a limit of L         *)
(* requests per second adds L units of credit per tick and one request     *)
(* costs TicksPerSecond units.  Allow and evictExpired hold the mutex from *)
(* their first line to their last, so each is one step; the three clock    *)
(* readings inside Allow fall in one tick.                                 *)
(***************************************************************************)
EXTENDS Integers, FiniteSets

CONSTANTS
  Clients,          \* client addresses
  GlobalLimit,      \* RateLimiterConfig.GlobalLimit, requests per second
  GlobalBurst,      \* RateLimiterConfig.GlobalBurst, requests
  PerClientLimit,   \* RateLimiterConfig.PerClientLimit
  PerClientBurst,   \* RateLimiterConfig.PerClientBurst
  ClientTTL,        \* clientTTL, ticks
  CleanupInterval,  \* cleanupInterval, ticks
  TicksPerSecond,   \* resolution of the clock
  MaxTime           \* bound: the clock stops here

(* What config.validatePositiveInt and the constants of ratelimit.go give. *)
ASSUME ConfigAssumption ==
  /\ IsFiniteSet(Clients)
  /\ GlobalLimit \in Nat \ {0}
  /\ PerClientLimit \in Nat \ {0}
  /\ GlobalBurst \in Int
  /\ PerClientBurst \in Int
  /\ ClientTTL \in Nat
  /\ CleanupInterval \in Nat \ {0}
  /\ TicksPerSecond \in Nat \ {0}
  /\ MaxTime \in Nat

defaultBurstMultiplier == 2

(* Burst capacity: the configured one, or twice the rate when it is unset. *)
Burst(limit, burst) ==
  IF burst <= 0 THEN limit * defaultBurstMultiplier ELSE burst

GlobalCap == TicksPerSecond * Burst(GlobalLimit, GlobalBurst)
ClientCap == TicksPerSecond * Burst(PerClientLimit, PerClientBurst)

(* An idle client's bucket is full again before the client may be evicted: *)
(* 2 seconds of refill against a TTL of 30 minutes in the code.            *)
ASSUME EvictionAssumption == ClientCap <= PerClientLimit * ClientTTL

VARIABLES
  now,        \* the clock
  global,     \* the global limiter
  clients,    \* the map: address -> limiter and time of last use
  stopped,    \* stopCh is closed
  evictor,    \* the goroutine of evictStaleClients
  nextFire,   \* when the ticker fires next
  fired,      \* a firing waits in ticker.C (a channel of capacity 1)
  verdict,    \* what the latest Allow returned
  lastSweep,  \* history: when evictExpired last ran
  window      \* history: requests admitted since an arbitrary moment

limiterVars == <<global, clients, verdict>>
evictorVars == <<stopped, evictor, nextFire, fired, lastSweep>>
vars == <<now, limiterVars, evictorVars, window>>

-----------------------------------------------------------------------------
(* golang.org/x/time/rate: a bucket remembers its credit at the moment it  *)
(* last granted a request and adds what the elapsed time is worth when it  *)
(* is asked again, never above its capacity.                               *)

NewLimiter(cap) == [tokens |-> cap, last |-> now]

(* The credit a limiter shows when it is asked at time t. *)
CreditAt(lim, limit, cap, t) ==
  LET refilled == lim.tokens + limit * (t - lim.last)
  IN IF refilled > cap THEN cap ELSE refilled

AvailableNoCap(lim, limit, cap) == lim.tokens + limit * (now - lim.last)

Available(lim, limit, cap) == CreditAt(lim, limit, cap, now)

Grants(lim, limit, cap) == Available(lim, limit, cap) >= TicksPerSecond

SpendUnchecked(lim, limit, cap) ==
  [tokens |-> Available(lim, limit, cap) - TicksPerSecond, last |-> now]

(* Limiter.Allow: a refused request leaves the bucket as it was. *)
Spend(lim, limit, cap) ==
  IF Grants(lim, limit, cap)
  THEN [tokens |-> Available(lim, limit, cap) - TicksPerSecond, last |-> now]
  ELSE lim

-----------------------------------------------------------------------------
(* RateLimiter.Allow *)

Known(c) == c \in DOMAIN clients

LimiterAlwaysNew(c) == NewLimiter(ClientCap)

(* The limiter Allow consults for c: the one in the map, or a new one. *)
LimiterOf(c) == IF Known(c) THEN clients[c].limiter ELSE NewLimiter(ClientCap)

GlobalGrants == Grants(global, GlobalLimit, GlobalCap)
ClientGrants(c) == Grants(LimiterOf(c), PerClientLimit, ClientCap)

(* The map once c's entry was found or created, stamped and charged. *)
ClientsAfter(c) ==
  [d \in DOMAIN clients \cup {c} |->
     IF d = c
     THEN [limiter  |-> Spend(LimiterOf(c), PerClientLimit, ClientCap),
           lastSeen |-> now]
     ELSE clients[d]]

CountAdmitted(c) ==
  window' = [length |-> window.length,
             total  |-> window.total + 1,
             by     |-> [window.by EXCEPT ![c] = @ + 1]]

RejectGlobalAfterLookup(c) ==
  /\ ~GlobalGrants
  /\ clients' = ClientsAfter(c)
  /\ verdict' = "deny"
  /\ UNCHANGED <<global, window>>

(* The early return: no global token, and the map is not looked at. *)
RejectGlobal(c) ==
  /\ ~GlobalGrants
  /\ verdict' = "deny"
  /\ UNCHANGED <<global, clients, window>>

(* The global token is spent before the client's limiter is asked. *)
RejectClient(c) ==
  /\ GlobalGrants
  /\ ~ClientGrants(c)
  /\ global' = Spend(global, GlobalLimit, GlobalCap)
  /\ clients' = ClientsAfter(c)
  /\ verdict' = "deny"
  /\ UNCHANGED window

Admit(c) ==
  /\ GlobalGrants
  /\ ClientGrants(c)
  /\ global' = Spend(global, GlobalLimit, GlobalCap)
  /\ clients' = ClientsAfter(c)
  /\ verdict' = "allow"
  /\ CountAdmitted(c)

Allow(c) ==
  /\ RejectGlobal(c) \/ RejectClient(c) \/ Admit(c)
  /\ UNCHANGED <<now, evictorVars>>

-----------------------------------------------------------------------------
(* The eviction goroutine *)

ExpiredTooEarly(c) == now - clients[c].lastSeen > 0

ExpiredNever(c) == FALSE

Expired(c) == now - clients[c].lastSeen > ClientTTL

(* evictExpired, run by evictStaleClients when ticker.C delivers. *)
EvictExpired ==
  /\ evictor = "running"
  /\ fired
  /\ clients' = [c \in {d \in DOMAIN clients : ~Expired(d)} |-> clients[c]]
  /\ fired' = FALSE
  /\ lastSweep' = now
  /\ UNCHANGED <<now, global, verdict, stopped, evictor, nextFire, window>>

EvictorReturnsOnTick ==
  /\ evictor = "running"
  /\ stopped
  /\ fired
  /\ evictor' = "returned"
  /\ UNCHANGED <<now, limiterVars, stopped, nextFire, fired, lastSweep, window>>

(* The other arm of the select; when both are ready Go picks either. *)
EvictorReturns ==
  /\ evictor = "running"
  /\ stopped
  /\ evictor' = "returned"
  /\ UNCHANGED <<now, limiterVars, stopped, nextFire, fired, lastSweep, window>>

(* Stop: closing stopCh.  awaitAndShutdown calls it once. *)
Stop ==
  /\ ~stopped
  /\ stopped' = TRUE
  /\ UNCHANGED <<now, limiterVars, evictor, nextFire, fired, lastSweep, window>>

-----------------------------------------------------------------------------
(* Time passes; the ticker fires on its schedule while its goroutine runs, *)
(* and a firing that finds the channel full is dropped.                    *)
Tick ==
  /\ now < MaxTime
  /\ now' = now + 1
  /\ IF evictor = "running" /\ now + 1 >= nextFire
     THEN /\ nextFire' = nextFire + CleanupInterval
          /\ fired' = TRUE
     ELSE UNCHANGED <<nextFire, fired>>
  /\ window' = [window EXCEPT !.length = @ + 1]
  /\ UNCHANGED <<limiterVars, stopped, evictor, lastSweep>>

EmptyWindow == [length |-> 0, total |-> 0, by |-> [c \in Clients |-> 0]]

(* History only: the window of observation may start at any moment. *)
OpenWindow ==
  /\ window' = EmptyWindow
  /\ UNCHANGED <<now, limiterVars, evictorVars>>

(* NewRateLimiter *)
Init ==
  /\ now = 0
  /\ global = NewLimiter(GlobalCap)
  /\ clients = [c \in {} |-> 0]
  /\ stopped = FALSE
  /\ evictor = "running"
  /\ nextFire = CleanupInterval
  /\ fired = FALSE
  /\ verdict = "none"
  /\ lastSweep = 0
  /\ window = EmptyWindow

Next ==
  \/ \E c \in Clients : Allow(c)
  \/ EvictExpired
  \/ EvictorReturns
  \/ Stop
  \/ Tick
  \/ OpenWindow

Spec == Init /\ [][Next]_vars

(* The clock runs, and the scheduler runs a goroutine that stays ready.    *)
(* The strong fairness is that of a select with two ready arms.            *)
FairSpec ==
  /\ Spec
  /\ WF_vars(Tick)
  /\ WF_vars(EvictExpired)
  /\ SF_vars(EvictorReturns)

-----------------------------------------------------------------------------
(* The credit each bucket would show if it were asked now. *)
GlobalCredit == Available(global, GlobalLimit, GlobalCap)
ClientCredit(c) == Available(LimiterOf(c), PerClientLimit, ClientCap)

LimiterType(cap, t) == [tokens : 0..cap, last : 0..t]

(* Every variable has its type; a bucket never holds negative credit or    *)
(* more than its capacity, and no timestamp lies in the future.            *)
TypeOK ==
  /\ now \in 0..MaxTime
  /\ global \in LimiterType(GlobalCap, now)
  /\ DOMAIN clients \subseteq Clients
  /\ \A c \in DOMAIN clients :
       clients[c] \in [limiter : LimiterType(ClientCap, now), lastSeen : 0..now]
  /\ stopped \in BOOLEAN
  /\ evictor \in {"running", "returned"}
  /\ nextFire \in Nat
  /\ fired \in BOOLEAN
  /\ verdict \in {"none", "allow", "deny"}
  /\ lastSweep \in 0..now
  /\ window \in [length : 0..now, total : Nat, by : [Clients -> Nat]]

(* PerClientLimit "is the maximum number of requests per second per client *)
(* IP" (ratelimit.go:24): over every window of time, evictions included,   *)
(* a client is admitted at most burst + limit * length times.              *)
ClientWindowBound ==
  \A c \in Clients :
    window.by[c] * TicksPerSecond <= ClientCap + PerClientLimit * window.length

(* GlobalLimit "is the maximum number of requests per second across all    *)
(* clients" (ratelimit.go:22), over every window of time.                  *)
GlobalWindowBound ==
  window.total * TicksPerSecond <= GlobalCap + GlobalLimit * window.length

(* Evicting stale entries prevents "unbounded memory growth"               *)
(* (ratelimit.go:61): the map never holds more clients than the global     *)
(* limiter let through since a TTL before the last sweep, however many     *)
(* distinct addresses call.                                                *)
MapBound ==
  Cardinality(DOMAIN clients) * TicksPerSecond
    <= GlobalCap + GlobalLimit * (now - lastSweep + ClientTTL)

(* Allow answers as if every client had a bucket of its own for ever: the  *)
(* lazily created, lazily refilled and evicted limiters implement the      *)
(* policy.                                                                 *)
Policy == INSTANCE RateLimitPolicy WITH
  GlobalRate   <- GlobalLimit,
  ClientRate   <- PerClientLimit,
  Cost         <- TicksPerSecond,
  globalCredit <- GlobalCredit,
  clientCredit <- [c \in Clients |-> ClientCredit(c)]

ImplementsPolicy == Policy!Spec

(* The client has not been seen for longer than the TTL. *)
Idle(c) == Known(c) /\ now - clients[c].lastSeen > ClientTTL

(* An idle client's limiter does not stay in the map for ever, as long as  *)
(* the goroutine is not stopped and the clock leaves it a full period of   *)
(* the ticker (evictStaleClients).                                         *)
IdleEntryGoes ==
  \A c \in Clients :
    Idle(c) /\ now + CleanupInterval <= MaxTime ~> ~Idle(c) \/ stopped

(* "The returned stop function terminates the background eviction          *)
(* goroutine" (ratelimit.go:155): after Stop it returns, ticks or not, and *)
(* Stop itself is never refused.                                           *)
StopEndsEvictor == stopped ~> evictor = "returned"
=============================================================================
