------------------------- MODULE RateLimiterProofs -------------------------
(***************************************************************************)
(* Proofs about RateLimiter, for every set of clients and every setting of *)
(* the limits, bursts, TTL and sweep period that ConfigAssumption and      *)
(* EvictionAssumption allow.                                               *)
(***************************************************************************)
EXTENDS RateLimiter, FiniteSetTheorems, TLAPS

-----------------------------------------------------------------------------
(* Arithmetic of products, stated once: the solver treats a product of two *)
(* unknowns as opaque unless it is told.                                   *)

(* The product of two naturals is a natural. *)
LEMMA TimesNat == \A a, b \in Nat : a * b \in Nat
  OBVIOUS

(* One more tick is worth one more unit of the rate. *)
LEMMA TimesSucc == \A a, b \in Int : a * (b + 1) = a * b + a
  OBVIOUS

(* Waiting longer never earns less. *)
LEMMA TimesMono == \A a \in Nat, b, c \in Int : b <= c => a * b <= a * c
  <1> SUFFICES ASSUME NEW a \in Nat, NEW b \in Int, NEW c \in Int, b <= c
               PROVE  a * b <= a * c
    OBVIOUS
  <1>1. c - b \in Nat
    OBVIOUS
  <1>2. a * (c - b) \in Nat
    BY <1>1, TimesNat
  <1>3. a * (c - b) = a * c - a * b
    OBVIOUS
  <1> QED
    BY <1>2, <1>3

(* Both buckets have a natural capacity: NewRateLimiter never builds a     *)
(* limiter that holds less than nothing.                                   *)
LEMMA CapNat == GlobalCap \in Nat /\ ClientCap \in Nat
  <1>1. Burst(GlobalLimit, GlobalBurst) \in Nat
    BY ConfigAssumption DEF Burst, defaultBurstMultiplier
  <1>2. Burst(PerClientLimit, PerClientBurst) \in Nat
    BY ConfigAssumption DEF Burst, defaultBurstMultiplier
  <1> QED
    BY <1>1, <1>2, TimesNat, ConfigAssumption DEF GlobalCap, ClientCap

-----------------------------------------------------------------------------
(* The token bucket of x/time/rate *)

(* A bucket never shows negative credit or more than its capacity. *)
LEMMA CreditType ==
  \A limit, cap, t \in Nat : \A lim \in LimiterType(cap, t) :
    CreditAt(lim, limit, cap, t) \in 0..cap
  <1> SUFFICES ASSUME NEW limit \in Nat, NEW cap \in Nat, NEW t \in Nat,
                      NEW lim \in LimiterType(cap, t)
               PROVE  CreditAt(lim, limit, cap, t) \in 0..cap
    OBVIOUS
  <1>1. lim.tokens \in 0..cap /\ lim.last \in 0..t
    BY DEF LimiterType
  <1>2. limit * (t - lim.last) \in Nat
    BY <1>1, TimesNat
  <1> QED
    BY <1>1, <1>2 DEF CreditAt

(* Refilling lazily when asked is the same as refilling at every tick. *)
LEMMA CreditTick ==
  \A limit, cap, t \in Nat : \A lim \in LimiterType(cap, t) :
    CreditAt(lim, limit, cap, t + 1) =
      IF CreditAt(lim, limit, cap, t) + limit > cap
      THEN cap ELSE CreditAt(lim, limit, cap, t) + limit
  <1> SUFFICES ASSUME NEW limit \in Nat, NEW cap \in Nat, NEW t \in Nat,
                      NEW lim \in LimiterType(cap, t)
               PROVE  CreditAt(lim, limit, cap, t + 1) =
                        IF CreditAt(lim, limit, cap, t) + limit > cap
                        THEN cap ELSE CreditAt(lim, limit, cap, t) + limit
    OBVIOUS
  <1>1. lim.tokens \in 0..cap /\ lim.last \in 0..t
    BY DEF LimiterType
  <1>2. limit * (t - lim.last) \in Nat
    BY <1>1, TimesNat
  <1>3. limit * (t + 1 - lim.last) = limit * (t - lim.last) + limit
    <2>1. t + 1 - lim.last = (t - lim.last) + 1
      BY <1>1
    <2> QED
      BY <1>1, <2>1, TimesSucc
  <1> QED
    BY <1>1, <1>2, <1>3 DEF CreditAt

(* A bucket stamped now shows what it holds. *)
LEMMA CreditNow ==
  \A limit, cap, t \in Nat : \A x \in 0..cap :
    CreditAt([tokens |-> x, last |-> t], limit, cap, t) = x
  <1> SUFFICES ASSUME NEW limit \in Nat, NEW cap \in Nat, NEW t \in Nat,
                      NEW x \in 0..cap
               PROVE  CreditAt([tokens |-> x, last |-> t], limit, cap, t) = x
    OBVIOUS
  <1>1. limit * (t - t) = 0
    OBVIOUS
  <1> QED
    BY <1>1 DEF CreditAt

(* A client's bucket left alone for a TTL is full, whatever it held. *)
LEMMA CreditIdle ==
  \A t \in Nat : \A lim \in LimiterType(ClientCap, t) :
    t - lim.last >= ClientTTL
      => CreditAt(lim, PerClientLimit, ClientCap, t) = ClientCap
  <1> SUFFICES ASSUME NEW t \in Nat, NEW lim \in LimiterType(ClientCap, t),
                      t - lim.last >= ClientTTL
               PROVE  CreditAt(lim, PerClientLimit, ClientCap, t) = ClientCap
    OBVIOUS
  <1>1. lim.tokens \in 0..ClientCap /\ lim.last \in 0..t
    BY DEF LimiterType
  <1>2. PerClientLimit * ClientTTL <= PerClientLimit * (t - lim.last)
    BY <1>1, TimesMono, ConfigAssumption
  <1>3. PerClientLimit * ClientTTL \in Nat
    BY TimesNat, ConfigAssumption
  <1>4. PerClientLimit * (t - lim.last) \in Nat
    BY <1>1, TimesNat, ConfigAssumption
  <1> QED
    BY <1>1, <1>2, <1>3, <1>4, CapNat, EvictionAssumption DEF CreditAt

(* A limiter that is well-formed now stays so while time passes. *)
LEMMA LimiterAges ==
  \A cap, t \in Nat : \A lim \in LimiterType(cap, t) :
    lim \in LimiterType(cap, t + 1)
  BY DEF LimiterType

(* Limiter.Allow leaves a well-formed bucket and takes exactly the price   *)
(* of a request, or nothing when it refuses.                               *)
LEMMA SpendFacts ==
  ASSUME TypeOK, NEW limit \in Nat, NEW cap \in Nat,
         NEW lim \in LimiterType(cap, now)
  PROVE  /\ Spend(lim, limit, cap) \in LimiterType(cap, now)
         /\ CreditAt(Spend(lim, limit, cap), limit, cap, now) =
              IF Grants(lim, limit, cap)
              THEN Available(lim, limit, cap) - TicksPerSecond
              ELSE Available(lim, limit, cap)
  <1>1. now \in Nat
    BY ConfigAssumption DEF TypeOK
  <1>2. Available(lim, limit, cap) \in 0..cap
    BY <1>1, CreditType DEF Available
  <1>3. CASE Grants(lim, limit, cap)
    <2>1. Available(lim, limit, cap) - TicksPerSecond \in 0..cap
      BY <1>2, <1>3, ConfigAssumption DEF Grants
    <2>2. Spend(lim, limit, cap) =
            [tokens |-> Available(lim, limit, cap) - TicksPerSecond, last |-> now]
      BY <1>3 DEF Spend
    <2> QED
      BY <1>1, <1>3, <2>1, <2>2, CreditNow DEF LimiterType
  <1>4. CASE ~Grants(lim, limit, cap)
    BY <1>4 DEF Spend, Available
  <1> QED
    BY <1>3, <1>4

(* The limiter Allow consults is well-formed, and a new one is full. *)
LEMMA LimiterOfType ==
  ASSUME TypeOK, NEW c \in Clients
  PROVE  LimiterOf(c) \in LimiterType(ClientCap, now)
  <1>1. now \in Nat
    BY ConfigAssumption DEF TypeOK
  <1> QED
    BY <1>1, CapNat DEF TypeOK, LimiterOf, Known, NewLimiter, LimiterType

-----------------------------------------------------------------------------
(* Type correctness, strengthened by what the eviction step needs. *)

(* A bucket is charged only when its owner is stamped as seen. *)
Fresh ==
  \A c \in DOMAIN clients : clients[c].limiter.last <= clients[c].lastSeen

(* A sweep leaves no entry older than the TTL behind. *)
Kept ==
  \A c \in DOMAIN clients : clients[c].lastSeen >= lastSweep - ClientTTL

LimiterInv == TypeOK /\ Fresh /\ Kept

(* The limiter NewRateLimiter returns satisfies the invariant. *)
LEMMA LimiterInvInit == Init => LimiterInv
  <1> SUFFICES ASSUME Init PROVE LimiterInv
    OBVIOUS
  <1>1. now = 0 /\ now \in 0..MaxTime /\ lastSweep \in 0..now /\ nextFire \in Nat
    BY ConfigAssumption DEF Init
  <1>2. global \in LimiterType(GlobalCap, now)
    BY <1>1, CapNat DEF Init, NewLimiter, LimiterType
  <1>3. window \in [length : 0..now, total : Nat, by : [Clients -> Nat]]
    BY <1>1 DEF Init, EmptyWindow
  <1>4. DOMAIN clients = {}
    BY DEF Init
  <1>5. /\ stopped \in BOOLEAN /\ fired \in BOOLEAN
        /\ evictor \in {"running", "returned"}
        /\ verdict \in {"none", "allow", "deny"}
    BY DEF Init
  <1> QED
    BY <1>1, <1>2, <1>3, <1>4, <1>5 DEF LimiterInv, TypeOK, Fresh, Kept

(* What Allow does to the map of clients, whatever it answers. *)
LEMMA ClientsAfterInv ==
  ASSUME LimiterInv, NEW c \in Clients
  PROVE  /\ DOMAIN ClientsAfter(c) = DOMAIN clients \cup {c}
         /\ \A d \in DOMAIN ClientsAfter(c) :
              /\ ClientsAfter(c)[d] \in
                   [limiter : LimiterType(ClientCap, now), lastSeen : 0..now]
              /\ ClientsAfter(c)[d].limiter.last <= ClientsAfter(c)[d].lastSeen
              /\ ClientsAfter(c)[d].lastSeen >= lastSweep - ClientTTL
  <1>0. TypeOK /\ now \in Nat
    BY ConfigAssumption DEF LimiterInv, TypeOK
  <1>1. Spend(LimiterOf(c), PerClientLimit, ClientCap) \in LimiterType(ClientCap, now)
    BY <1>0, LimiterOfType, SpendFacts, CapNat, ConfigAssumption
  <1>2. ClientsAfter(c)[c] =
          [limiter |-> Spend(LimiterOf(c), PerClientLimit, ClientCap), lastSeen |-> now]
    BY DEF ClientsAfter
  <1>3. \A d \in DOMAIN clients \ {c} : ClientsAfter(c)[d] = clients[d]
    BY DEF ClientsAfter
  <1>4. DOMAIN ClientsAfter(c) = DOMAIN clients \cup {c}
    BY DEF ClientsAfter
  <1>5. lastSweep \in 0..now /\ now >= lastSweep - ClientTTL
    BY <1>0, ConfigAssumption DEF TypeOK
  <1>6. ASSUME NEW d \in DOMAIN clients \ {c}
        PROVE  /\ ClientsAfter(c)[d] \in
                    [limiter : LimiterType(ClientCap, now), lastSeen : 0..now]
               /\ ClientsAfter(c)[d].limiter.last <= ClientsAfter(c)[d].lastSeen
               /\ ClientsAfter(c)[d].lastSeen >= lastSweep - ClientTTL
    BY <1>3, <1>6 DEF LimiterInv, TypeOK, Fresh, Kept
  <1>7. /\ ClientsAfter(c)[c] \in
             [limiter : LimiterType(ClientCap, now), lastSeen : 0..now]
        /\ ClientsAfter(c)[c].limiter.last <= ClientsAfter(c)[c].lastSeen
        /\ ClientsAfter(c)[c].lastSeen >= lastSweep - ClientTTL
    BY <1>0, <1>1, <1>2, <1>5 DEF LimiterType
  <1> QED
    BY <1>4, <1>6, <1>7

(* Every step of the limiter, its goroutine and the clock preserves it. *)
LEMMA LimiterInvStep == LimiterInv /\ [Next]_vars => LimiterInv'
  <1> SUFFICES ASSUME LimiterInv, [Next]_vars
               PROVE  LimiterInv'
    OBVIOUS
  <1>0. TypeOK /\ now \in Nat
    BY ConfigAssumption DEF LimiterInv, TypeOK
  <1>1. ASSUME NEW c \in Clients, Allow(c)
        PROVE  LimiterInv'
    <2>1. UNCHANGED <<now, evictorVars>>
      BY <1>1 DEF Allow
    <2>2. CASE RejectGlobal(c)
      BY <2>1, <2>2
         DEF LimiterInv, TypeOK, Fresh, Kept, RejectGlobal, evictorVars, LimiterType
    <2>3. CASE RejectClient(c) \/ Admit(c)
      <3>1. global' \in LimiterType(GlobalCap, now)
        BY <1>0, <2>3, SpendFacts, CapNat, ConfigAssumption
           DEF RejectClient, Admit, TypeOK
      <3>2. clients' = ClientsAfter(c)
        BY <2>3 DEF RejectClient, Admit
      <3>3. verdict' \in {"none", "allow", "deny"}
        BY <2>3 DEF RejectClient, Admit
      <3>4. window' \in [length : 0..now, total : Nat, by : [Clients -> Nat]]
        <4>1. window \in [length : 0..now, total : Nat, by : [Clients -> Nat]]
          BY <1>0 DEF TypeOK
        <4>2. CASE RejectClient(c)
          BY <4>1, <4>2 DEF RejectClient
        <4>3. CASE Admit(c)
          BY <4>1, <4>3 DEF Admit, CountAdmitted
        <4> QED
          BY <2>3, <4>2, <4>3
      <3>5. DOMAIN clients' \subseteq Clients
        <4>1. DOMAIN clients' = DOMAIN clients \cup {c}
          BY <3>2, ClientsAfterInv
        <4> QED
          BY <1>0, <4>1 DEF TypeOK
      <3>6. /\ \A d \in DOMAIN clients' :
                 clients'[d] \in [limiter : LimiterType(ClientCap, now), lastSeen : 0..now]
            /\ \A d \in DOMAIN clients' : clients'[d].limiter.last <= clients'[d].lastSeen
            /\ \A d \in DOMAIN clients' : clients'[d].lastSeen >= lastSweep - ClientTTL
        BY <3>2, ClientsAfterInv
      <3> QED
        BY <1>0, <2>1, <3>1, <3>3, <3>4, <3>5, <3>6
           DEF LimiterInv, TypeOK, Fresh, Kept, evictorVars
    <2> QED
      BY <1>1, <2>2, <2>3 DEF Allow
  <1>2. CASE EvictExpired
    <2>1. /\ DOMAIN clients' \subseteq DOMAIN clients
          /\ \A d \in DOMAIN clients' : clients'[d] = clients[d] /\ ~Expired(d)
      BY <1>2 DEF EvictExpired
    <2>2. Kept'
      BY <1>0, <1>2, <2>1, ConfigAssumption
         DEF Kept, EvictExpired, Expired, TypeOK
    <2>3. TypeOK'
      <3>1. /\ UNCHANGED <<now, global, verdict, stopped, evictor, nextFire, window>>
            /\ lastSweep' \in 0..now
        BY <1>0, <1>2 DEF EvictExpired
      <3>2. fired' \in BOOLEAN
        BY <1>2 DEF EvictExpired
      <3> QED
        BY <1>0, <2>1, <3>1, <3>2 DEF TypeOK
    <2>4. Fresh'
      BY <2>1 DEF LimiterInv, Fresh
    <2> QED
      BY <2>2, <2>3, <2>4 DEF LimiterInv
  <1>3. CASE EvictorReturns
    BY <1>3 DEF LimiterInv, TypeOK, Fresh, Kept, EvictorReturns, limiterVars
  <1>4. CASE Stop
    BY <1>4 DEF LimiterInv, TypeOK, Fresh, Kept, Stop, limiterVars
  <1>5. CASE Tick
    <2>1. /\ now' = now + 1 /\ now' \in 0..MaxTime
          /\ UNCHANGED <<global, clients, verdict, stopped, evictor, lastSweep>>
      BY <1>0, <1>5, ConfigAssumption DEF Tick, limiterVars
    <2>2. global' \in LimiterType(GlobalCap, now')
      BY <1>0, <2>1, LimiterAges, CapNat DEF TypeOK
    <2>3. \A c \in DOMAIN clients' :
            clients'[c] \in [limiter : LimiterType(ClientCap, now'), lastSeen : 0..now']
      <3> SUFFICES ASSUME NEW c \in DOMAIN clients
                   PROVE  clients[c] \in
                            [limiter : LimiterType(ClientCap, now + 1), lastSeen : 0..(now + 1)]
        BY <2>1
      <3>1. clients[c] \in [limiter : LimiterType(ClientCap, now), lastSeen : 0..now]
        BY <1>0 DEF TypeOK
      <3>2. clients[c].limiter \in LimiterType(ClientCap, now + 1)
        BY <1>0, <3>1, LimiterAges, CapNat
      <3> QED
        BY <1>0, <3>1, <3>2
    <2>4. /\ nextFire' \in Nat /\ fired' \in BOOLEAN
          /\ window' \in [length : 0..now', total : Nat, by : [Clients -> Nat]]
      <3>1. nextFire' \in Nat /\ fired' \in BOOLEAN
        <4>1. CASE evictor = "running" /\ now + 1 >= nextFire
          BY <1>0, <1>5, <4>1, ConfigAssumption DEF Tick, TypeOK
        <4>2. CASE ~(evictor = "running" /\ now + 1 >= nextFire)
          BY <1>0, <1>5, <4>2 DEF Tick, TypeOK
        <4> QED
          BY <4>1, <4>2
      <3>2. window' \in [length : 0..now', total : Nat, by : [Clients -> Nat]]
        BY <1>0, <1>5, <2>1 DEF Tick, TypeOK
      <3> QED
        BY <3>1, <3>2
    <2> QED
      BY <1>0, <2>1, <2>2, <2>3, <2>4 DEF LimiterInv, TypeOK, Fresh, Kept
  <1>6. CASE OpenWindow
    BY <1>0, <1>6
       DEF LimiterInv, TypeOK, Fresh, Kept, OpenWindow, EmptyWindow, limiterVars, evictorVars
  <1>7. CASE UNCHANGED vars
    BY <1>7 DEF LimiterInv, TypeOK, Fresh, Kept, vars, limiterVars, evictorVars
  <1> QED
    BY <1>1, <1>2, <1>3, <1>4, <1>5, <1>6, <1>7 DEF Next

(* The invariant holds in every reachable state. *)
LEMMA LimiterInvAlways == Spec => []LimiterInv
  BY LimiterInvInit, LimiterInvStep, PTL DEF Spec

(* Type correctness: no bucket ever holds negative credit or more than its *)
(* capacity, and no timestamp lies in the future.                          *)
THEOREM TypeCorrect == Spec => []TypeOK
  <1>1. LimiterInv => TypeOK
    BY DEF LimiterInv
  <1> QED
    BY <1>1, LimiterInvAlways, PTL

-----------------------------------------------------------------------------
(* What each step does to the credit the buckets show. *)

(* Credit lies between nothing and the capacity of its bucket. *)
LEMMA CreditRange ==
  ASSUME LimiterInv
  PROVE  /\ GlobalCredit \in 0..GlobalCap
         /\ \A c \in Clients : ClientCredit(c) \in 0..ClientCap
  <1>1. TypeOK /\ now \in Nat
    BY ConfigAssumption DEF LimiterInv, TypeOK
  <1>2. GlobalCredit \in 0..GlobalCap
    BY <1>1, CreditType, CapNat, ConfigAssumption DEF GlobalCredit, Available, TypeOK
  <1>3. ASSUME NEW c \in Clients
        PROVE  ClientCredit(c) \in 0..ClientCap
    BY <1>1, <1>3, LimiterOfType, CreditType, CapNat, ConfigAssumption
       DEF ClientCredit, Available
  <1> QED
    BY <1>2, <1>3

(* A step that touches neither the clock nor a client's entry leaves its   *)
(* credit alone.                                                           *)
LEMMA SameCredit ==
  ASSUME NEW d \in Clients, now' = now,
         Known(d)' = Known(d), Known(d) => clients'[d] = clients[d]
  PROVE  ClientCredit(d)' = ClientCredit(d)
  <1>1. CASE Known(d)
    BY <1>1 DEF ClientCredit, LimiterOf, Available
  <1>2. CASE ~Known(d)
    BY <1>2 DEF ClientCredit, LimiterOf, Available, NewLimiter
  <1> QED
    BY <1>1, <1>2

(* A request charges the server's bucket iff that bucket can pay, and the  *)
(* bucket of its own client, found or created, iff both can.               *)
LEMMA ChargedCredit ==
  ASSUME LimiterInv, NEW c \in Clients, now' = now,
         global' = Spend(global, GlobalLimit, GlobalCap),
         clients' = ClientsAfter(c)
  PROVE  /\ GlobalCredit' = IF GlobalGrants THEN GlobalCredit - TicksPerSecond
                                            ELSE GlobalCredit
         /\ ClientCredit(c)' = IF ClientGrants(c) THEN ClientCredit(c) - TicksPerSecond
                                                  ELSE ClientCredit(c)
         /\ \A d \in Clients \ {c} : ClientCredit(d)' = ClientCredit(d)
  <1>1. TypeOK /\ now \in Nat
    BY ConfigAssumption DEF LimiterInv, TypeOK
  <1>2. GlobalCredit' = IF GlobalGrants THEN GlobalCredit - TicksPerSecond
                                        ELSE GlobalCredit
    <2>1. global \in LimiterType(GlobalCap, now)
      BY <1>1 DEF TypeOK
    <2>2. CreditAt(Spend(global, GlobalLimit, GlobalCap), GlobalLimit, GlobalCap, now) =
            IF GlobalGrants THEN GlobalCredit - TicksPerSecond ELSE GlobalCredit
      BY <1>1, <2>1, SpendFacts, CapNat, ConfigAssumption DEF GlobalGrants, GlobalCredit
    <2>3. GlobalCredit' =
            CreditAt(Spend(global, GlobalLimit, GlobalCap), GlobalLimit, GlobalCap, now)
      BY DEF GlobalCredit, Available
    <2> QED
      BY <2>2, <2>3
  <1>3. ClientCredit(c)' = IF ClientGrants(c) THEN ClientCredit(c) - TicksPerSecond
                                              ELSE ClientCredit(c)
    <2>1. LimiterOf(c) \in LimiterType(ClientCap, now)
      BY <1>1, LimiterOfType
    <2>2. CreditAt(Spend(LimiterOf(c), PerClientLimit, ClientCap),
                   PerClientLimit, ClientCap, now) =
            IF ClientGrants(c) THEN ClientCredit(c) - TicksPerSecond ELSE ClientCredit(c)
      BY <1>1, <2>1, SpendFacts, CapNat, ConfigAssumption DEF ClientGrants, ClientCredit
    <2>3. LimiterOf(c)' = Spend(LimiterOf(c), PerClientLimit, ClientCap)
      <3>1. /\ c \in DOMAIN ClientsAfter(c)
            /\ ClientsAfter(c)[c].limiter = Spend(LimiterOf(c), PerClientLimit, ClientCap)
        BY DEF ClientsAfter
      <3> QED
        BY <3>1 DEF LimiterOf, Known
    <2>4. ClientCredit(c)' =
            CreditAt(Spend(LimiterOf(c), PerClientLimit, ClientCap),
                     PerClientLimit, ClientCap, now)
      BY <2>3 DEF ClientCredit, Available
    <2> QED
      BY <2>2, <2>4
  <1>4. ASSUME NEW d \in Clients \ {c}
        PROVE  ClientCredit(d)' = ClientCredit(d)
    <2>1. Known(d)' = Known(d)
      BY <1>4 DEF Known, ClientsAfter
    <2>2. Known(d) => clients'[d] = clients[d]
      BY <1>4 DEF Known, ClientsAfter
    <2> QED
      BY <1>4, <2>1, <2>2, SameCredit
  <1> QED
    BY <1>2, <1>3, <1>4

(* A tick refills every bucket, the buckets that do not exist included. *)
LEMMA TickCredit ==
  ASSUME LimiterInv, Tick
  PROVE  /\ GlobalCredit' = IF GlobalCredit + GlobalLimit > GlobalCap
                            THEN GlobalCap ELSE GlobalCredit + GlobalLimit
         /\ \A c \in Clients :
              ClientCredit(c)' = IF ClientCredit(c) + PerClientLimit > ClientCap
                                 THEN ClientCap ELSE ClientCredit(c) + PerClientLimit
  <1>1. TypeOK /\ now \in Nat
    BY ConfigAssumption DEF LimiterInv, TypeOK
  <1>2. now' = now + 1 /\ global' = global /\ clients' = clients
    BY DEF Tick, limiterVars
  <1>3. GlobalCredit' = IF GlobalCredit + GlobalLimit > GlobalCap
                        THEN GlobalCap ELSE GlobalCredit + GlobalLimit
    <2>1. GlobalCredit' = CreditAt(global, GlobalLimit, GlobalCap, now + 1)
      BY <1>2 DEF GlobalCredit, Available
    <2> QED
      BY <1>1, <2>1, CreditTick, CapNat, ConfigAssumption
         DEF GlobalCredit, Available, TypeOK
  <1>4. ASSUME NEW c \in Clients
        PROVE  ClientCredit(c)' = IF ClientCredit(c) + PerClientLimit > ClientCap
                                  THEN ClientCap ELSE ClientCredit(c) + PerClientLimit
    <2>1. CASE Known(c)
      <3>1. LimiterOf(c)' = LimiterOf(c)
        BY <1>2, <2>1 DEF LimiterOf, Known
      <3>2. ClientCredit(c)' = CreditAt(LimiterOf(c), PerClientLimit, ClientCap, now + 1)
        BY <1>2, <3>1 DEF ClientCredit, Available
      <3>3. LimiterOf(c) \in LimiterType(ClientCap, now)
        BY <1>1, <1>4, LimiterOfType
      <3> QED
        BY <1>1, <3>2, <3>3, CreditTick, CapNat, ConfigAssumption
           DEF ClientCredit, Available
    <2>2. CASE ~Known(c)
      <3>1. ClientCredit(c) = ClientCap
        BY <1>1, <2>2, CreditNow, CapNat, ConfigAssumption
           DEF ClientCredit, Available, LimiterOf, NewLimiter
      <3>2. ~Known(c)' /\ now' \in Nat
        BY <1>1, <1>2, <2>2 DEF Known
      <3>3. ClientCredit(c)' = ClientCap
        BY <3>2, CreditNow, CapNat, ConfigAssumption
           DEF ClientCredit, Available, LimiterOf, NewLimiter
      <3> QED
        BY <3>1, <3>3, CapNat, ConfigAssumption
    <2> QED
      BY <2>1, <2>2
  <1> QED
    BY <1>3, <1>4

(* Eviction is invisible: an evicted bucket was full, and the one its      *)
(* client gets on coming back will be full too.                            *)
LEMMA EvictCredit ==
  ASSUME LimiterInv, EvictExpired
  PROVE  /\ GlobalCredit' = GlobalCredit
         /\ \A c \in Clients : ClientCredit(c)' = ClientCredit(c)
  <1>1. TypeOK /\ now \in Nat
    BY ConfigAssumption DEF LimiterInv, TypeOK
  <1>2. now' = now /\ global' = global
    BY DEF EvictExpired
  <1>3. GlobalCredit' = GlobalCredit
    BY <1>2 DEF GlobalCredit, Available
  <1>4. ASSUME NEW c \in Clients
        PROVE  ClientCredit(c)' = ClientCredit(c)
    <2>1. CASE Known(c) /\ Expired(c)
      <3>1. ~Known(c)'
        BY <2>1 DEF EvictExpired, Known
      <3>2. ClientCredit(c)' = ClientCap
        BY <1>1, <1>2, <3>1, CreditNow, CapNat, ConfigAssumption
           DEF ClientCredit, Available, LimiterOf, NewLimiter
      <3>3. clients[c] \in [limiter : LimiterType(ClientCap, now), lastSeen : 0..now]
        BY <1>1, <2>1 DEF TypeOK, Known
      <3>4. clients[c].limiter.last \in 0..now /\ clients[c].lastSeen \in 0..now
        BY <3>3 DEF LimiterType
      <3>5. now - clients[c].limiter.last >= ClientTTL
        BY <1>1, <2>1, <3>4, ConfigAssumption DEF LimiterInv, Fresh, Expired, Known
      <3>6. ClientCredit(c) = ClientCap
        BY <1>1, <2>1, <3>3, <3>5, CreditIdle DEF ClientCredit, Available, LimiterOf
      <3> QED
        BY <3>2, <3>6
    <2>2. CASE ~(Known(c) /\ Expired(c))
      <3>1. Known(c)' = Known(c) /\ (Known(c) => clients'[c] = clients[c])
        BY <2>2 DEF EvictExpired, Known
      <3> QED
        BY <1>2, <1>4, <3>1, SameCredit
    <2> QED
      BY <2>1, <2>2
  <1> QED
    BY <1>3, <1>4

-----------------------------------------------------------------------------
(* Each step, as the steps of the policy see it. *)

(* Allow answers as the policy's request does. *)
LEMMA AllowIsRequest ==
  ASSUME LimiterInv, NEW c \in Clients, Allow(c)
  PROVE  \/ Policy!RefuseForAll(c) /\ RejectGlobal(c)
         \/ Policy!RefuseClient(c) /\ RejectClient(c)
         \/ Policy!Serve(c) /\ Admit(c)
  <1>1. now' = now
    BY DEF Allow
  <1>2. GlobalGrants <=> GlobalCredit >= TicksPerSecond
    BY DEF GlobalGrants, Grants, GlobalCredit
  <1>3. ClientGrants(c) <=> ClientCredit(c) >= TicksPerSecond
    BY DEF ClientGrants, Grants, ClientCredit
  <1>4. /\ GlobalCredit \in Int
        /\ \A d \in Clients : ClientCredit(d) \in Int
    BY CreditRange, CapNat
  <1>5. TicksPerSecond \in Int
    BY ConfigAssumption
  <1>6. CASE RejectGlobal(c)
    <2>1. global' = global /\ clients' = clients
      BY <1>6 DEF RejectGlobal
    <2>2. GlobalCredit' = GlobalCredit
      BY <1>1, <2>1 DEF GlobalCredit, Available
    <2>3. \A d \in Clients : ClientCredit(d)' = ClientCredit(d)
      BY <1>1, <2>1, SameCredit DEF Known
    <2> QED
      BY <1>2, <1>4, <1>5, <1>6, <2>2, <2>3 DEF RejectGlobal, Policy!RefuseForAll
  <1>7. CASE RejectClient(c)
    <2>1. /\ GlobalGrants /\ ~ClientGrants(c)
          /\ global' = Spend(global, GlobalLimit, GlobalCap)
          /\ clients' = ClientsAfter(c) /\ verdict' = "deny"
      BY <1>7 DEF RejectClient
    <2>2. /\ GlobalCredit' = GlobalCredit - TicksPerSecond
          /\ \A d \in Clients : ClientCredit(d)' = ClientCredit(d)
      BY <1>1, <2>1, ChargedCredit
    <2> QED
      BY <1>2, <1>3, <1>4, <1>5, <1>7, <2>1, <2>2 DEF Policy!RefuseClient
  <1>8. CASE Admit(c)
    <2>1. /\ GlobalGrants /\ ClientGrants(c)
          /\ global' = Spend(global, GlobalLimit, GlobalCap)
          /\ clients' = ClientsAfter(c) /\ verdict' = "allow"
      BY <1>8 DEF Admit
    <2>2. /\ GlobalCredit' = GlobalCredit - TicksPerSecond
          /\ ClientCredit(c)' = ClientCredit(c) - TicksPerSecond
          /\ \A d \in Clients \ {c} : ClientCredit(d)' = ClientCredit(d)
      BY <1>1, <2>1, ChargedCredit
    <2>3. [d \in Clients |-> ClientCredit(d)]'
            = [[d \in Clients |-> ClientCredit(d)] EXCEPT ![c] = @ - TicksPerSecond]
      BY <2>2
    <2> QED
      BY <1>2, <1>3, <1>4, <1>5, <1>8, <2>1, <2>2, <2>3 DEF Policy!Serve
  <1> QED
    BY <1>6, <1>7, <1>8 DEF Allow

(* A tick is the policy's refill. *)
LEMMA TickIsRefill == LimiterInv /\ Tick => Policy!Refill
  <1> SUFFICES ASSUME LimiterInv, Tick PROVE Policy!Refill
    OBVIOUS
  <1>1. verdict' = verdict
    BY DEF Tick, limiterVars
  <1> QED
    BY <1>1, TickCredit DEF Policy!Refill, Policy!Capped

(* Every other step is one the policy does not see. *)
LEMMA OthersStutter ==
  ASSUME LimiterInv,
         EvictExpired \/ EvictorReturns \/ Stop \/ OpenWindow \/ UNCHANGED vars
  PROVE  /\ GlobalCredit' = GlobalCredit
         /\ \A c \in Clients : ClientCredit(c)' = ClientCredit(c)
         /\ verdict' = verdict
  <1>1. CASE EvictExpired
    BY <1>1, EvictCredit DEF EvictExpired
  <1>2. CASE EvictorReturns \/ Stop \/ OpenWindow \/ UNCHANGED vars
    <2>1. now' = now /\ global' = global /\ clients' = clients /\ verdict' = verdict
      BY <1>2 DEF EvictorReturns, Stop, OpenWindow, vars, limiterVars
    <2>2. \A c \in Clients : ClientCredit(c)' = ClientCredit(c)
      BY <2>1, SameCredit DEF Known
    <2> QED
      BY <2>1, <2>2 DEF GlobalCredit, Available
  <1> QED
    BY <1>1, <1>2

(* The limiter, with its lazily created, lazily refilled and evicted       *)
(* buckets, implements the policy: a bucket per client for ever.           *)
THEOREM LimiterImplementsPolicy == Spec => ImplementsPolicy
  <1>1. Init => Policy!Init
    <2> SUFFICES ASSUME Init PROVE Policy!Init
      OBVIOUS
    <2>1. now \in Nat
      BY DEF Init
    <2>2. GlobalCredit = GlobalCap
      BY <2>1, CreditNow, CapNat, ConfigAssumption
         DEF Init, GlobalCredit, Available, NewLimiter
    <2>3. \A c \in Clients : ClientCredit(c) = ClientCap
      BY <2>1, CreditNow, CapNat, ConfigAssumption
         DEF Init, ClientCredit, Available, NewLimiter, LimiterOf, Known
    <2> QED
      BY <2>2, <2>3 DEF Init, Policy!Init
  <1>2. LimiterInv /\ [Next]_vars => [Policy!Next]_(Policy!vars)
    <2> SUFFICES ASSUME LimiterInv, [Next]_vars
                 PROVE  [Policy!Next]_(Policy!vars)
      OBVIOUS
    <2>1. CASE \E c \in Clients : Allow(c)
      BY <2>1, AllowIsRequest DEF Policy!Next, Policy!Request
    <2>2. CASE Tick
      BY <2>2, TickIsRefill DEF Policy!Next
    <2>3. CASE EvictExpired \/ EvictorReturns \/ Stop \/ OpenWindow \/ UNCHANGED vars
      BY <2>3, OthersStutter DEF Policy!vars
    <2> QED
      BY <2>1, <2>2, <2>3 DEF Next
  <1> QED
    BY <1>1, <1>2, LimiterInvAlways, PTL DEF Spec, ImplementsPolicy, Policy!Spec

-----------------------------------------------------------------------------
(* The bounds over windows of time: what was admitted has been paid for.   *)

(* What a client has left and what it spent in the window together never   *)
(* exceed a full bucket and the refill of the window.                      *)
ClientPaid ==
  \A c \in Clients :
    ClientCredit(c) + window.by[c] * TicksPerSecond
      <= ClientCap + PerClientLimit * window.length

(* The same of the server's bucket. *)
GlobalPaid ==
  GlobalCredit + window.total * TicksPerSecond
    <= GlobalCap + GlobalLimit * window.length

Paid == LimiterInv /\ ClientPaid /\ GlobalPaid

(* The products the two inequalities are made of are natural numbers. *)
LEMMA WindowType ==
  ASSUME LimiterInv
  PROVE  /\ window.length \in Nat /\ window.total \in Nat
         /\ PerClientLimit * window.length \in Nat
         /\ GlobalLimit * window.length \in Nat
         /\ window.total * TicksPerSecond \in Nat
         /\ \A c \in Clients :
              window.by[c] \in Nat /\ window.by[c] * TicksPerSecond \in Nat
  <1>1. window \in [length : 0..now, total : Nat, by : [Clients -> Nat]] /\ now \in Nat
    BY ConfigAssumption DEF LimiterInv, TypeOK
  <1>2. /\ window.length \in Nat /\ window.total \in Nat
        /\ \A c \in Clients : window.by[c] \in Nat
    BY <1>1
  <1> QED
    BY <1>2, TimesNat, ConfigAssumption

(* Every step preserves both inequalities. *)
LEMMA PaidStep == Paid /\ [Next]_vars => ClientPaid' /\ GlobalPaid'
  <1> SUFFICES ASSUME Paid, [Next]_vars PROVE ClientPaid' /\ GlobalPaid'
    OBVIOUS
  <1>0. LimiterInv /\ ClientPaid /\ GlobalPaid
    BY DEF Paid
  <1>1. /\ GlobalCredit \in Int
        /\ \A c \in Clients : ClientCredit(c) \in Int
        /\ GlobalCap \in Nat /\ ClientCap \in Nat
        /\ TicksPerSecond \in Nat /\ GlobalLimit \in Nat /\ PerClientLimit \in Nat
    BY <1>0, CreditRange, CapNat, ConfigAssumption
  <1>2. ASSUME NEW c \in Clients, Allow(c)
        PROVE  ClientPaid' /\ GlobalPaid'
    <2>1. CASE Policy!RefuseForAll(c) /\ RejectGlobal(c)
      <3>1. /\ window' = window /\ GlobalCredit' = GlobalCredit
            /\ \A d \in Clients : ClientCredit(d)' = ClientCredit(d)
        BY <2>1 DEF Policy!RefuseForAll, RejectGlobal
      <3> QED
        BY <1>0, <3>1 DEF ClientPaid, GlobalPaid
    <2>2. CASE Policy!RefuseClient(c) /\ RejectClient(c)
      <3>1. /\ window' = window /\ GlobalCredit' = GlobalCredit - TicksPerSecond
            /\ \A d \in Clients : ClientCredit(d)' = ClientCredit(d)
        BY <2>2 DEF Policy!RefuseClient, RejectClient
      <3>2. GlobalPaid'
        BY <1>0, <1>1, <3>1, WindowType DEF GlobalPaid
      <3>3. ClientPaid'
        BY <1>0, <3>1 DEF ClientPaid
      <3> QED
        BY <3>2, <3>3
    <2>3. CASE Policy!Serve(c) /\ Admit(c)
      <3>1. /\ GlobalCredit' = GlobalCredit - TicksPerSecond
            /\ \A d \in Clients : ClientCredit(d)' =
                 IF d = c THEN ClientCredit(d) - TicksPerSecond ELSE ClientCredit(d)
        BY <2>3 DEF Policy!Serve
      <3>2. /\ window'.length = window.length
            /\ window'.total = window.total + 1
            /\ \A d \in Clients :
                 window'.by[d] = IF d = c THEN window.by[d] + 1 ELSE window.by[d]
        BY <1>0, <2>3 DEF Admit, CountAdmitted, LimiterInv, TypeOK
      <3>3. \A x \in Nat : (x + 1) * TicksPerSecond = x * TicksPerSecond + TicksPerSecond
        BY <1>1
      <3>4. GlobalPaid'
        <4>1. window'.total * TicksPerSecond
                = window.total * TicksPerSecond + TicksPerSecond
          BY <1>0, <3>2, <3>3, WindowType
        <4> QED
          BY <1>0, <1>1, <3>1, <3>2, <4>1, WindowType DEF GlobalPaid
      <3>5. ASSUME NEW d \in Clients
            PROVE  ClientCredit(d)' + window'.by[d] * TicksPerSecond
                     <= ClientCap + PerClientLimit * window'.length
        <4>1. CASE d = c
          <5>1. window'.by[d] * TicksPerSecond
                  = window.by[d] * TicksPerSecond + TicksPerSecond
            BY <1>0, <3>2, <3>3, <4>1, WindowType
          <5> QED
            BY <1>0, <1>1, <3>1, <3>2, <4>1, <5>1, WindowType DEF ClientPaid
        <4>2. CASE d # c
          BY <1>0, <3>1, <3>2, <4>2 DEF ClientPaid
        <4> QED
          BY <4>1, <4>2
      <3> QED
        BY <3>4, <3>5 DEF ClientPaid
    <2> QED
      BY <1>0, <1>2, <2>1, <2>2, <2>3, AllowIsRequest
  <1>3. CASE Tick
    <2>1. window' = [window EXCEPT !.length = @ + 1]
      BY <1>3 DEF Tick
    <2>2. /\ window'.length = window.length + 1
          /\ window'.total = window.total /\ window'.by = window.by
      BY <1>0, <2>1 DEF LimiterInv, TypeOK
    <2>3. /\ PerClientLimit * (window.length + 1) = PerClientLimit * window.length + PerClientLimit
          /\ GlobalLimit * (window.length + 1) = GlobalLimit * window.length + GlobalLimit
      BY <1>0, <1>1, WindowType, TimesSucc
    <2>4. GlobalPaid'
      <3>1. GlobalCredit' <= GlobalCredit + GlobalLimit /\ GlobalCredit' \in Int
        BY <1>0, <1>1, <1>3, TickCredit
      <3> QED
        BY <1>0, <1>1, <2>2, <2>3, <3>1, WindowType DEF GlobalPaid
    <2>5. ASSUME NEW c \in Clients
          PROVE  ClientCredit(c)' + window'.by[c] * TicksPerSecond
                   <= ClientCap + PerClientLimit * window'.length
      <3>1. ClientCredit(c)' <= ClientCredit(c) + PerClientLimit /\ ClientCredit(c)' \in Int
        BY <1>0, <1>1, <1>3, TickCredit
      <3> QED
        BY <1>0, <1>1, <2>2, <2>3, <3>1, WindowType DEF ClientPaid
    <2> QED
      BY <2>4, <2>5 DEF ClientPaid
  <1>4. CASE OpenWindow
    <2>1. /\ GlobalCredit' = GlobalCredit
          /\ \A c \in Clients : ClientCredit(c)' = ClientCredit(c)
      BY <1>0, <1>4, OthersStutter
    <2>2. /\ window'.length = 0 /\ window'.total = 0
          /\ \A c \in Clients : window'.by[c] = 0
      BY <1>4 DEF OpenWindow, EmptyWindow
    <2>3. /\ GlobalCredit <= GlobalCap
          /\ \A c \in Clients : ClientCredit(c) <= ClientCap
      BY <1>0, CreditRange, CapNat
    <2> QED
      BY <1>1, <2>1, <2>2, <2>3 DEF ClientPaid, GlobalPaid
  <1>5. CASE EvictExpired \/ EvictorReturns \/ Stop \/ UNCHANGED vars
    <2>1. /\ GlobalCredit' = GlobalCredit
          /\ \A c \in Clients : ClientCredit(c)' = ClientCredit(c)
      BY <1>0, <1>5, OthersStutter
    <2>2. window' = window
      BY <1>5 DEF EvictExpired, EvictorReturns, Stop, vars
    <2> QED
      BY <1>0, <2>1, <2>2 DEF ClientPaid, GlobalPaid
  <1> QED
    BY <1>2, <1>3, <1>4, <1>5 DEF Next

(* Nothing was admitted and every bucket is full when NewRateLimiter       *)
(* returns.                                                                *)
LEMMA PaidInit == Init => ClientPaid /\ GlobalPaid
  <1> SUFFICES ASSUME Init PROVE ClientPaid /\ GlobalPaid
    OBVIOUS
  <1>1. /\ GlobalCredit \in 0..GlobalCap
        /\ \A c \in Clients : ClientCredit(c) \in 0..ClientCap
    BY LimiterInvInit, CreditRange
  <1>2. /\ window.length = 0 /\ window.total = 0
        /\ \A c \in Clients : window.by[c] = 0
    BY DEF Init, EmptyWindow
  <1> QED
    BY <1>1, <1>2, CapNat, ConfigAssumption DEF ClientPaid, GlobalPaid

(* The two inequalities hold in every reachable state. *)
LEMMA PaidAlways == Spec => []Paid
  <1>1. Init => Paid
    BY LimiterInvInit, PaidInit DEF Paid
  <1>2. Paid /\ [Next]_vars => Paid'
    BY LimiterInvStep, PaidStep DEF Paid
  <1> QED
    BY <1>1, <1>2, PTL DEF Spec

(* Over every window of time, evictions included, a client is admitted at  *)
(* most burst + limit * length times (RateLimiter.Allow, evictExpired).    *)
THEOREM ClientWindowBounded == Spec => []ClientWindowBound
  <1>1. Paid => ClientWindowBound
    <2> SUFFICES ASSUME Paid, NEW c \in Clients
                 PROVE  window.by[c] * TicksPerSecond
                          <= ClientCap + PerClientLimit * window.length
      BY DEF ClientWindowBound
    <2> QED
      BY CreditRange, WindowType, CapNat DEF Paid, ClientPaid
  <1> QED
    BY <1>1, PaidAlways, PTL

(* Over every window of time the server admits at most burst + limit *     *)
(* length requests (RateLimiter.Allow).                                    *)
THEOREM GlobalWindowBounded == Spec => []GlobalWindowBound
  <1>1. Paid => GlobalWindowBound
    BY CreditRange, WindowType, CapNat DEF Paid, GlobalPaid, GlobalWindowBound
  <1> QED
    BY <1>1, PaidAlways, PTL

-----------------------------------------------------------------------------
(* The bound on the map: to enter it, or to be stamped anew, a client must *)
(* take a token from the server's bucket.                                  *)

(* The clients whose latest request to reach the map came at t or later. *)
SeenSince(t) == {c \in DOMAIN clients : clients[c].lastSeen >= t}

(* Clients seen since t, each worth a token, and what the server's bucket  *)
(* holds never exceed a full bucket and the refill since t.                *)
SeenPaid ==
  \A t \in Int :
    t <= now =>
      Cardinality(SeenSince(t)) * TicksPerSecond + GlobalCredit
        <= GlobalCap + GlobalLimit * (now - t)

(* The sets counted are finite: their members are clients. *)
LEMMA SeenFinite ==
  ASSUME LimiterInv
  PROVE  \A t \in Int : /\ IsFiniteSet(SeenSince(t))
                        /\ Cardinality(SeenSince(t)) \in Nat
                        /\ Cardinality(SeenSince(t)) * TicksPerSecond \in Nat
  <1> SUFFICES ASSUME NEW t \in Int
               PROVE  /\ IsFiniteSet(SeenSince(t))
                      /\ Cardinality(SeenSince(t)) \in Nat
                      /\ Cardinality(SeenSince(t)) * TicksPerSecond \in Nat
    OBVIOUS
  <1>1. SeenSince(t) \in SUBSET Clients
    BY DEF SeenSince, LimiterInv, TypeOK
  <1>2. IsFiniteSet(SeenSince(t))
    BY <1>1, FS_Subset, ConfigAssumption
  <1>3. Cardinality(SeenSince(t)) \in Nat
    BY <1>2, FS_CardinalityType
  <1> QED
    BY <1>2, <1>3, TimesNat, ConfigAssumption

(* A step that adds nobody to the clients seen since t adds nothing to the *)
(* count.                                                                  *)
LEMMA SeenShrinks ==
  ASSUME LimiterInv, NEW t \in Int, SeenSince(t)' \subseteq SeenSince(t)
  PROVE  /\ Cardinality(SeenSince(t)') \in Nat
         /\ Cardinality(SeenSince(t)') * TicksPerSecond
              <= Cardinality(SeenSince(t)) * TicksPerSecond
         /\ Cardinality(SeenSince(t)') * TicksPerSecond \in Nat
  <1>1. /\ Cardinality(SeenSince(t)') <= Cardinality(SeenSince(t))
        /\ Cardinality(SeenSince(t)') \in Nat
    BY SeenFinite, FS_Subset, FS_CardinalityType
  <1>2. TicksPerSecond * Cardinality(SeenSince(t)')
          <= TicksPerSecond * Cardinality(SeenSince(t))
    BY <1>1, SeenFinite, TimesMono, ConfigAssumption
  <1>3. \A x \in Nat : x * TicksPerSecond = TicksPerSecond * x
    BY ConfigAssumption
  <1> QED
    BY <1>1, <1>2, <1>3, SeenFinite, TimesNat, ConfigAssumption

(* A request adds its own client and nobody else. *)
LEMMA SeenGrows ==
  ASSUME LimiterInv, NEW t \in Int, NEW c \in Clients, clients' = ClientsAfter(c)
  PROVE  /\ Cardinality(SeenSince(t)') \in Nat
         /\ Cardinality(SeenSince(t)') * TicksPerSecond
              <= Cardinality(SeenSince(t)) * TicksPerSecond + TicksPerSecond
         /\ Cardinality(SeenSince(t)') * TicksPerSecond \in Nat
  <1>1. SeenSince(t)' \in SUBSET (SeenSince(t) \cup {c})
    BY DEF SeenSince, ClientsAfter
  <1>2. /\ IsFiniteSet(SeenSince(t) \cup {c})
        /\ Cardinality(SeenSince(t) \cup {c}) <= Cardinality(SeenSince(t)) + 1
    <2>1. IsFiniteSet(SeenSince(t)) /\ Cardinality(SeenSince(t)) \in Nat
      BY SeenFinite
    <2>2. /\ IsFiniteSet(SeenSince(t) \cup {c})
          /\ Cardinality(SeenSince(t) \cup {c}) =
               IF c \in SeenSince(t) THEN Cardinality(SeenSince(t))
                                     ELSE Cardinality(SeenSince(t)) + 1
      BY <2>1, FS_AddElement
    <2> QED
      BY <2>1, <2>2
  <1>3. /\ Cardinality(SeenSince(t)') \in Nat
        /\ Cardinality(SeenSince(t)') <= Cardinality(SeenSince(t)) + 1
    <2>1. /\ IsFiniteSet(SeenSince(t)')
          /\ Cardinality(SeenSince(t)') <= Cardinality(SeenSince(t) \cup {c})
      BY <1>1, <1>2, FS_Subset
    <2>2. /\ Cardinality(SeenSince(t)') \in Nat
          /\ Cardinality(SeenSince(t) \cup {c}) \in Nat
      BY <1>2, <2>1, FS_CardinalityType
    <2> QED
      BY <1>2, <2>1, <2>2, SeenFinite
  <1>4. TicksPerSecond * Cardinality(SeenSince(t)')
          <= TicksPerSecond * (Cardinality(SeenSince(t)) + 1)
    BY <1>3, SeenFinite, TimesMono, ConfigAssumption
  <1>5. TicksPerSecond * (Cardinality(SeenSince(t)) + 1)
          = TicksPerSecond * Cardinality(SeenSince(t)) + TicksPerSecond
    BY SeenFinite, TimesSucc, ConfigAssumption
  <1>6. \A x \in Nat : x * TicksPerSecond = TicksPerSecond * x
    BY ConfigAssumption
  <1> QED
    BY <1>3, <1>4, <1>5, <1>6, SeenFinite, TimesNat, ConfigAssumption

(* Every step preserves the inequality. *)
LEMMA SeenPaidStep == LimiterInv /\ SeenPaid /\ [Next]_vars => SeenPaid'
  <1> SUFFICES ASSUME LimiterInv, SeenPaid, [Next]_vars, NEW t \in Int, t <= now'
               PROVE  Cardinality(SeenSince(t)') * TicksPerSecond + GlobalCredit'
                        <= GlobalCap + GlobalLimit * (now' - t)
    BY DEF SeenPaid
  <1>1. /\ now \in Nat
        /\ GlobalCredit \in Int /\ GlobalCap \in Nat
        /\ TicksPerSecond \in Nat /\ GlobalLimit \in Nat
        /\ Cardinality(SeenSince(t)) * TicksPerSecond \in Nat
    BY CreditRange, CapNat, ConfigAssumption, SeenFinite DEF LimiterInv, TypeOK
  <1>2. \A x \in Int : GlobalLimit * x \in Int
    BY <1>1
  <1>3. ASSUME NEW c \in Clients, Allow(c)
        PROVE  Cardinality(SeenSince(t)') * TicksPerSecond + GlobalCredit'
                 <= GlobalCap + GlobalLimit * (now' - t)
    <2>1. now' = now
      BY <1>3 DEF Allow
    <2>2. CASE Policy!RefuseForAll(c) /\ RejectGlobal(c)
      <3>1. GlobalCredit' = GlobalCredit /\ SeenSince(t)' = SeenSince(t)
        BY <2>2 DEF Policy!RefuseForAll, RejectGlobal, SeenSince
      <3> QED
        BY <2>1, <3>1 DEF SeenPaid
    <2>3. CASE \/ Policy!RefuseClient(c) /\ RejectClient(c)
               \/ Policy!Serve(c) /\ Admit(c)
      <3>1. GlobalCredit' = GlobalCredit - TicksPerSecond
        BY <2>3 DEF Policy!RefuseClient, Policy!Serve
      <3>2. clients' = ClientsAfter(c)
        BY <2>3 DEF RejectClient, Admit
      <3>3. /\ Cardinality(SeenSince(t)') * TicksPerSecond
                 <= Cardinality(SeenSince(t)) * TicksPerSecond + TicksPerSecond
            /\ Cardinality(SeenSince(t)') * TicksPerSecond \in Nat
        BY <1>3, <3>2, SeenGrows
      <3>4. Cardinality(SeenSince(t)) * TicksPerSecond + GlobalCredit
              <= GlobalCap + GlobalLimit * (now - t)
        BY <2>1 DEF SeenPaid
      <3> QED
        BY <1>1, <1>2, <2>1, <3>1, <3>3, <3>4
    <2> QED
      BY <1>3, <2>2, <2>3, AllowIsRequest
  <1>4. CASE Tick
    <2>1. now' = now + 1 /\ clients' = clients
      BY <1>4 DEF Tick, limiterVars
    <2>2. /\ GlobalCredit' \in Int
          /\ GlobalCredit' <= GlobalCredit + GlobalLimit
          /\ GlobalCredit' <= GlobalCap
      BY <1>1, <1>4, TickCredit, CreditRange
    <2>3. SeenSince(t)' = SeenSince(t)
      BY <2>1 DEF SeenSince
    <2>4. CASE t <= now
      <3>1. GlobalLimit * (now' - t) = GlobalLimit * (now - t) + GlobalLimit
        <4>1. now' - t = (now - t) + 1
          BY <1>1, <2>1
        <4> QED
          BY <1>1, <4>1, TimesSucc
      <3>2. Cardinality(SeenSince(t)) * TicksPerSecond + GlobalCredit
              <= GlobalCap + GlobalLimit * (now - t)
        BY <2>4 DEF SeenPaid
      <3> QED
        BY <1>1, <1>2, <2>2, <2>3, <3>1, <3>2
    <2>5. CASE t = now + 1
      <3>1. SeenSince(t) = {}
        BY <1>1, <2>5 DEF SeenSince, LimiterInv, TypeOK
      <3>2. Cardinality(SeenSince(t)') * TicksPerSecond = 0
        BY <1>1, <2>3, <3>1, FS_EmptySet
      <3>3. GlobalLimit * (now' - t) = 0
        BY <1>1, <2>1, <2>5
      <3> QED
        BY <1>1, <2>2, <3>2, <3>3
    <2> QED
      BY <1>1, <2>1, <2>4, <2>5
  <1>5. CASE EvictExpired \/ EvictorReturns \/ Stop \/ OpenWindow \/ UNCHANGED vars
    <2>1. GlobalCredit' = GlobalCredit
      BY <1>5, OthersStutter
    <2>2. now' = now
      BY <1>5 DEF EvictExpired, EvictorReturns, Stop, OpenWindow, vars
    <2>3. SeenSince(t)' \subseteq SeenSince(t)
      BY <1>5 DEF EvictExpired, EvictorReturns, Stop, OpenWindow, vars, limiterVars,
                  SeenSince
    <2>4. Cardinality(SeenSince(t)) * TicksPerSecond + GlobalCredit
            <= GlobalCap + GlobalLimit * (now - t)
      BY <2>2 DEF SeenPaid
    <2> QED
      BY <1>1, <1>2, <2>1, <2>2, <2>3, <2>4, SeenShrinks
  <1> QED
    BY <1>3, <1>4, <1>5 DEF Next

(* No client was seen and the bucket is full when NewRateLimiter returns. *)
LEMMA SeenPaidInit == Init => SeenPaid
  <1> SUFFICES ASSUME Init, NEW t \in Int, t <= now
               PROVE  Cardinality(SeenSince(t)) * TicksPerSecond + GlobalCredit
                        <= GlobalCap + GlobalLimit * (now - t)
    BY DEF SeenPaid
  <1>1. SeenSince(t) = {} /\ now = 0
    BY DEF Init, SeenSince
  <1>2. Cardinality(SeenSince(t)) * TicksPerSecond = 0
    BY <1>1, FS_EmptySet, ConfigAssumption
  <1>3. GlobalCredit \in 0..GlobalCap
    BY LimiterInvInit, CreditRange
  <1>4. GlobalLimit * (now - t) \in Nat
    BY <1>1, TimesNat, ConfigAssumption
  <1> QED
    BY <1>2, <1>3, <1>4, CapNat

(* The map of per-client limiters stays bounded by what the server's       *)
(* bucket let through since a TTL before the last sweep, however many      *)
(* addresses call (Allow's early return, evictExpired).                    *)
THEOREM MapBounded == Spec => []MapBound
  <1>1. LimiterInv /\ SeenPaid => MapBound
    <2> SUFFICES ASSUME LimiterInv, SeenPaid PROVE MapBound
      OBVIOUS
    <2> DEFINE horizon == lastSweep - ClientTTL
    <2>1. /\ now \in Nat /\ lastSweep \in 0..now /\ ClientTTL \in Nat
          /\ horizon \in Int /\ horizon <= now
      BY ConfigAssumption DEF LimiterInv, TypeOK
    <2>2. SeenSince(horizon) = DOMAIN clients
      BY DEF LimiterInv, Kept, SeenSince
    <2>3. Cardinality(DOMAIN clients) * TicksPerSecond + GlobalCredit
            <= GlobalCap + GlobalLimit * (now - horizon)
      BY <2>1, <2>2 DEF SeenPaid
    <2>4. now - horizon = now - lastSweep + ClientTTL
      BY <2>1
    <2>5. /\ Cardinality(DOMAIN clients) * TicksPerSecond \in Nat
          /\ GlobalCredit \in 0..GlobalCap
      BY <2>1, <2>2, SeenFinite, CreditRange
    <2>6. GlobalLimit * (now - lastSweep + ClientTTL) \in Nat
      BY <2>1, TimesNat, ConfigAssumption
    <2> QED
      BY <2>3, <2>4, <2>5, <2>6, CapNat DEF MapBound
  <1>2. Spec => []SeenPaid
    BY SeenPaidInit, SeenPaidStep, LimiterInvAlways, PTL DEF Spec
  <1> QED
    BY <1>1, <1>2, LimiterInvAlways, PTL
=============================================================================
