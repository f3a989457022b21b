--------------------------- MODULE ServiceProofs ---------------------------
(***************************************************************************)
(* Proofs about Service, for any number of requests, any batch size and    *)
(* every setting of the timeouts, rates and bursts: what time and the      *)
(* limiter together guarantee to a client and to SearXNG.                  *)
(***************************************************************************)
EXTENDS Service, FiniteSetTheorems, TLAPS

-----------------------------------------------------------------------------
(* The inductive invariant *)

(* The requests a token still stands for: admitted, and neither refused    *)
(* while their body was read nor without a call.                           *)
Paid == {r \in Requests : http[r] = "reading" \/ Batch(r) # {}}

PaidBy(host) == {r \in Paid : Key(header[r]) = host}

ArrivedIn(rs, st, from, to) == {r \in rs : st[r] \in from..to}

(* In every window so far the requests rs have cost no more than a full    *)
(* bucket and what the window refilled; in one that lasts until now the    *)
(* credit that is left comes on top.                                       *)
Windows(rs, st, credit, t, cap, rate) ==
  \A from \in 0..t : \A to \in from..t :
    Cost * Cardinality(ArrivedIn(rs, st, from, to)) + (IF to = t THEN credit ELSE 0)
      <= cap + rate * (to - from)

(* A call asks within a read timeout of its request's arrival and is       *)
(* waited for an outbound timeout at most.                                 *)
CallInv(c) ==
  /\ asked[c] = 1 =>
       phase[c] # "new" /\ askedAt[c] \in start[c[1]]..(start[c[1]] + ReadTimeout)
  /\ phase[c] = "open" =>
       /\ http[c[1]] = "running"
       /\ now <= IF asked[c] = 1 THEN askedAt[c] + OutboundTimeout
                 ELSE start[c[1]] + ReadTimeout
  /\ (writeTimeout = 0 \/ writeTimeout > ReadTimeout + OutboundTimeout) /\ Answered(c)
       => received[c]

ServiceInv ==
  /\ TypeOK
  /\ \A c \in Calls : CallInv(c)
  /\ Windows(Paid, start, globalCredit, now, GlobalCap, GlobalRate)
  /\ \A host \in Hosts :
       Windows(PaidBy(host), start, clientCredit[host], now, ClientCap, ClientRate)

-----------------------------------------------------------------------------
(* Arithmetic and cardinality *)

(* The product of two naturals is a natural. *)
LEMMA TimesNat == \A a, b \in Nat : a * b \in Nat
  OBVIOUS

(* One more tick is worth one more unit of the rate. *)
LEMMA TimesSucc == \A a, b \in Int : a * (b + 1) = a * b + a
  OBVIOUS

(* Waiting longer never earns less. *)
LEMMA TimesMono == \A a \in Nat, b, c \in Int : b <= c => a * b <= a * c
  <1> SUFFICES ASSUME NEW a \in Nat, NEW b \in Int, NEW c \in Int, b <= c
               PROVE  a * b <= a * c
    OBVIOUS
  <1>1. a * (c - b) \in Nat
    BY TimesNat
  <1>2. a * (c - b) = a * c - a * b
    OBVIOUS
  <1> QED
    BY <1>1, <1>2

(* What n requests cost fits into an amount only if n fits into what it    *)
(* buys.                                                                   *)
LEMMA DivBound ==
  \A n, amount \in Nat, cost \in Nat \ {0} : cost * n <= amount => n <= amount \div cost
  OBVIOUS

(* There are finitely many requests and calls. *)
LEMMA FinitelyMany ==
  /\ IsFiniteSet(Requests) /\ IsFiniteSet(Calls)
  /\ \A rs \in SUBSET Requests :
       IsFiniteSet(rs) /\ Cardinality(rs) \in Nat
  <1>1. IsFiniteSet(Requests) /\ IsFiniteSet(1..MaxBatchSize)
    BY FS_Interval, ServiceAssumption DEF Requests
  <1> QED
    BY <1>1, FS_Product, FS_Subset, FS_CardinalityType DEF Calls

-----------------------------------------------------------------------------
(* Windows *)

(* A bound on the windows outlives a step that spends credit, gives up     *)
(* requests or stamps others.                                              *)
LEMMA WindowsShrink ==
  ASSUME NEW rs \in SUBSET Requests, NEW rs2 \in SUBSET rs, NEW st, NEW st2,
         \A r \in rs2 : st2[r] = st[r],
         NEW credit \in Nat, NEW credit2 \in Nat, credit2 <= credit,
         NEW t \in Nat, NEW cap \in Nat, NEW rate \in Nat,
         Windows(rs, st, credit, t, cap, rate)
  PROVE  Windows(rs2, st2, credit2, t, cap, rate)
  <1> SUFFICES ASSUME NEW from \in 0..t, NEW to \in from..t
               PROVE  Cost * Cardinality(ArrivedIn(rs2, st2, from, to))
                        + (IF to = t THEN credit2 ELSE 0) <= cap + rate * (to - from)
    BY DEF Windows
  <1> DEFINE before == ArrivedIn(rs, st, from, to)
             after == ArrivedIn(rs2, st2, from, to)
  <1>1. after \subseteq before /\ before \subseteq Requests
    BY DEF ArrivedIn
  <1>2. Cardinality(after) <= Cardinality(before)
        /\ Cardinality(after) \in Nat /\ Cardinality(before) \in Nat
    BY <1>1, FinitelyMany, FS_Subset
  <1>3. Cost * Cardinality(after) <= Cost * Cardinality(before)
    BY <1>2, TimesMono, ServiceAssumption
  <1>4. Cost * Cardinality(before) + (IF to = t THEN credit ELSE 0) <= cap + rate * (to - from)
    BY DEF Windows
  <1>5. Cost * Cardinality(after) \in Nat /\ Cost * Cardinality(before) \in Nat
        /\ rate * (to - from) \in Nat
    BY <1>2, TimesNat, ServiceAssumption
  <1> QED
    BY <1>3, <1>4, <1>5

(* A request that arrives is counted once in the windows that last until   *)
(* now, and has just been paid for.                                        *)
LEMMA WindowsCharge ==
  ASSUME NEW rs \in SUBSET Requests, NEW r \in Requests, r \notin rs, NEW st, NEW st2,
         \A q \in rs : st2[q] = st[q],
         NEW t \in Nat, st2[r] = t,
         NEW credit \in Nat, credit >= Cost,
         NEW cap \in Nat, NEW rate \in Nat,
         Windows(rs, st, credit, t, cap, rate)
  PROVE  Windows(rs \cup {r}, st2, credit - Cost, t, cap, rate)
  <1> SUFFICES ASSUME NEW from \in 0..t, NEW to \in from..t
               PROVE  Cost * Cardinality(ArrivedIn(rs \cup {r}, st2, from, to))
                        + (IF to = t THEN credit - Cost ELSE 0) <= cap + rate * (to - from)
    BY DEF Windows
  <1> DEFINE before == ArrivedIn(rs, st, from, to)
             after == ArrivedIn(rs \cup {r}, st2, from, to)
  <1>1. before \subseteq Requests /\ r \notin before
    BY DEF ArrivedIn
  <1>2. IsFiniteSet(before) /\ Cardinality(before) \in Nat
    BY <1>1, FinitelyMany
  <1>3. Cost * Cardinality(before) + (IF to = t THEN credit ELSE 0) <= cap + rate * (to - from)
    BY DEF Windows
  <1>4. Cost * Cardinality(before) \in Nat /\ rate * (to - from) \in Nat /\ Cost \in Nat
    BY <1>2, TimesNat, ServiceAssumption
  <1>5. CASE to = t
    <2>1. after = before \cup {r}
      BY <1>5 DEF ArrivedIn
    <2>2. Cardinality(after) = Cardinality(before) + 1
      BY <1>1, <1>2, <2>1, FS_AddElement
    <2>3. Cost * Cardinality(after) = Cost * Cardinality(before) + Cost
      BY <1>2, <1>4, <2>2, TimesSucc
    <2> QED
      BY <1>3, <1>4, <1>5, <2>3
  <1>6. CASE to # t
    <2>1. after = before
      BY <1>6 DEF ArrivedIn
    <2> QED
      BY <1>3, <1>6, <2>1
  <1> QED
    BY <1>5, <1>6

(* A tick opens a window in which nobody has arrived yet, and refills no   *)
(* more than the rate and never above the capacity.                        *)
LEMMA WindowsTick ==
  ASSUME NEW rs \in SUBSET Requests, NEW st, NEW t \in Nat,
         \A r \in rs : st[r] \in 0..t,
         NEW credit \in Nat, NEW credit2 \in Nat,
         NEW cap \in Nat, NEW rate \in Nat,
         credit2 <= cap, credit2 <= credit + rate,
         Windows(rs, st, credit, t, cap, rate)
  PROVE  Windows(rs, st, credit2, t + 1, cap, rate)
  <1> SUFFICES ASSUME NEW from \in 0..(t + 1), NEW to \in from..(t + 1)
               PROVE  Cost * Cardinality(ArrivedIn(rs, st, from, to))
                        + (IF to = t + 1 THEN credit2 ELSE 0) <= cap + rate * (to - from)
    BY DEF Windows
  <1>1. CASE to # t + 1
    <2>1. from \in 0..t /\ to \in from..t
      BY <1>1
    <2>2. Cost * Cardinality(ArrivedIn(rs, st, from, to)) + (IF to = t THEN credit ELSE 0)
            <= cap + rate * (to - from)
      BY <2>1 DEF Windows
    <2>3. Cost * Cardinality(ArrivedIn(rs, st, from, to)) \in Nat /\ rate * (to - from) \in Nat
      <3>1. Cardinality(ArrivedIn(rs, st, from, to)) \in Nat
        BY FinitelyMany DEF ArrivedIn
      <3> QED
        BY <2>1, <3>1, TimesNat, ServiceAssumption
    <2> QED
      BY <1>1, <2>2, <2>3
  <1>2. CASE to = t + 1 /\ from = t + 1
    <2>1. ArrivedIn(rs, st, from, to) = {}
      BY <1>2 DEF ArrivedIn
    <2>2. Cost * Cardinality(ArrivedIn(rs, st, from, to)) = 0
      BY <2>1, FS_EmptySet, ServiceAssumption
    <2>3. rate * (to - from) = 0
      BY <1>2
    <2> QED
      BY <1>2, <2>2, <2>3
  <1>3. CASE to = t + 1 /\ from \in 0..t
    <2>1. ArrivedIn(rs, st, from, to) = ArrivedIn(rs, st, from, t)
      BY <1>3 DEF ArrivedIn
    <2>2. Cost * Cardinality(ArrivedIn(rs, st, from, t)) + credit <= cap + rate * (t - from)
      BY <1>3 DEF Windows
    <2>3. rate * (to - from) = rate * (t - from) + rate
      <3>1. to - from = (t - from) + 1
        BY <1>3
      <3> QED
        BY <1>3, <3>1, TimesSucc
    <2>4. Cost * Cardinality(ArrivedIn(rs, st, from, t)) \in Nat /\ rate * (t - from) \in Nat
      <3>1. Cardinality(ArrivedIn(rs, st, from, t)) \in Nat
        BY FinitelyMany DEF ArrivedIn
      <3> QED
        BY <1>3, <3>1, TimesNat, ServiceAssumption
    <2> QED
      BY <1>3, <2>1, <2>2, <2>3, <2>4
  <1> QED
    BY <1>1, <1>2, <1>3

-----------------------------------------------------------------------------
(* The state *)

(* The types of what the lemmas below calculate with. *)
LEMMA Quantities ==
  ASSUME TypeOK
  PROVE  /\ now \in Nat /\ globalCredit \in Nat
         /\ \A host \in Hosts : clientCredit[host] \in Nat
         /\ \A r \in Requests : start[r] \in Nat /\ start[r] <= now
         /\ writeTimeout \in Nat
  BY ServiceAssumption DEF TypeOK

(* A call belongs to the batch of its request once it is open. *)
LEMMA CallOfBatch ==
  ASSUME NEW c \in Calls
  PROVE  /\ c[1] \in Requests
         /\ phase[c] # "new" => c \in Batch(c[1])
         /\ \A r \in Requests : c \in CallsOf(r) <=> c[1] = r
  BY DEF Calls, CallsOf, Batch

(* The limiter's key is always one of its clients (extractClientIP).       *)
LEMMA KeyIsHost == \A h \in Headers : Key(h) \in Hosts
  <1> SUFFICES ASSUME NEW h \in Headers
               PROVE  Key(h) \in Hosts
    OBVIOUS
  <1>1. h \in HeaderType
    BY ServiceAssumption
  <1> QED
    BY <1>1 DEF HeaderType, Address, Key

(* Windows stay bounded while nobody arrives and no time passes. *)
LEMMA WindowsKept ==
  ASSUME ServiceInv, Paid' \subseteq Paid,
         UNCHANGED <<globalCredit, clientCredit, now, header, start>>
  PROVE  /\ Windows(Paid, start, globalCredit, now, GlobalCap, GlobalRate)'
         /\ \A host \in Hosts :
              Windows(PaidBy(host), start, clientCredit[host], now, ClientCap, ClientRate)'
  <1>1. Paid \subseteq Requests
    BY DEF Paid
  <1>2. Windows(Paid', start, globalCredit, now, GlobalCap, GlobalRate)
    BY <1>1, Quantities, WindowsShrink, ServiceAssumption DEF ServiceInv
  <1>3. ASSUME NEW host \in Hosts
        PROVE  Windows(PaidBy(host)', start, clientCredit[host], now, ClientCap, ClientRate)
    <2>1. PaidBy(host)' \subseteq PaidBy(host) /\ PaidBy(host) \subseteq Requests
      BY <1>1 DEF PaidBy
    <2>2. Windows(PaidBy(host), start, clientCredit[host], now, ClientCap, ClientRate)
      BY DEF ServiceInv
    <2> QED
      BY <2>1, <2>2, Quantities, WindowsShrink, ServiceAssumption DEF ServiceInv
  <1> QED
    BY <1>2, <1>3 DEF Windows, ArrivedIn

-----------------------------------------------------------------------------
(* The actions *)

(* The service starts with full buckets and no request. *)
LEMMA InitInv == Init => ServiceInv
  <1> SUFFICES ASSUME Init
               PROVE  ServiceInv
    OBVIOUS
  <1> USE DEF Init
  <1>1. \A r \in Requests : Batch(r) = {}
    BY DEF Promise!Init, Batch, CallsOf, Calls
  <1>2. Paid = {}
    BY <1>1 DEF Paid
  <1>3. TypeOK
    <2>1. (CHOOSE h \in Headers : TRUE) \in Headers
      BY ServiceAssumption
    <2> QED
      BY <1>1, <2>1, ServiceAssumption DEF TypeOK, Limiter!Init, Promise!Init
  <1>4. \A c \in Calls : CallInv(c)
    BY DEF CallInv, Promise!Init, Answered
  <1>5. ASSUME NEW cap \in Nat, NEW rate \in Nat
        PROVE  Windows({}, start, cap, now, cap, rate)
    <2>1. \A from, to \in Int : ArrivedIn({}, start, from, to) = {}
      BY DEF ArrivedIn
    <2>2. Cost * Cardinality({}) = 0
      BY FS_EmptySet, ServiceAssumption
    <2>3. SUFFICES ASSUME NEW from \in 0..0, NEW to \in from..0
                   PROVE  Cost * Cardinality(ArrivedIn({}, start, from, to)) + cap
                            <= cap + rate * (to - from)
      BY DEF Windows
    <2>4. from = 0 /\ to = 0 /\ rate * (to - from) = 0
      OBVIOUS
    <2> QED
      BY <2>1, <2>2, <2>4
  <1>6. Windows(Paid, start, globalCredit, now, GlobalCap, GlobalRate)
    BY <1>2, <1>5, ServiceAssumption DEF Limiter!Init
  <1>7. ASSUME NEW host \in Hosts
        PROVE  Windows(PaidBy(host), start, clientCredit[host], now, ClientCap, ClientRate)
    <2>1. PaidBy(host) = {}
      BY <1>2 DEF PaidBy
    <2>2. clientCredit[host] = ClientCap
      BY DEF Limiter!Init
    <2> QED
      BY <1>5, <2>1, <2>2, ServiceAssumption
  <1> QED
    BY <1>3, <1>4, <1>6, <1>7 DEF ServiceInv

(* The body is there and its calls begin. *)
LEMMA ReadBodyInv ==
  ASSUME ServiceInv, NEW r \in Requests, ReadBody(r)
  PROVE  ServiceInv'
  <1> USE DEF ReadBody
  <1>1. PICK n \in 1..MaxBatchSize : Promise!Open({r} \X (1..n))
    OBVIOUS
  <1>2. http[r] = "reading" /\ http' = [http EXCEPT ![r] = "running"]
    BY DEF Move
  <1>3. Batch(r) = {} /\ now - start[r] \in 0..ReadTimeout
    BY <1>2 DEF ServiceInv, TypeOK
  <1>4. ASSUME NEW c \in Calls
        PROVE  phase'[c] = IF c[1] = r /\ c[2] \in 1..n THEN "open" ELSE phase[c]
    BY <1>1, <1>4 DEF Promise!Open, Calls
  <1>5. asked' = asked
    BY <1>1 DEF Promise!Open
  <1>6. ASSUME NEW q \in Requests, q # r
        PROVE  Batch(q)' = Batch(q)
    BY <1>4, <1>6 DEF Batch, CallsOf, Calls
  <1>7. TypeOK'
    <2>1. phase' \in [Calls -> {"new", "open", "ok", "failed"}]
      <3>1. phase' = [c \in Calls |-> IF c \in {r} \X (1..n) THEN "open" ELSE phase[c]]
        BY <1>1 DEF Promise!Open
      <3> QED
        BY <3>1 DEF ServiceInv, TypeOK
    <2>2. http' \in [Requests -> {"idle", "reading", "running", "ended"}]
      BY <1>2 DEF ServiceInv, TypeOK
    <2>3. now - start[r] \in 0..(ReadTimeout + OutboundTimeout)
      BY <1>3, ServiceAssumption
    <2>4. ASSUME NEW q \in Requests
          PROVE  /\ http'[q] = "reading" => now - start[q] \in 0..ReadTimeout
                 /\ http'[q] = "running" =>
                      now - start[q] \in 0..(ReadTimeout + OutboundTimeout)
                 /\ http'[q] \in {"idle", "reading"} => Batch(q)' = {}
      BY <1>2, <1>6, <2>3 DEF ServiceInv, TypeOK
    <2> QED
      BY <1>5, <2>1, <2>2, <2>4 DEF ServiceInv, TypeOK, policyVars
  <1>8. ASSUME NEW c \in Calls
        PROVE  CallInv(c)'
    <2>1. CallInv(c) /\ c[1] \in Requests
      BY CallOfBatch DEF ServiceInv
    <2>2. CASE c[1] = r /\ c[2] \in 1..n
      <3>1. phase[c] = "new"
        BY <1>3, <2>2, CallOfBatch
      <3>2. asked[c] = 0
        BY <2>1, <3>1 DEF CallInv, ServiceInv, TypeOK
      <3>3. http'[c[1]] = "running" /\ phase'[c] = "open"
        BY <1>2, <1>4, <2>1, <2>2 DEF ServiceInv, TypeOK
      <3>4. now <= start[c[1]] + ReadTimeout
        BY <1>3, <2>2, Quantities, ServiceAssumption DEF ServiceInv
      <3> QED
        BY <1>5, <3>2, <3>3, <3>4 DEF CallInv, Answered
    <2>3. CASE ~(c[1] = r /\ c[2] \in 1..n)
      <3>1. phase'[c] = phase[c]
        BY <1>4, <2>3
      <3>2. phase[c] = "open" => http'[c[1]] = "running"
        BY <1>2, <2>1 DEF CallInv, ServiceInv, TypeOK
      <3> QED
        BY <1>5, <2>1, <3>1, <3>2 DEF CallInv, Answered
    <2> QED
      BY <2>2, <2>3
  <1>9. Paid' \subseteq Paid
    BY <1>2, <1>6 DEF Paid, ServiceInv, TypeOK
  <1> QED
    BY <1>7, <1>8, <1>9, WindowsKept DEF ServiceInv, policyVars

(* The body is refused: its token bought nothing. *)
LEMMA RefuseBodyInv ==
  ASSUME ServiceInv, NEW r \in Requests, RefuseBody(r)
  PROVE  ServiceInv'
  <1> USE DEF RefuseBody
  <1>1. http[r] = "reading" /\ http' = [http EXCEPT ![r] = "ended"]
    BY DEF Move
  <1>2. \A q \in Requests : Batch(q)' = Batch(q)
    BY DEF promiseVars, Batch
  <1>3. TypeOK'
    <2>1. http' \in [Requests -> {"idle", "reading", "running", "ended"}]
      BY <1>1 DEF ServiceInv, TypeOK
    <2>2. ASSUME NEW q \in Requests
          PROVE  /\ http'[q] = "reading" => now - start[q] \in 0..ReadTimeout
                 /\ http'[q] = "running" =>
                      now - start[q] \in 0..(ReadTimeout + OutboundTimeout)
                 /\ http'[q] \in {"idle", "reading"} => Batch(q)' = {}
      BY <1>1, <1>2 DEF ServiceInv, TypeOK
    <2> QED
      BY <2>1, <2>2 DEF ServiceInv, TypeOK, policyVars, promiseVars
  <1>4. ASSUME NEW c \in Calls
        PROVE  CallInv(c)'
    <2>1. CallInv(c) /\ c[1] \in Requests
      BY CallOfBatch DEF ServiceInv
    <2>2. phase[c] = "open" => http'[c[1]] = "running"
      BY <1>1, <2>1 DEF CallInv, ServiceInv, TypeOK
    <2> QED
      BY <2>1, <2>2 DEF CallInv, Answered, promiseVars
  <1>5. Paid' \subseteq Paid
    BY <1>1, <1>2 DEF Paid, ServiceInv, TypeOK
  <1> QED
    BY <1>3, <1>4, <1>5, WindowsKept DEF ServiceInv, policyVars

(* The last call of the batch is answered and the handler returns. *)
LEMMA EndInv ==
  ASSUME ServiceInv, NEW r \in Requests, End(r)
  PROVE  ServiceInv'
  <1> USE DEF End
  <1>1. http[r] = "running" /\ http' = [http EXCEPT ![r] = "ended"]
    BY DEF Move
  <1>2. \A q \in Requests : Batch(q)' = Batch(q)
    BY DEF promiseVars, Batch
  <1>3. TypeOK'
    <2>1. http' \in [Requests -> {"idle", "reading", "running", "ended"}]
      BY <1>1 DEF ServiceInv, TypeOK
    <2>2. ASSUME NEW q \in Requests
          PROVE  /\ http'[q] = "reading" => now - start[q] \in 0..ReadTimeout
                 /\ http'[q] = "running" =>
                      now - start[q] \in 0..(ReadTimeout + OutboundTimeout)
                 /\ http'[q] \in {"idle", "reading"} => Batch(q)' = {}
      BY <1>1, <1>2 DEF ServiceInv, TypeOK
    <2> QED
      BY <2>1, <2>2 DEF ServiceInv, TypeOK, policyVars, promiseVars
  <1>4. ASSUME NEW c \in Calls
        PROVE  CallInv(c)'
    <2>1. CallInv(c) /\ c[1] \in Requests
      BY CallOfBatch DEF ServiceInv
    <2>2. phase[c] = "open" => http'[c[1]] = "running"
      <3>1. phase[c] = "open" => c[1] # r
        BY CallOfBatch DEF Answered
      <3> QED
        BY <1>1, <2>1, <3>1 DEF CallInv, ServiceInv, TypeOK
    <2> QED
      BY <2>1, <2>2 DEF CallInv, Answered, promiseVars
  <1>5. Paid' \subseteq Paid
    BY <1>1, <1>2 DEF Paid, ServiceInv, TypeOK
  <1> QED
    BY <1>3, <1>4, <1>5, WindowsKept DEF ServiceInv, policyVars

(* SearXNG is asked, in the read timeout of the call's request, and from   *)
(* now on the outbound timeout watches the call.                           *)
LEMMA AskInv ==
  ASSUME ServiceInv, NEW c \in Calls, Ask(c)
  PROVE  ServiceInv'
  <1> USE DEF Ask
  <1>1. /\ phase[c] = "open" /\ asked[c] = 0
        /\ asked' = [asked EXCEPT ![c] = 1] /\ phase' = phase
        /\ askedAt' = [askedAt EXCEPT ![c] = now]
    BY DEF Promise!Ask
  <1>2. \A q \in Requests : Batch(q)' = Batch(q)
    BY <1>1 DEF Batch
  <1>3. TypeOK'
    <2>1. /\ asked' \in [Calls -> 0..1] /\ askedAt' \in [Calls -> -1..now]
          /\ \A d \in Calls : askedAt'[d] = -1 <=> asked'[d] = 0
      BY <1>1 DEF ServiceInv, TypeOK
    <2> QED
      BY <1>1, <1>2, <2>1 DEF ServiceInv, TypeOK, policyVars, requestVars
  <1>4. ASSUME NEW d \in Calls
        PROVE  CallInv(d)'
    <2>1. CallInv(d) /\ d[1] \in Requests
      BY CallOfBatch DEF ServiceInv
    <2>2. CASE d = c
      <3>1. http[c[1]] = "running" /\ now <= start[c[1]] + ReadTimeout
        BY <1>1, <2>1, <2>2 DEF CallInv
      <3>2. asked'[c] = 1 /\ askedAt'[c] = now
        BY <1>1 DEF ServiceInv, TypeOK
      <3>3. now \in start[c[1]]..(start[c[1]] + ReadTimeout) /\ now <= now + OutboundTimeout
        BY <2>1, <2>2, <3>1, Quantities, ServiceAssumption DEF ServiceInv
      <3> QED
        BY <1>1, <2>2, <3>1, <3>2, <3>3 DEF CallInv, Answered, requestVars
    <2>3. CASE d # c
      <3>1. asked'[d] = asked[d] /\ askedAt'[d] = askedAt[d]
        BY <1>1, <2>3
      <3> QED
        BY <1>1, <2>1, <3>1 DEF CallInv, Answered, requestVars
    <2> QED
      BY <2>2, <2>3
  <1>5. Paid' \subseteq Paid
    BY <1>2 DEF Paid, requestVars
  <1> QED
    BY <1>3, <1>4, <1>5, WindowsKept DEF ServiceInv, policyVars, requestVars

(* A call is answered: no later than both timeouts together after its      *)
(* request's header was read.                                              *)
LEMMA AnswerInv ==
  ASSUME ServiceInv, NEW c \in Calls, Answer(c)
  PROVE  ServiceInv'
  <1> USE DEF Answer
  <1>1. PICK p \in {"ok", "failed"} :
          phase[c] = "open" /\ phase' = [phase EXCEPT ![c] = p] /\ asked' = asked
    BY DEF Promise!Succeed, Promise!Fail, Promise!Become
  <1>2. received' = [received EXCEPT ![c] = InWriteTimeout(now - start[c[1]])]
    OBVIOUS
  <1>3. \A q \in Requests : Batch(q)' = Batch(q)
    BY <1>1 DEF Batch, CallsOf, Calls, ServiceInv, TypeOK
  <1>4. TypeOK'
    <2>1. phase' \in [Calls -> {"new", "open", "ok", "failed"}]
      BY <1>1 DEF ServiceInv, TypeOK
    <2>2. received' \in [Calls -> BOOLEAN]
      <3>1. InWriteTimeout(now - start[c[1]]) \in BOOLEAN
        BY DEF InWriteTimeout
      <3> QED
        BY <1>2, <3>1 DEF ServiceInv, TypeOK
    <2> QED
      BY <1>1, <1>3, <2>1, <2>2 DEF ServiceInv, TypeOK, policyVars, requestVars
  <1>5. ASSUME NEW d \in Calls
        PROVE  CallInv(d)'
    <2>1. CallInv(d) /\ d[1] \in Requests
      BY CallOfBatch DEF ServiceInv
    <2>2. CASE d = c
      <3>1. phase'[c] = p /\ received'[c] = InWriteTimeout(now - start[c[1]])
        BY <1>1, <1>2 DEF ServiceInv, TypeOK
      <3>2. now - start[c[1]] <= ReadTimeout + OutboundTimeout
        BY <1>1, <2>1, <2>2 DEF CallInv, ServiceInv, TypeOK
      <3>3. (writeTimeout = 0 \/ writeTimeout > ReadTimeout + OutboundTimeout)
              => InWriteTimeout(now - start[c[1]])
        BY <2>1, <2>2, <3>2, Quantities, ServiceAssumption DEF InWriteTimeout, ServiceInv
      <3>4. phase'[c] \notin {"new", "open"}
        BY <3>1
      <3> QED
        BY <1>1, <2>1, <2>2, <3>1, <3>3, <3>4 DEF CallInv, Answered, requestVars
    <2>3. CASE d # c
      <3>1. phase'[d] = phase[d] /\ received'[d] = received[d]
        BY <1>1, <1>2, <2>3
      <3> QED
        BY <1>1, <2>1, <3>1 DEF CallInv, Answered, requestVars
    <2> QED
      BY <2>2, <2>3
  <1>6. Paid' \subseteq Paid
    BY <1>3 DEF Paid, requestVars
  <1> QED
    BY <1>4, <1>5, <1>6, WindowsKept DEF ServiceInv, policyVars, requestVars

(* A header is read: a request that is let in is charged to both buckets,  *)
(* one that is refused to the server's at most.                            *)
LEMMA ArriveInv ==
  ASSUME ServiceInv, NEW r \in Requests, Arrive(r)
  PROVE  ServiceInv'
  <1> USE DEF Arrive
  <1>1. PICK h \in Headers :
          /\ header' = [header EXCEPT ![r] = h]
          /\ \/ Limiter!Serve(Key(h)) /\ Move(r, "idle", "reading")
             \/ /\ Limiter!RefuseForAll(Key(h)) \/ Limiter!RefuseClient(Key(h))
                /\ Move(r, "idle", "ended")
    OBVIOUS
  <1>2. PICK s \in {"reading", "ended"} :
          http[r] = "idle" /\ http' = [http EXCEPT ![r] = s]
    BY <1>1 DEF Move
  <1>3. Batch(r) = {} /\ r \notin Paid
    BY <1>2 DEF Paid, ServiceInv, TypeOK
  <1>4. \A q \in Requests : Batch(q)' = Batch(q)
    BY DEF promiseVars, Batch
  <1>5. Key(h) \in Hosts
    BY KeyIsHost
  <1>6. start' = [start EXCEPT ![r] = now] /\ now' = now
    OBVIOUS
  <1>7. TypeOK'
    <2>1. globalCredit' \in 0..GlobalCap /\ clientCredit' \in [Hosts -> 0..ClientCap]
      <3>1. CASE Limiter!Serve(Key(h))
        BY <1>5, <3>1, ServiceAssumption DEF Limiter!Serve, ServiceInv, TypeOK
      <3>2. CASE Limiter!RefuseForAll(Key(h)) \/ Limiter!RefuseClient(Key(h))
        BY <3>2, ServiceAssumption
           DEF Limiter!RefuseForAll, Limiter!RefuseClient, ServiceInv, TypeOK
      <3> QED
        BY <1>1, <3>1, <3>2
    <2>2. /\ http' \in [Requests -> {"idle", "reading", "running", "ended"}]
          /\ header' \in [Requests -> Headers] /\ start' \in [Requests -> 0..now]
      BY <1>1, <1>2, <1>6 DEF ServiceInv, TypeOK
    <2>3. ASSUME NEW q \in Requests
          PROVE  /\ http'[q] = "reading" => now - start'[q] \in 0..ReadTimeout
                 /\ http'[q] = "running" =>
                      now - start'[q] \in 0..(ReadTimeout + OutboundTimeout)
                 /\ http'[q] \in {"idle", "reading"} => Batch(q)' = {}
      <3>1. CASE q = r
        <4>1. start'[q] = now /\ now - now = 0 /\ http'[q] # "running"
          BY <1>2, <1>6, <3>1 DEF ServiceInv, TypeOK
        <4> QED
          BY <1>3, <1>4, <3>1, <4>1, ServiceAssumption
      <3>2. CASE q # r
        BY <1>2, <1>4, <1>6, <3>2 DEF ServiceInv, TypeOK
      <3> QED
        BY <3>1, <3>2
    <2> QED
      BY <1>6, <2>1, <2>2, <2>3 DEF ServiceInv, TypeOK, promiseVars
  <1>8. ASSUME NEW d \in Calls
        PROVE  CallInv(d)'
    <2>1. CallInv(d) /\ d[1] \in Requests
      BY CallOfBatch DEF ServiceInv
    <2>2. CASE d[1] = r
      <3>1. phase[d] = "new" /\ asked[d] # 1
        BY <1>3, <2>1, <2>2, CallOfBatch DEF CallInv
      <3> QED
        BY <3>1 DEF CallInv, Answered, promiseVars
    <2>3. CASE d[1] # r
      <3>1. http'[d[1]] = http[d[1]] /\ start'[d[1]] = start[d[1]]
        BY <1>2, <1>6, <2>3
      <3> QED
        BY <1>6, <2>1, <3>1 DEF CallInv, Answered, promiseVars
    <2> QED
      BY <2>2, <2>3
  <1>9. Paid \subseteq Requests /\ \A q \in Paid : start'[q] = start[q] /\ header'[q] = header[q]
    BY <1>1, <1>3, <1>6 DEF Paid
  <1>10. start'[r] = now /\ header'[r] = h
    BY <1>1, <1>6 DEF ServiceInv, TypeOK
  <1>11. \A host \in Hosts :
           PaidBy(host) \subseteq Paid
           /\ Windows(PaidBy(host), start, clientCredit[host], now, ClientCap, ClientRate)
    BY DEF PaidBy, ServiceInv
  <1>12. /\ now \in Nat /\ ClientCap \in Nat /\ ClientRate \in Nat
        /\ \A host \in Hosts : clientCredit[host] \in Nat
    BY Quantities, ServiceAssumption DEF ServiceInv
  <1>13. CASE Limiter!Serve(Key(h)) /\ Move(r, "idle", "reading")
    <2>1. /\ globalCredit >= Cost /\ globalCredit' = globalCredit - Cost
          /\ clientCredit[Key(h)] >= Cost
          /\ clientCredit' = [clientCredit EXCEPT ![Key(h)] = clientCredit[Key(h)] - Cost]
      BY <1>13 DEF Limiter!Serve
    <2>2. Paid' = Paid \cup {r}
      BY <1>4, <1>13 DEF Move, Paid, ServiceInv, TypeOK
    <2>3. Windows(Paid', start', globalCredit', now, GlobalCap, GlobalRate)
      BY <1>3, <1>9, <1>10, <2>1, <2>2, Quantities, WindowsCharge, ServiceAssumption
         DEF ServiceInv
    <2>4. ASSUME NEW host \in Hosts
          PROVE  Windows(PaidBy(host)', start', clientCredit'[host], now,
                         ClientCap, ClientRate)
      <3>1. CASE host = Key(h)
        <4>1. PaidBy(host)' = PaidBy(host) \cup {r}
          BY <1>9, <1>10, <2>2, <3>1 DEF PaidBy
        <4>2. clientCredit'[host] = clientCredit[host] - Cost /\ clientCredit[host] >= Cost
          BY <2>1, <3>1 DEF ServiceInv, TypeOK
        <4>3. PaidBy(host) \subseteq Requests /\ r \notin PaidBy(host)
              /\ \A q \in PaidBy(host) : start'[q] = start[q]
          BY <1>3, <1>9, <1>11
        <4>4. Windows(PaidBy(host), start, clientCredit[host], now, ClientCap, ClientRate)
          BY <1>11
        <4>5. Windows(PaidBy(host) \cup {r}, start', clientCredit[host] - Cost, now,
                      ClientCap, ClientRate)
          BY <1>12, <1>10, <4>2, <4>3, <4>4, WindowsCharge
        <4> QED
          BY <4>1, <4>2, <4>5
      <3>2. CASE host # Key(h)
        <4>1. PaidBy(host)' = PaidBy(host)
          BY <1>9, <1>10, <2>2, <3>2 DEF PaidBy
        <4>2. clientCredit'[host] = clientCredit[host]
          BY <2>1, <3>2 DEF ServiceInv, TypeOK
        <4>3. PaidBy(host) \subseteq Requests
              /\ \A q \in PaidBy(host) : start'[q] = start[q]
          BY <1>9, <1>11
        <4>4. Windows(PaidBy(host), start, clientCredit[host], now, ClientCap, ClientRate)
          BY <1>11
        <4>5. clientCredit[host] \in Nat /\ clientCredit[host] <= clientCredit[host]
          BY <1>12
        <4>6. Windows(PaidBy(host), start', clientCredit[host], now, ClientCap, ClientRate)
          BY <1>12, <4>3, <4>4, <4>5, WindowsShrink
        <4> QED
          BY <4>1, <4>2, <4>6
      <3> QED
        BY <3>1, <3>2
    <2> QED
      BY <1>6, <1>7, <1>8, <2>3, <2>4 DEF ServiceInv, Windows, ArrivedIn
  <1>14. CASE /\ Limiter!RefuseForAll(Key(h)) \/ Limiter!RefuseClient(Key(h))
              /\ Move(r, "idle", "ended")
    <2>1. /\ clientCredit' = clientCredit
          /\ \/ globalCredit' = globalCredit
             \/ globalCredit >= Cost /\ globalCredit' = globalCredit - Cost
      <3>1. CASE Limiter!RefuseForAll(Key(h))
        BY <3>1 DEF Limiter!RefuseForAll
      <3>2. CASE Limiter!RefuseClient(Key(h))
        BY <3>2 DEF Limiter!RefuseClient
      <3> QED
        BY <1>14, <3>1, <3>2
    <2>2. globalCredit' \in Nat /\ globalCredit' <= globalCredit
      BY <2>1, Quantities, ServiceAssumption DEF ServiceInv
    <2>3. Paid' = Paid
      BY <1>3, <1>4, <1>14 DEF Move, Paid, ServiceInv, TypeOK
    <2>4. Windows(Paid', start', globalCredit', now, GlobalCap, GlobalRate)
      BY <1>9, <2>2, <2>3, Quantities, WindowsShrink, ServiceAssumption DEF ServiceInv
    <2>5. ASSUME NEW host \in Hosts
          PROVE  Windows(PaidBy(host)', start', clientCredit'[host], now,
                         ClientCap, ClientRate)
      <3>1. PaidBy(host)' = PaidBy(host)
        BY <1>9, <2>3 DEF PaidBy
      <3>2. PaidBy(host) \subseteq Requests
            /\ \A q \in PaidBy(host) : start'[q] = start[q]
        BY <1>9, <1>11
      <3>3. Windows(PaidBy(host), start, clientCredit[host], now, ClientCap, ClientRate)
        BY <1>11
      <3>4. clientCredit[host] \in Nat /\ clientCredit[host] <= clientCredit[host]
        BY <1>12
      <3>5. Windows(PaidBy(host), start', clientCredit[host], now, ClientCap, ClientRate)
        BY <1>12, <3>2, <3>3, <3>4, WindowsShrink
      <3> QED
        BY <2>1, <3>1, <3>5
    <2> QED
      BY <1>6, <1>7, <1>8, <2>4, <2>5 DEF ServiceInv, Windows, ArrivedIn
  <1> QED
    BY <1>1, <1>13, <1>14

(* Time goes on: no timeout was due, and the buckets fill up. *)
LEMMA TickInv ==
  ASSUME ServiceInv, Tick
  PROVE  ServiceInv'
  <1> USE DEF Tick
  <1>1. /\ now' = now + 1 /\ NothingDue
        /\ http' = http /\ header' = header /\ start' = start
        /\ phase' = phase /\ asked' = asked /\ askedAt' = askedAt
        /\ received' = received /\ writeTimeout' = writeTimeout
    BY DEF promiseVars, requestVars
  <1>2. \A q \in Requests : Batch(q)' = Batch(q)
    BY <1>1 DEF Batch
  <1>3. now \in Nat
    BY Quantities DEF ServiceInv
  <1>4. ASSUME NEW c \in Calls, phase[c] = "open"
        PROVE  asked[c] = 1 /\ now + 1 <= askedAt[c] + OutboundTimeout
    <2>1. c[1] \in Requests /\ c \in Batch(c[1]) /\ ~Answered(c)
      BY <1>4, CallOfBatch DEF Answered
    <2>2. asked[c] = 1 /\ now < askedAt[c] + OutboundTimeout
      BY <1>1, <2>1 DEF NothingDue
    <2>3. askedAt[c] \in Int
      BY <1>3 DEF ServiceInv, TypeOK
    <2> QED
      BY <1>3, <2>2, <2>3, ServiceAssumption
  <1>5. /\ globalCredit' \in 0..GlobalCap /\ globalCredit' <= globalCredit + GlobalRate
        /\ clientCredit' \in [Hosts -> 0..ClientCap]
        /\ \A host \in Hosts : clientCredit'[host] <= clientCredit[host] + ClientRate
    BY ServiceAssumption DEF Limiter!Refill, Limiter!Capped, ServiceInv, TypeOK
  <1>6. TypeOK'
    <2>1. ASSUME NEW r \in Requests
          PROVE  /\ http[r] = "reading" => now + 1 - start[r] \in 0..ReadTimeout
                 /\ http[r] = "running" =>
                      now + 1 - start[r] \in 0..(ReadTimeout + OutboundTimeout)
      <3>1. start[r] \in Nat /\ start[r] <= now
        BY Quantities DEF ServiceInv
      <3>2. CASE http[r] = "reading"
        <4>1. now < start[r] + ReadTimeout
          BY <1>1, <3>2 DEF NothingDue
        <4> QED
          BY <1>3, <3>1, <3>2, <4>1, ServiceAssumption
      <3>3. CASE http[r] = "running"
        <4>1. PICK c \in Batch(r) : ~Answered(c)
          BY <1>1, <3>3 DEF NothingDue
        <4>2. c \in Calls /\ c[1] = r /\ phase[c] = "open"
          BY <4>1 DEF Batch, CallsOf, Calls, Answered, ServiceInv, TypeOK
        <4>3. askedAt[c] \in start[r]..(start[r] + ReadTimeout)
          BY <1>4, <4>2 DEF CallInv, ServiceInv
        <4>4. now + 1 <= askedAt[c] + OutboundTimeout
          BY <1>4, <4>2
        <4> QED
          BY <1>3, <3>1, <3>3, <4>3, <4>4, ServiceAssumption
      <3> QED
        BY <3>2, <3>3
    <2>2. start \in [Requests -> 0..(now + 1)] /\ askedAt \in [Calls -> -1..(now + 1)]
      BY DEF ServiceInv, TypeOK
    <2> QED
      BY <1>1, <1>2, <1>5, <2>1, <2>2 DEF ServiceInv, TypeOK
  <1>7. ASSUME NEW c \in Calls
        PROVE  CallInv(c)'
    <2>1. CallInv(c)
      BY DEF ServiceInv
    <2> QED
      BY <1>1, <1>4, <2>1 DEF CallInv, Answered
  <1>8. Paid' = Paid /\ Paid \subseteq Requests
    BY <1>1, <1>2 DEF Paid
  <1>9. \A r \in Paid : start[r] \in 0..now
    BY <1>8 DEF ServiceInv, TypeOK
  <1>10. Windows(Paid', start', globalCredit', now', GlobalCap, GlobalRate)
    <2>1. globalCredit' \in Nat /\ globalCredit' <= GlobalCap
      BY <1>5, ServiceAssumption
    <2> QED
      BY <1>1, <1>5, <1>8, <1>9, <2>1, Quantities, WindowsTick, ServiceAssumption
         DEF ServiceInv
  <1>11. ASSUME NEW host \in Hosts
         PROVE  Windows(PaidBy(host)', start', clientCredit'[host], now',
                        ClientCap, ClientRate)
    <2>1. PaidBy(host)' = PaidBy(host) /\ PaidBy(host) \subseteq Paid
      BY <1>1, <1>8 DEF PaidBy
    <2>2. clientCredit'[host] \in Nat /\ clientCredit'[host] <= ClientCap
      BY <1>5, ServiceAssumption
    <2>3. Windows(PaidBy(host), start, clientCredit[host], now, ClientCap, ClientRate)
      BY DEF ServiceInv
    <2> QED
      BY <1>1, <1>5, <1>8, <1>9, <2>1, <2>2, <2>3, Quantities, WindowsTick, ServiceAssumption
         DEF ServiceInv
  <1> QED
    BY <1>6, <1>7, <1>10, <1>11 DEF ServiceInv, Windows, ArrivedIn

(* A step that changes nothing. *)
LEMMA StutterInv ==
  ASSUME ServiceInv, UNCHANGED vars
  PROVE  ServiceInv'
  <1> USE DEF vars, policyVars, promiseVars, requestVars
  <1>1. \A r \in Requests : Batch(r)' = Batch(r)
    BY DEF Batch
  <1>2. TypeOK'
    BY <1>1 DEF ServiceInv, TypeOK
  <1>3. \A c \in Calls : CallInv(c)'
    BY DEF ServiceInv, CallInv, Answered
  <1>4. Paid' \subseteq Paid
    BY <1>1 DEF Paid
  <1> QED
    BY <1>2, <1>3, <1>4, WindowsKept DEF ServiceInv

(* The invariant holds in every behaviour of the server. *)
LEMMA ServiceInvariant == Spec => []ServiceInv
  <1>1. ServiceInv /\ [Next \/ AllDone]_vars => ServiceInv'
    <2> SUFFICES ASSUME ServiceInv, [Next \/ AllDone]_vars
                 PROVE  ServiceInv'
      OBVIOUS
    <2>1. CASE \E r \in Requests : Arrive(r)
      BY <2>1, ArriveInv
    <2>2. CASE \E r \in Requests : Serve(r)
      <3>1. PICK r \in Requests : Serve(r)
        BY <2>2
      <3>2. CallsOf(r) \subseteq Calls
        BY DEF CallsOf, Calls
      <3> QED
        BY <3>1, <3>2, ReadBodyInv, RefuseBodyInv, EndInv, AskInv, AnswerInv DEF Serve
    <2>3. CASE Tick
      BY <2>3, TickInv
    <2>4. CASE UNCHANGED vars \/ AllDone
      BY <2>4, StutterInv DEF AllDone
    <2> QED
      BY <2>1, <2>2, <2>3, <2>4 DEF Next
  <1> QED
    BY InitInv, <1>1, PTL DEF Spec

-----------------------------------------------------------------------------
(* The theorems *)

(* The types; a call begins only in its request's batch and is watched     *)
(* from the moment it asks, and no request or answer outlasts its timeout  *)
(* (newMainServer, restyTimeout).                                          *)
THEOREM TypeCorrect == Spec => []TypeOK
  <1>1. ServiceInv => TypeOK
    BY DEF ServiceInv
  <1> QED
    BY <1>1, ServiceInvariant, PTL

(* A WRITE_TIMEOUT of none, or longer than the read timeout and resty's    *)
(* together, loses no answer, whatever the clients and SearXNG do          *)
(* (newMainServer).                                                        *)
THEOREM AnswersArrive == Spec => []AnswersReceived
  <1>1. ServiceInv => AnswersReceived
    BY DEF ServiceInv, CallInv, AnswersReceived
  <1> QED
    BY <1>1, ServiceInvariant, PTL

(* In any window the calls of the requests rs ask SearXNG at most a full   *)
(* batch for every token their bucket could give out from one read timeout *)
(* before the window: each of them has arrived in that time.               *)
LEMMA AskedBound ==
  ASSUME ServiceInv, NEW rs \in SUBSET Paid, NEW calls \in SUBSET Calls,
         \A c \in calls : asked[c] = 1 => c[1] \in rs,
         NEW cap \in Nat, NEW rate \in Nat, NEW credit \in Nat,
         Windows(rs, start, credit, now, cap, rate),
         NEW from \in 0..now, NEW to \in from..now
  PROVE  AskedIn(calls, from, to) <=
           MaxBatchSize * ((cap + rate * (to - from + ReadTimeout)) \div Cost)
  <1> DEFINE first == IF from < ReadTimeout THEN 0 ELSE from - ReadTimeout
             arrived == ArrivedIn(rs, start, first, to)
             inWindow == {c \in calls : askedAt[c] \in from..to}
             amount == cap + rate * (to - from + ReadTimeout)
  <1>1. /\ now \in Nat /\ ReadTimeout \in Nat /\ MaxBatchSize \in Nat /\ Cost \in Nat \ {0}
        /\ first \in 0..now /\ to \in first..now /\ to - first <= to - from + ReadTimeout
    BY Quantities, ServiceAssumption DEF ServiceInv
  <1>2. arrived \subseteq Requests
    BY DEF ArrivedIn, Paid
  <1>3. IsFiniteSet(arrived) /\ Cardinality(arrived) \in Nat
    BY <1>2, FinitelyMany
  <1>4. inWindow \subseteq arrived \X (1..MaxBatchSize)
    <2> SUFFICES ASSUME NEW c \in inWindow
                 PROVE  c \in arrived \X (1..MaxBatchSize)
      OBVIOUS
    <2>1. c \in Calls /\ askedAt[c] \in from..to
      OBVIOUS
    <2>2. asked[c] = 1
      BY <2>1 DEF ServiceInv, TypeOK
    <2>3. askedAt[c] \in start[c[1]]..(start[c[1]] + ReadTimeout) /\ c[1] \in rs
      BY <2>1, <2>2 DEF ServiceInv, CallInv
    <2>4. c[1] \in Requests /\ start[c[1]] \in Nat
      BY <2>1, CallOfBatch, Quantities DEF ServiceInv
    <2>5. start[c[1]] \in first..to
      BY <1>1, <2>1, <2>3, <2>4
    <2> QED
      BY <2>1, <2>3, <2>5 DEF ArrivedIn, Calls
  <1>5. Cardinality(inWindow) <= Cardinality(arrived) * MaxBatchSize
    <2>1. /\ IsFiniteSet(1..MaxBatchSize) /\ Cardinality(1..MaxBatchSize) = MaxBatchSize
      BY <1>1, FS_Interval
    <2>2. /\ IsFiniteSet(arrived \X (1..MaxBatchSize))
          /\ Cardinality(arrived \X (1..MaxBatchSize)) = Cardinality(arrived) * MaxBatchSize
      BY <1>3, <2>1, FS_Product
    <2>3. \A S \in SUBSET (arrived \X (1..MaxBatchSize)) :
            Cardinality(S) <= Cardinality(arrived \X (1..MaxBatchSize))
      BY <2>2, FS_Subset
    <2> HIDE DEF arrived, inWindow
    <2> QED
      BY <1>4, <2>2, <2>3
  <1>6. Cost * Cardinality(arrived) <= cap + rate * (to - first)
    <2>1. Cost * Cardinality(arrived) + (IF to = now THEN credit ELSE 0)
            <= cap + rate * (to - first)
      BY <1>1 DEF Windows
    <2> QED
      BY <1>1, <1>3, <2>1, TimesNat
  <1>7. rate * (to - first) <= rate * (to - from + ReadTimeout)
    BY <1>1, TimesMono
  <1>8. amount \in Nat /\ Cost * Cardinality(arrived) <= amount
    BY <1>1, <1>3, <1>6, <1>7, TimesNat
  <1>9. Cardinality(arrived) <= amount \div Cost /\ amount \div Cost \in Nat
    BY <1>1, <1>3, <1>8, DivBound
  <1>10. MaxBatchSize * Cardinality(arrived) <= MaxBatchSize * (amount \div Cost)
    BY <1>1, <1>3, <1>9, TimesMono
  <1>11. Cardinality(inWindow) \in Nat
    BY <1>2, FinitelyMany, FS_Subset, FS_CardinalityType
  <1> QED
    BY <1>1, <1>3, <1>5, <1>9, <1>10, <1>11, TimesNat DEF AskedIn

(* No traffic gets more upstream calls out of the server than the global   *)
(* limiter and the batch limit allow together (buildHTTPHandler's order of *)
(* RateLimitMiddleware and BodyLimitMiddleware).                           *)
THEOREM AmplificationBounded == Spec => []AmplificationBound
  <1>1. ServiceInv => AmplificationBound
    <2> SUFFICES ASSUME ServiceInv, NEW from \in 0..now, NEW to \in from..now
                 PROVE  AskedIn(Calls, from, to) <=
                          MaxBatchSize *
                            ((GlobalCap + GlobalRate * (to - from + ReadTimeout)) \div Cost)
      BY DEF AmplificationBound
    <2>1. ASSUME NEW c \in Calls, asked[c] = 1
          PROVE  c[1] \in Paid
      BY <2>1, CallOfBatch DEF ServiceInv, CallInv, Paid
    <2>2. Windows(Paid, start, globalCredit, now, GlobalCap, GlobalRate)
      BY DEF ServiceInv
    <2> QED
      BY <2>1, <2>2, AskedBound, Quantities, ServiceAssumption DEF ServiceInv
  <1> QED
    BY <1>1, ServiceInvariant, PTL

(* Where the gateway's headers agree, what the access log shows of one     *)
(* host is bounded by that host's own bucket (extractClientIP,             *)
(* proxyClientIP).                                                         *)
THEOREM LoggedHostBounded == Spec => []LoggedHostBound
  <1>1. ASSUME NEW h \in Headers, NEW host \in Hosts, Named(h), Source(h).host = host
        PROVE  Key(h) = host
    <2>1. h \in HeaderType
      BY ServiceAssumption
    <2> QED
      BY <1>1, <2>1 DEF Named, Source, Key, HeaderType
  <1>2. ServiceInv => LoggedHostBound
    <2> SUFFICES ASSUME ServiceInv, NEW host \in Hosts,
                        NEW from \in 0..now, NEW to \in from..now
                 PROVE  AskedIn(UNION {Batch(r) : r \in {q \in Requests :
                                  Named(header[q]) /\ Source(header[q]).host = host}},
                                from, to) <=
                          MaxBatchSize *
                            ((ClientCap + ClientRate * (to - from + ReadTimeout)) \div Cost)
      BY DEF LoggedHostBound
    <2> DEFINE logged == UNION {Batch(r) : r \in {q \in Requests :
                                  Named(header[q]) /\ Source(header[q]).host = host}}
    <2>1. ASSUME NEW c \in logged
          PROVE  c \in Calls /\ c[1] \in PaidBy(host)
      <3>1. PICK r \in Requests :
              Named(header[r]) /\ Source(header[r]).host = host /\ c \in Batch(r)
        BY <2>1
      <3>2. c \in Calls /\ c[1] = r
        BY <3>1 DEF Batch, CallsOf, Calls
      <3>3. header[r] \in Headers
        BY DEF ServiceInv, TypeOK
      <3> QED
        BY <1>1, <3>1, <3>2, <3>3 DEF Paid, PaidBy
    <2>2. PaidBy(host) \subseteq Paid /\ logged \subseteq Calls
      BY <2>1 DEF PaidBy
    <2>3. Windows(PaidBy(host), start, clientCredit[host], now, ClientCap, ClientRate)
      BY DEF ServiceInv
    <2>4. clientCredit[host] \in Nat /\ ClientCap \in Nat /\ ClientRate \in Nat
      BY Quantities, ServiceAssumption DEF ServiceInv
    <2> HIDE DEF logged
    <2>5. AskedIn(logged, from, to) <=
            MaxBatchSize * ((ClientCap + ClientRate * (to - from + ReadTimeout)) \div Cost)
      BY <2>1, <2>2, <2>3, <2>4, AskedBound
    <2> QED
      BY <2>5 DEF logged
  <1> QED
    BY <1>2, ServiceInvariant, PTL
=============================================================================
