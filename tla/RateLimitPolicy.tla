-------------------------- MODULE RateLimitPolicy --------------------------
(***************************************************************************)
(* What handlers.RateLimiter promises, with none of its mechanism: one     *)
(* bucket of credit for the whole server and one for every client, all     *)
(* full at the start and refilled as time passes.  No clock, no map of     *)
(* clients, no eviction.  RateLimiter implements this specification, so    *)
(* creating a client's limiter on demand and evicting it when idle are     *)
(* invisible to the callers of Allow.                                      *)
(***************************************************************************)
EXTENDS Integers

CONSTANTS
  Clients,      \* client addresses, the keys of the per-client limiters
  GlobalRate,   \* credit the server's bucket gains per tick
  GlobalCap,    \* credit the server's bucket holds at most
  ClientRate,   \* credit a client's bucket gains per tick
  ClientCap,    \* credit a client's bucket holds at most
  Cost          \* credit one request costs

VARIABLES
  globalCredit, \* credit left in the server's bucket
  clientCredit, \* credit left in each client's bucket
  verdict       \* the answer to the latest request

vars == <<globalCredit, clientCredit, verdict>>

Capped(cap, credit) == IF credit > cap THEN cap ELSE credit

Init ==
  /\ globalCredit = GlobalCap
  /\ clientCredit = [c \in Clients |-> ClientCap]
  /\ verdict = "none"

(* One tick of time refills every bucket. *)
Refill ==
  /\ globalCredit' = Capped(GlobalCap, globalCredit + GlobalRate)
  /\ clientCredit' = [c \in Clients |->
                        Capped(ClientCap, clientCredit[c] + ClientRate)]
  /\ UNCHANGED verdict

(* A request the server's bucket cannot pay for costs nobody anything. *)
RefuseForAll(c) ==
  /\ globalCredit < Cost
  /\ verdict' = "deny"
  /\ UNCHANGED <<globalCredit, clientCredit>>

(* A request only the client's bucket cannot pay for is charged to the     *)
(* server's bucket nevertheless.                                           *)
RefuseClient(c) ==
  /\ globalCredit >= Cost
  /\ clientCredit[c] < Cost
  /\ globalCredit' = globalCredit - Cost
  /\ verdict' = "deny"
  /\ UNCHANGED clientCredit

Serve(c) ==
  /\ globalCredit >= Cost
  /\ clientCredit[c] >= Cost
  /\ globalCredit' = globalCredit - Cost
  /\ clientCredit' = [clientCredit EXCEPT ![c] = @ - Cost]
  /\ verdict' = "allow"

Request(c) == RefuseForAll(c) \/ RefuseClient(c) \/ Serve(c)

Next == Refill \/ \E c \in Clients : Request(c)

Spec == Init /\ [][Next]_vars
=============================================================================
