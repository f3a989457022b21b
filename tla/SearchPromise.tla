--------------------------- MODULE SearchPromise ---------------------------
(***************************************************************************)
(* What a tools/call promises its client and SearXNG, with none of its     *)
(* mechanism: every call is answered once, SearXNG is asked at most once   *)
(* for it ("Resty performs no retries by default", main.go:156), and only  *)
(* a call SearXNG was asked about can succeed.  ToolCall implements this   *)
(* specification and Service builds on it.                                 *)
(***************************************************************************)
EXTENDS Naturals

CONSTANT Calls

VARIABLES
  phase,  \* "new", "open" while the call is handled, then "ok" or "failed"
  asked   \* how often SearXNG was asked for it

vars == <<phase, asked>>

Become(c, from, to) == phase[c] = from /\ phase' = [phase EXCEPT ![c] = to]

Init ==
  /\ phase = [c \in Calls |-> "new"]
  /\ asked = [c \in Calls |-> 0]

(* Calls come alone or as the batch of one HTTP request. *)
Open(batch) ==
  /\ \A c \in batch : phase[c] = "new"
  /\ phase' = [c \in Calls |-> IF c \in batch THEN "open" ELSE phase[c]]
  /\ UNCHANGED asked

Ask(c) ==
  /\ phase[c] = "open"
  /\ asked[c] = 0
  /\ asked' = [asked EXCEPT ![c] = 1]
  /\ UNCHANGED phase

Succeed(c) == Become(c, "open", "ok") /\ asked[c] = 1 /\ UNCHANGED asked

Fail(c) == Become(c, "open", "failed") /\ UNCHANGED asked

Next ==
  \/ \E batch \in SUBSET Calls : Open(batch)
  \/ \E c \in Calls : Ask(c) \/ Succeed(c) \/ Fail(c)

Spec == Init /\ [][Next]_vars
=============================================================================
