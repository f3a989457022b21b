--------------------------- MODULE MCHttpPipeline ---------------------------
(* Small instances of HttpPipeline for TLC. *)
EXTENDS HttpPipeline, TLC

CONSTANTS c1, c2

MCClients == {c1, c2}

(* A direct client; one behind a proxy chain; one the proxy names. *)
MCHeaders ==
  { [xClientIP |-> "absent", xForwardedFor |-> <<>>, remoteAddr |-> c1],
    [xClientIP |-> "absent", xForwardedFor |-> <<c2, c1>>, remoteAddr |-> c1],
    [xClientIP |-> c1, xForwardedFor |-> <<c2>>, remoteAddr |-> c2] }

Body(bytes, json, items, method, tool) ==
  [bytes |-> bytes, complete |-> TRUE, json |-> json, items |-> items,
   method |-> method, tool |-> tool]

(* Bodies and batches at their limits and one above, and a broken upload. *)
MCBodies ==
  { Body(0, "none", 0, "", ""),
    Body(1, "object", 1, "tools/call", "search"),
    Body(2, "array", 2, "", ""),
    Body(2, "array", 3, "", ""),
    Body(3, "object", 1, "ping", ""),
    Body(1, "invalid", 0, "", ""),
    [Body(1, "object", 1, "ping", "") EXCEPT !.complete = FALSE] }

RequestSymmetry == Permutations(Requests)
=============================================================================
