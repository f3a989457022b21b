------------------------- MODULE MCServerLifecycle -------------------------
(* Small instances of ServerLifecycle for TLC. *)
EXTENDS ServerLifecycle, TLC

RequestSymmetry == Permutations(MainRequests) \cup Permutations(MetricsRequests)
=============================================================================
