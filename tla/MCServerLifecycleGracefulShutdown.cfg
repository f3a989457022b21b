CONSTANTS
  MainRequests = {r1, r2}
  MetricsRequests = {s1, s2}
SPECIFICATION Spec
SYMMETRY RequestSymmetry
INVARIANT GracefulShutdown
