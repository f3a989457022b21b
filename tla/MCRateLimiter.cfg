\* Fractional tokens: one token takes two ticks to come back.  Four clients are
\* one more than the map may hold after a sweep.  GlobalBurst takes its default.
\* The refinement is a safety property that treats all clients alike, so the
\* symmetry is sound for it.
CONSTANTS
  Clients = {c1, c2, c3, c4}
  GlobalLimit = 1
  GlobalBurst = 0
  PerClientLimit = 1
  PerClientBurst = 1
  ClientTTL = 2
  CleanupInterval = 2
  TicksPerSecond = 2
  MaxTime = 6
SPECIFICATION Spec
SYMMETRY ClientSymmetry
INVARIANTS TypeOK ClientWindowBound GlobalWindowBound MapBound
PROPERTY ImplementsPolicy
