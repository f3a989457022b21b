\* Liveness under FairSpec, on a smaller instance and without symmetry.
CONSTANTS
  Clients = {c1, c2}
  GlobalLimit = 1
  GlobalBurst = 1
  PerClientLimit = 1
  PerClientBurst = 1
  ClientTTL = 1
  CleanupInterval = 2
  TicksPerSecond = 1
  MaxTime = 5
SPECIFICATION FairSpec
PROPERTIES IdleEntryGoes StopEndsEvictor
