\* Both launch modes: Init chooses one.
CONSTANTS
  MainRequests = {r1, r2}
  MetricsRequests = {s1, s2}
SPECIFICATION FairSpec
INVARIANTS TypeOK ResourcesReleased NoSenderBlocked RequestsGetGrace MetricsOutliveMain
PROPERTIES SignalEndsProcess ServerFailureEndsProcess
