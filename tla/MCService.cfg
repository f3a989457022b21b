\* One token a tick for all and one in two ticks per client, each bucket one
\* token deep: two bodies paid for in successive ticks may come in the same one,
\* which the read timeout's share of the bounds stands for.  A WRITE_TIMEOUT of 3
\* is longer than the two timeouts together.
CONSTANTS
  NumRequests = 3
  Headers <- MCHeaders
  MaxBatchSize = 2
  ReadTimeout = 1
  OutboundTimeout = 1
  WriteTimeouts = {0, 2, 3}
  GlobalRate = 2
  GlobalCap = 2
  ClientRate = 1
  ClientCap = 2
  Cost = 2
  MaxTime = 2
SPECIFICATION Spec
INVARIANTS TypeOK AmplificationBound LoggedHostBound AnswersReceived
