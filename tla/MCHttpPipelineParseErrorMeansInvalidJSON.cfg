\* One request is enough.
CONSTANTS
  Requests = {r1}
  c1 = c1
  c2 = c2
  Clients <- MCClients
  Headers <- MCHeaders
  Bodies <- MCBodies
  HandlerStatuses = {200, 404}
  MaxRequestBodySize = 2
  MaxBatchSize = 2
  GlobalRate = 1
  GlobalCap = 2
  ClientRate = 1
  ClientCap = 1
  Cost = 1
SPECIFICATION Spec
SYMMETRY RequestSymmetry
INVARIANTS ParseErrorMeansInvalidJSON
